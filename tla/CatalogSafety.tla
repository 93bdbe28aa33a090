--------------------------- MODULE CatalogSafety ---------------------------
(***************************************************************************)
(* CatalogInvariant is inductive, and what follows from it: ArchivedOnce   *)
(* and, without requests for single subcategories that make them active,   *)
(* ArchivedHidesSubcategories. All of it holds of CatalogApi too, which    *)
(* implements Catalog, and there it says what a confirmed archive is worth *)
(* to the client; EditsInvariant says the same of a confirmed edit.        *)
(* OwnInvariant, with both of them, keeps what a user archived by itself   *)
(* archived. RestoreInvariant and ReviveInvariant say how far              *)
(* RestoredWithCategory and ArchivedHidesSubcategories do hold, and that,  *)
(* with ShelfInvariant, makes Catalog an implementation of Shelves. The    *)
(* last section shows that requests never deadlock and never begin again.  *)
(*                                                                         *)
(* A step belongs to one request p. It leaves alone the variables of every *)
(* other request (OthersKept) and every row another one holds (HeldKept),  *)
(* so the part of the invariant about another request is preserved by one  *)
(* argument for all actions.                                               *)
(***************************************************************************)
EXTENDS CatalogInvariant, CatalogApi, TLAPS

----------------------------------------------------------------------------
(***************************************************************************)
(* Types.                                                                  *)
(***************************************************************************)
LEMMA NoRowType == NoRow \in Row
  BY DEF NoRow, Row

LEMMA AddressableType == \A p \in Requests : Addressable(p) \subseteq Items
  BY DEF Addressable, Items

LEMMA VisibleType ==
    ASSUME TypeOK, NEW p \in Requests, NEW i \in Items
    PROVE  Visible(p, i) \in Row
  BY DEF TypeOK, Visible

LEMMA WrittenType ==
    ASSUME TypeOK, NEW p \in Requests, NEW r \in Row
    PROVE  Written(p, r) \in Row
  <1>1. now[p] \in Nat /\ Merged(p) \in [Fields -> Nat] /\ [f \in Fields |-> now[p]] \in [Fields -> Nat]
    BY DEF TypeOK, Row, Merged
  <1>2. CASE Creates(p)
    BY <1>1, <1>2 DEF Written, Row
  <1>3. CASE ~Creates(p) /\ Updates(p)
    <2>1. [r EXCEPT !.ver = now[p], !.field = Merged(p)] \in Row
      BY <1>1 DEF Row
    <2> QED
      BY <1>3, <2>1 DEF Written, Creates, Updates, Archives
  <1>4. CASE ~Creates(p) /\ ~Updates(p)
    <2>1. /\ [r EXCEPT !.archived = now[p], !.by = "itself", !.ver = now[p]] \in Row
          /\ [r EXCEPT !.archived = 0, !.by = "nobody", !.ver = now[p]] \in Row
      BY <1>1 DEF Row
    <2> QED
      BY <1>4, <2>1 DEF Written
  <1> QED
    BY <1>2, <1>3, <1>4

LEMMA CascadedType ==
    ASSUME TypeOK, NEW p \in Requests, NEW r \in Row
    PROVE  Cascaded(p, r) \in Row
  BY DEF TypeOK, Cascaded, Row

LEMMA ReadClockType ==
    ASSUME TypeOK, NEW p \in Requests, ReadClock(p)
    PROVE  clock' \in Nat /\ clock <= clock' /\ now' = [now EXCEPT ![p] = clock']
  BY CatalogAssumption DEF TypeOK, ReadClock

LEMMA InitTyped == Init => Typed
  BY CatalogAssumption, NoRowType DEF Init, Typed, TypeOK, Targeted, Epoch

LEMMA ReturnTyped ==
    ASSUME Typed, NEW p \in Requests, Return(p),
           rows' \in [Items -> Row], draft' \in [Items -> Row],
           lock' \in [Items -> Requests \cup {Free}]
    PROVE  Typed'
  BY NoRowType DEF Typed, TypeOK, Targeted, Return, Addressable, IsCategoryRequest

LEMMA ReturnUnchangedTyped ==
    ASSUME Typed, NEW p \in Requests, ReturnUnchanged(p)
    PROVE  Typed'
  BY ReturnTyped DEF ReturnUnchanged, tables, Typed, TypeOK

LEMMA CommitTyped == ASSUME Typed, NEW p \in Requests, Commit(p) PROVE Typed'
  <1>1. rows' \in [Items -> Row]
    BY VisibleType DEF Commit, Typed
  <1> QED
    BY <1>1, ReturnTyped DEF Commit, Unlock, Typed, TypeOK

LEMMA DiscardTyped == ASSUME Typed, NEW p \in Requests, Discard(p) PROVE Typed'
  BY ReturnTyped DEF Discard, Unlock, Typed, TypeOK

LEMMA BeginTyped ==
    ASSUME Typed, NEW p \in Requests, NEW i \in Addressable(p), NEW fields \in SUBSET Fields,
           NEW next \in {"write", "parent"}, Begin(p, i, fields, next),
           clock' \in Nat, now' \in [Requests -> Nat]
    PROVE  Typed'
  BY AddressableType
  DEF Typed, TypeOK, Targeted, Begin, tables, Addressable, IsCategoryRequest

LEMMA StartTyped == ASSUME Typed, NEW p \in Requests, Start(p) PROVE Typed'
  <1>1. ReadClock(p) => clock' \in Nat /\ now' \in [Requests -> Nat]
    BY ReadClockType DEF Typed, TypeOK
  <1>2. UNCHANGED <<clock, now>> => clock' \in Nat /\ now' \in [Requests -> Nat]
    BY DEF Typed, TypeOK
  <1>3. CASE FindForCreate(p)
    BY <1>1, <1>3, BeginTyped, ReturnUnchangedTyped DEF FindForCreate
  <1>4. CASE FindForUpdate(p)
    BY <1>1, <1>4, BeginTyped, ReturnUnchangedTyped DEF FindForUpdate
  <1>5. CASE FindForArchive(p)
    BY <1>1, <1>5, BeginTyped, ReturnUnchangedTyped DEF FindForArchive
  <1>6. CASE FindForRestoreCategory(p)
    BY <1>1, <1>6, BeginTyped, ReturnUnchangedTyped
    DEF FindForRestoreCategory, Addressable, IsCategoryRequest, CategoryKinds
  <1>7. CASE FindForRestoreSubcategory(p)
    <2>1. Addressable(p) = Subcategories
      BY <1>7 DEF FindForRestoreSubcategory, Addressable, IsCategoryRequest, CategoryKinds
    <2> QED
      BY <1>2, <1>7, <2>1, BeginTyped, ReturnUnchangedTyped DEF FindForRestoreSubcategory
  <1> QED
    BY <1>3, <1>4, <1>5, <1>6, <1>7 DEF Start

\* A step of p that moves only its program counter.
LEMMA MoveTyped ==
    ASSUME Typed, NEW p \in Requests, pc[p] \notin {"start", "done"},
           NEW next \in {"write", "apply", "cascade", "sweep", "end", "fail"},
           pc' = [pc EXCEPT ![p] = next],
           rows' \in [Items -> Row], draft' \in [Items -> Row],
           lock' \in [Items -> Requests \cup {Free}], clock' \in Nat,
           now' \in [Requests -> Nat], matched' \in [Requests -> SUBSET Subcategories],
           UNCHANGED <<kind, tgt, seen, edits>>
    PROVE  Typed'
  BY DEF Typed, TypeOK, Targeted, Addressable, IsCategoryRequest

LEMMA NoRowAffectedTyped ==
    ASSUME Typed, NEW p \in Requests, pc[p] \notin {"start", "done"}, NoRowAffected(p)
    PROVE  Typed'
  BY MoveTyped, ReturnUnchangedTyped DEF NoRowAffected, tables, Typed, TypeOK

LEMMA ProgressTyped == ASSUME Typed, NEW p \in Requests, Progress(p) PROVE Typed'
  <1>1. CASE FindParent(p)
    BY <1>1, ReadClockType, MoveTyped, ReturnUnchangedTyped
    DEF FindParent, tables, Typed, TypeOK
  <1>2. CASE SelectRow(p)
    BY <1>2, MoveTyped, NoRowAffectedTyped DEF SelectRow, tables, Typed, TypeOK
  <1>3. CASE WriteRow(p)
    <2>1. tgt[p] \in Items
      BY <1>3, AddressableType DEF WriteRow, Typed, Targeted
    <2>2. Written(p, rows[tgt[p]]) \in Row
      BY <2>1, WrittenType DEF Typed, TypeOK
    <2>3. CASE ~Selects(p, rows[tgt[p]])
      BY <1>3, <2>3, NoRowAffectedTyped DEF WriteRow
    <2>4. CASE Selects(p, rows[tgt[p]])
      <3>1. rows' \in [Items -> Row] /\ draft' \in [Items -> Row]
        BY <1>3, <2>2, <2>4 DEF WriteRow, Typed, TypeOK
      <3>2. CASE Cascades(p)
        BY <1>3, <2>4, <3>1, <3>2, MoveTyped DEF WriteRow, Typed, TypeOK
      <3>3. CASE ~Cascades(p)
        BY <1>3, <2>4, <3>1, <3>3, ReturnTyped DEF WriteRow, Typed, TypeOK
      <3> QED
        BY <3>2, <3>3
    <2> QED
      BY <2>3, <2>4
  <1>4. CASE SelectChildren(p)
    BY <1>4, MoveTyped DEF SelectChildren, SubcategoriesOf, tables, Typed, TypeOK
  <1>5. CASE WriteChildren(p)
    <2>1. draft' \in [Items -> Row] /\ lock' \in [Items -> Requests \cup {Free}]
      BY <1>5, CascadedType DEF WriteChildren, Typed, TypeOK
    <2> QED
      BY <1>5, <2>1, MoveTyped DEF WriteChildren, Typed, TypeOK
  <1>6. CASE Commit(p)
    BY <1>6, CommitTyped
  <1>7. CASE Rollback(p)
    BY <1>7, DiscardTyped DEF Rollback
  <1> QED
    BY <1>1, <1>2, <1>3, <1>4, <1>5, <1>6, <1>7 DEF Progress

LEMMA StepTyped == Typed /\ [Next]_vars => Typed'
  <1> SUFFICES ASSUME Typed, [Next]_vars PROVE Typed'
    OBVIOUS
  <1>1. CASE UNCHANGED vars
    BY <1>1 DEF vars, Typed, TypeOK, Targeted, Addressable, IsCategoryRequest
  <1>2. ASSUME NEW p \in Requests, Start(p) \/ Progress(p) \/ Abort(p) PROVE Typed'
    BY <1>2, StartTyped, ProgressTyped, DiscardTyped DEF Abort
  <1> QED
    BY <1>1, <1>2 DEF Next

\* Every reachable state is well typed, for any number of categories, subcategories and
\* concurrent requests of any endpoints.
THEOREM TypeCorrect == Spec => []TypeOK
  <1>1. Spec => []Typed
    BY InitTyped, StepTyped, PTL DEF Spec
  <1>2. Typed => TypeOK
    BY DEF Typed
  <1> QED
    BY <1>1, <1>2, PTL

----------------------------------------------------------------------------
(***************************************************************************)
(* The invariants.                                                         *)
(***************************************************************************)
OthersKept(p) ==
    /\ kind' = kind
    /\ clock' >= clock
    /\ \A q \in Requests \ {p} :
          /\ pc'[q] = pc[q]
          /\ tgt'[q] = tgt[q]
          /\ seen'[q] = seen[q]
          /\ edits'[q] = edits[q]
          /\ now'[q] = now[q]
          /\ matched'[q] = matched[q]

HeldKept(p) ==
    \A i \in Items :
        /\ lock'[i] \in {lock[i], Free, p}
        /\ lock[i] \notin {Free, p} =>
              lock'[i] = lock[i] /\ draft'[i] = draft[i] /\ rows'[i] = rows[i]

\* The invariant without the part about active subcategories.
Core ==
    /\ kind \in [Requests -> Kinds]
    /\ clock > 0
    /\ UnlockedSettled
    /\ DraftsKeepTime
    /\ \A p \in Requests : RequestInvariant(p)

----------------------------------------------------------------------------
(***************************************************************************)
(* Who changes what.                                                       *)
(***************************************************************************)
LEMMA CascadeTarget ==
    ASSUME Typed, NEW p \in Requests, Cascades(p), pc[p] \notin {"start", "done"}
    PROVE  tgt[p] \in Categories /\ tgt[p] \notin Subcategories
  BY CatalogAssumption
  DEF Typed, Targeted, Cascades, Addressable, IsCategoryRequest, CategoryKinds

LEMMA IdleHoldsNothing ==
    ASSUME Core, NEW p \in Requests, ~Transacting(p), NEW i \in Items
    PROVE  lock[i] # p
  BY DEF Core, RequestInvariant, LocksOfCascade

LEMMA ReturnKeepsOthers ==
    ASSUME Typed, NEW p \in Requests, Return(p)
    PROVE  OthersKept(p)
  BY DEF Return, OthersKept, Typed, TypeOK

LEMMA BeginKeepsOthers ==
    ASSUME Typed, NEW p \in Requests, NEW i, NEW fields, NEW next, Begin(p, i, fields, next),
           ReadClock(p) \/ UNCHANGED <<clock, now>>
    PROVE  OthersKept(p)
  BY ReadClockType DEF Begin, OthersKept, Typed, TypeOK

LEMMA StepKeepsOthers ==
    ASSUME Typed, NEW p \in Requests, Start(p) \/ Progress(p) \/ Abort(p)
    PROVE  OthersKept(p)
  <1>1. CASE FindForCreate(p)
    BY <1>1, BeginKeepsOthers, ReturnKeepsOthers DEF FindForCreate, ReturnUnchanged
  <1>2. CASE FindForUpdate(p)
    BY <1>2, BeginKeepsOthers, ReturnKeepsOthers DEF FindForUpdate, ReturnUnchanged
  <1>3. CASE FindForArchive(p)
    BY <1>3, BeginKeepsOthers, ReturnKeepsOthers DEF FindForArchive, ReturnUnchanged
  <1>4. CASE FindForRestoreCategory(p)
    BY <1>4, BeginKeepsOthers, ReturnKeepsOthers DEF FindForRestoreCategory, ReturnUnchanged
  <1>5. CASE FindForRestoreSubcategory(p)
    BY <1>5, BeginKeepsOthers, ReturnKeepsOthers DEF FindForRestoreSubcategory, ReturnUnchanged
  <1>6. CASE FindParent(p)
    BY <1>6, ReadClockType, ReturnKeepsOthers
    DEF FindParent, ReturnUnchanged, OthersKept, Typed, TypeOK
  <1>7. ASSUME NoRowAffected(p) PROVE OthersKept(p)
    BY <1>7, ReturnKeepsOthers DEF NoRowAffected, ReturnUnchanged, OthersKept, Typed, TypeOK
  <1>8. CASE SelectRow(p)
    BY <1>7, <1>8 DEF SelectRow, OthersKept, Typed, TypeOK
  <1>9. CASE WriteRow(p)
    BY <1>7, <1>9, ReturnKeepsOthers DEF WriteRow, OthersKept, Typed, TypeOK
  <1>10. CASE SelectChildren(p)
    BY <1>10 DEF SelectChildren, OthersKept, Typed, TypeOK
  <1>11. CASE WriteChildren(p)
    BY <1>11 DEF WriteChildren, OthersKept, Typed, TypeOK
  <1>12. CASE Commit(p) \/ Discard(p)
    BY <1>12, ReturnKeepsOthers DEF Commit, Discard
  <1> QED
    BY <1>1, <1>2, <1>3, <1>4, <1>5, <1>6, <1>8, <1>9, <1>10, <1>11, <1>12
    DEF Start, Progress, Rollback, Abort

\* A request that has made a step is not at its start any more.
LEMMA StepBegins ==
    ASSUME Typed, NEW p \in Requests, Start(p) \/ Progress(p) \/ Abort(p)
    PROVE  pc'[p] # "start"
  <1>1. ASSUME Return(p) PROVE pc'[p] # "start"
    BY <1>1 DEF Return, Typed, TypeOK
  <1>2. ASSUME NEW i, NEW fields, NEW next, Begin(p, i, fields, next), next # "start"
        PROVE  pc'[p] # "start"
    BY <1>2 DEF Begin, Typed, TypeOK
  <1>3. CASE Start(p)
    BY <1>1, <1>2, <1>3
    DEF Start, FindForCreate, FindForUpdate, FindForArchive, FindForRestoreCategory,
        FindForRestoreSubcategory, ReturnUnchanged
  <1>4. CASE FindParent(p)
    BY <1>1, <1>4 DEF FindParent, ReturnUnchanged, Typed, TypeOK
  <1>5. ASSUME NoRowAffected(p) PROVE pc'[p] # "start"
    BY <1>1, <1>5 DEF NoRowAffected, ReturnUnchanged, Typed, TypeOK
  <1>6. CASE SelectRow(p)
    BY <1>5, <1>6 DEF SelectRow, Typed, TypeOK
  <1>7. CASE WriteRow(p)
    BY <1>1, <1>5, <1>7 DEF WriteRow, Typed, TypeOK
  <1>8. CASE SelectChildren(p) \/ WriteChildren(p)
    BY <1>8 DEF SelectChildren, WriteChildren, Typed, TypeOK
  <1>9. CASE Commit(p) \/ Rollback(p) \/ Abort(p)
    BY <1>1, <1>9 DEF Commit, Rollback, Abort, Discard
  <1> QED
    BY <1>3, <1>4, <1>6, <1>7, <1>8, <1>9 DEF Progress

\* Such a step leaves the invariant of another request as it was.
LEMMA OtherRequest ==
    ASSUME Typed, Core, NEW p \in Requests, NEW q \in Requests \ {p},
           OthersKept(p), HeldKept(p)
    PROVE  RequestInvariant(q)'
  <1>1. RequestInvariant(q) /\ q # Free /\ q # p
    BY CatalogAssumption DEF Core
  <1>2. /\ pc'[q] = pc[q] /\ tgt'[q] = tgt[q] /\ now'[q] = now[q]
        /\ matched'[q] = matched[q] /\ kind' = kind
    BY DEF OthersKept
  <1>3. \A i \in Items : lock'[i] = q => lock[i] = q
    BY <1>1 DEF HeldKept
  <1>4. \A i \in Items : lock[i] = q => lock'[i] = q /\ draft'[i] = draft[i]
    BY <1>1 DEF HeldKept
  <1>5. LocksOfCascade(q)'
    BY <1>1, <1>2, <1>3 DEF RequestInvariant, LocksOfCascade, Transacting, Cascades
  <1>6. ClockRead(q)'
    BY <1>1, <1>2 DEF RequestInvariant, ClockRead
  <1>7. CategoryDrafted(q)'
    <2>1. Transacting(q) => tgt[q] \in Items
      BY AddressableType DEF Transacting, Typed, Targeted
    <2> QED
      BY <1>1, <1>2, <1>4, <2>1
      DEF RequestInvariant, CategoryDrafted, Transacting, Cascades, Archives
  <1>8. MatchedInCategory(q)'
    BY <1>1, <1>2 DEF RequestInvariant, MatchedInCategory
  <1> QED
    BY <1>5, <1>6, <1>7, <1>8 DEF RequestInvariant

\* What remains to be shown of a step of p.
LEMMA CoreOfStep ==
    ASSUME Typed, Typed', Core, NEW p \in Requests, OthersKept(p), HeldKept(p),
           UnlockedSettled', DraftsKeepTime', RequestInvariant(p)'
    PROVE  Core'
  <1>1. \A q \in Requests : RequestInvariant(q)'
    BY OtherRequest
  <1>2. kind' \in [Requests -> Kinds] /\ clock' > 0
    <2>1. clock \in Nat /\ clock' \in Nat /\ clock > 0 /\ clock' >= clock
      BY DEF Core, OthersKept, Typed, TypeOK
    <2> QED
      BY <2>1 DEF Core, OthersKept
  <1> QED
    BY <1>1, <1>2 DEF Core

----------------------------------------------------------------------------
(***************************************************************************)
(* Steps that change no table.                                             *)
(***************************************************************************)
\* A step of a request that cascades neither before nor after.
LEMMA QuietCore ==
    ASSUME Typed, Typed', Core, NEW p \in Requests, OthersKept(p), UNCHANGED tables,
           ~Transacting(p), ~Transacting(p)', ClockRead(p)'
    PROVE  Core'
  <1>1. HeldKept(p)
    BY DEF HeldKept, tables
  <1>2. UnlockedSettled' /\ DraftsKeepTime'
    BY DEF Core, UnlockedSettled, DraftsKeepTime, tables
  <1>3. \A i \in Items : lock'[i] # p
    BY IdleHoldsNothing DEF tables
  <1>4. RequestInvariant(p)'
    BY <1>3 DEF RequestInvariant, LocksOfCascade, CategoryDrafted, MatchedInCategory, Transacting
  <1> QED
    BY <1>1, <1>2, <1>4, CoreOfStep

LEMMA QuietShielded ==
    ASSUME Typed, Shielded, NEW p \in Requests, OthersKept(p), UNCHANGED tables,
           ~Transacting(p)'
    PROVE  Shielded'
  <1>1. ArchivedHidesSubcategories'
    BY DEF Shielded, ArchivedHidesSubcategories, Active, tables
  <1>2. ASSUME NEW q \in Requests PROVE Reached(q)'
    <2>1. CASE q = p
      BY <2>1 DEF Reached, Transacting
    <2>2. CASE q # p
      BY <2>2 DEF Shielded, Reached, OthersKept, Active, Visible, SubcategoriesOf, tables
    <2> QED
      BY <2>1, <2>2
  <1> QED
    BY <1>1, <1>2 DEF Shielded

\* The steps of p before its first write and those that give up.
Quiet(p) ==
    /\ UNCHANGED tables
    /\ ~Transacting(p)
    /\ ~Transacting(p)'
    /\ ClockRead(p)'

LEMMA ReturnQuiet ==
    ASSUME Typed, NEW p \in Requests, ~Transacting(p), ReturnUnchanged(p)
    PROVE  Quiet(p)
  BY DEF ReturnUnchanged, Return, Quiet, ClockRead, Transacting, Typed, TypeOK

LEMMA ReadingPositive ==
    ASSUME Typed, Core, NEW p \in Requests, ReadClock(p)
    PROVE  now'[p] > 0
  BY ReadClockType DEF Typed, TypeOK, Core

LEMMA BeginQuiet ==
    ASSUME Typed, Core, NEW p \in Requests, pc[p] = "start",
           NEW i, NEW fields, NEW next, Begin(p, i, fields, next),
           (next = "write" /\ ReadClock(p)) \/ next = "parent"
    PROVE  Quiet(p)
  BY ReadingPositive DEF Begin, Quiet, ClockRead, Transacting, Typed, TypeOK

LEMMA StartQuiet ==
    ASSUME Typed, Core, NEW p \in Requests, Start(p)
    PROVE  Quiet(p)
  <1>1. pc[p] = "start" /\ ~Transacting(p)
    BY DEF Start, FindForCreate, FindForUpdate, FindForArchive, FindForRestoreCategory,
           FindForRestoreSubcategory, Transacting
  <1>2. CASE FindForCreate(p)
    BY <1>1, <1>2, BeginQuiet, ReturnQuiet DEF FindForCreate
  <1>3. CASE FindForUpdate(p)
    BY <1>1, <1>3, BeginQuiet, ReturnQuiet DEF FindForUpdate
  <1>4. CASE FindForArchive(p)
    BY <1>1, <1>4, BeginQuiet, ReturnQuiet DEF FindForArchive
  <1>5. CASE FindForRestoreCategory(p)
    BY <1>1, <1>5, BeginQuiet, ReturnQuiet DEF FindForRestoreCategory
  <1>6. CASE FindForRestoreSubcategory(p)
    BY <1>1, <1>6, BeginQuiet, ReturnQuiet DEF FindForRestoreSubcategory
  <1> QED
    BY <1>2, <1>3, <1>4, <1>5, <1>6 DEF Start

LEMMA FindParentQuiet ==
    ASSUME Typed, Core, NEW p \in Requests, FindParent(p)
    PROVE  Quiet(p)
  BY ReadingPositive, ReturnQuiet
  DEF FindParent, Quiet, ClockRead, Transacting, Typed, TypeOK

LEMMA NoRowAffectedQuiet ==
    ASSUME Typed, Core, NEW p \in Requests, pc[p] \in {"write", "apply"}, NoRowAffected(p)
    PROVE  Quiet(p)
  BY ReturnQuiet DEF NoRowAffected, Quiet, ClockRead, Transacting, Typed, TypeOK

LEMMA SelectRowQuiet ==
    ASSUME Typed, Core, NEW p \in Requests, SelectRow(p)
    PROVE  Quiet(p)
  <1>1. RequestInvariant(p)
    BY DEF Core
  <1> QED
    BY <1>1, NoRowAffectedQuiet
    DEF SelectRow, Quiet, RequestInvariant, ClockRead, Transacting, Typed, TypeOK

LEMMA QuietStep ==
    ASSUME Typed, Typed', Core, NEW p \in Requests, OthersKept(p), Quiet(p)
    PROVE  Core' /\ (Shielded => Shielded')
  BY QuietCore, QuietShielded DEF Quiet

----------------------------------------------------------------------------
(***************************************************************************)
(* Steps that write.                                                       *)
(***************************************************************************)
\* What the one statement of a request without a cascade may do to archived_at.
LEMMA WrittenArchived ==
    ASSUME Typed, NEW p \in Requests, NEW i \in Items, Selects(p, rows[i])
    PROVE  rows[i].archived # 0 =>
              Written(p, rows[i]).archived \in {rows[i].archived, 0}
  <1>1. rows[i] \in Row
    BY DEF Typed, TypeOK
  <1>2. CASE Creates(p)
    BY <1>2 DEF Written, Creates, Updates, Archives
  <1>3. CASE ~Creates(p) /\ Updates(p)
    BY <1>1, <1>3 DEF Written, Row, Creates, Updates, Archives
  <1>4. CASE ~Creates(p) /\ ~Updates(p) /\ Archives(p)
    BY <1>4 DEF Selects, Active
  <1>5. CASE ~Creates(p) /\ ~Updates(p) /\ ~Archives(p)
    BY <1>1, <1>5 DEF Written, Row
  <1> QED
    BY <1>2, <1>3, <1>4, <1>5

\* The row that a cascade begins with.
LEMMA WrittenByCascade ==
    ASSUME Typed, Core, NEW p \in Requests, Cascades(p), pc[p] = "apply",
           NEW i \in Items, Selects(p, rows[i])
    PROVE  /\ Written(p, rows[i]).present
           /\ Archives(p) <=> Written(p, rows[i]).archived # 0
  <1>1. rows[i] \in Row /\ rows[i].present /\ ~Creates(p) /\ ~Updates(p)
    BY DEF Typed, TypeOK, Selects, Cascades, Creates, Updates
  <1>2. now[p] \in Nat /\ now[p] > 0
    BY DEF Typed, TypeOK, Core, RequestInvariant, ClockRead
  <1>3. CASE Archives(p)
    <2>1. Written(p, rows[i]) =
              [rows[i] EXCEPT !.archived = now[p], !.by = "itself", !.ver = now[p]]
      BY <1>1, <1>3 DEF Written
    <2>2. Written(p, rows[i]).archived = now[p] /\ Written(p, rows[i]).present = rows[i].present
      BY <1>1, <2>1 DEF Row
    <2> QED
      BY <1>1, <1>2, <1>3, <2>2
  <1>4. CASE ~Archives(p)
    BY <1>1, <1>4 DEF Written, Row
  <1> QED
    BY <1>3, <1>4

\* The write of a request without a cascade.
AutocommitWrite(p) ==
    /\ ~Cascades(p)
    /\ pc[p] = "apply"
    /\ tgt[p] \in Items
    /\ Selects(p, rows[tgt[p]])
    /\ lock[tgt[p]] = Free
    /\ rows' = [rows EXCEPT ![tgt[p]] = Written(p, rows[tgt[p]])]
    /\ draft' = [draft EXCEPT ![tgt[p]] = Written(p, rows[tgt[p]])]
    /\ UNCHANGED lock
    /\ Return(p)

\* The first write of a request with a cascade.
LockingWrite(p) ==
    /\ Cascades(p)
    /\ pc[p] = "apply"
    /\ tgt[p] \in Items
    /\ Selects(p, rows[tgt[p]])
    /\ lock[tgt[p]] = Free
    /\ draft' = [draft EXCEPT ![tgt[p]] = Written(p, rows[tgt[p]])]
    /\ lock' = [lock EXCEPT ![tgt[p]] = p]
    /\ pc' = [pc EXCEPT ![p] = "cascade"]
    /\ UNCHANGED <<rows, clock, kind, tgt, seen, edits, now, matched>>

LEMMA WriteRowCases ==
    ASSUME Typed, Core, NEW p \in Requests, WriteRow(p)
    PROVE  Quiet(p) \/ AutocommitWrite(p) \/ LockingWrite(p)
  <1>1. pc[p] = "apply" /\ tgt[p] \in Items /\ ~Transacting(p)
    BY AddressableType DEF WriteRow, Transacting, Typed, Targeted
  <1>2. lock[tgt[p]] = Free
    BY <1>1, IdleHoldsNothing DEF WriteRow, RowFree
  <1>3. CASE ~Selects(p, rows[tgt[p]])
    BY <1>1, <1>3, NoRowAffectedQuiet DEF WriteRow
  <1>4. CASE Selects(p, rows[tgt[p]])
    BY <1>1, <1>2, <1>4 DEF WriteRow, CommitsAtOnce, AutocommitWrite, LockingWrite
  <1> QED
    BY <1>3, <1>4

LEMMA AutocommitCore ==
    ASSUME Typed, Typed', Core, NEW p \in Requests, OthersKept(p), AutocommitWrite(p)
    PROVE  Core'
  <1>1. HeldKept(p)
    BY DEF AutocommitWrite, HeldKept, Typed, TypeOK
  <1>2. UnlockedSettled'
    BY DEF AutocommitWrite, Core, UnlockedSettled, Typed, TypeOK
  <1>3. DraftsKeepTime'
    <2>1. ASSUME NEW i \in Items, rows'[i].archived # 0
          PROVE  draft'[i].archived \in {rows'[i].archived, 0}
      BY <2>1 DEF AutocommitWrite, Core, DraftsKeepTime, Typed, TypeOK
    <2> QED
      BY <2>1 DEF DraftsKeepTime
  <1>4. ~Transacting(p) /\ pc'[p] = "done"
    BY DEF AutocommitWrite, Transacting, Return, Typed, TypeOK
  <1>5. RequestInvariant(p)'
    BY <1>4, IdleHoldsNothing
    DEF AutocommitWrite, RequestInvariant, LocksOfCascade, ClockRead, CategoryDrafted,
        MatchedInCategory, Transacting
  <1> QED
    BY <1>1, <1>2, <1>3, <1>5, CoreOfStep

LEMMA LockingCore ==
    ASSUME Typed, Typed', Core, NEW p \in Requests, OthersKept(p), LockingWrite(p)
    PROVE  Core'
  <1> DEFINE i == tgt[p]
  <1>1. p # Free
    BY CatalogAssumption
  <1>2. HeldKept(p)
    BY DEF LockingWrite, HeldKept, Typed, TypeOK
  <1>3. UnlockedSettled'
    BY <1>1 DEF LockingWrite, Core, UnlockedSettled, Typed, TypeOK
  <1>4. DraftsKeepTime'
    BY WrittenArchived DEF LockingWrite, Core, DraftsKeepTime, Typed, TypeOK
  <1>5. pc'[p] = "cascade" /\ Cascades(p)' /\ tgt'[p] = i /\ i \in Items
    BY DEF LockingWrite, Cascades, Typed, TypeOK
  <1>6. LocksOfCascade(p)'
    <2>1. ~Transacting(p)
      BY DEF LockingWrite, Transacting
    <2> QED
      BY <1>5, <2>1, IdleHoldsNothing DEF LockingWrite, LocksOfCascade, Transacting, Typed, TypeOK
  <1>7. ClockRead(p)'
    BY DEF LockingWrite, ClockRead, Core, RequestInvariant
  <1>8. CategoryDrafted(p)'
    <2>1. draft'[i] = Written(p, rows[i]) /\ lock'[i] = p /\ (Archives(p)' <=> Archives(p))
      BY DEF LockingWrite, Archives, Typed, TypeOK
    <2>2. Written(p, rows[i]).present /\ (Archives(p) <=> Written(p, rows[i]).archived # 0)
      BY WrittenByCascade DEF LockingWrite
    <2> QED
      BY <1>5, <2>1, <2>2 DEF CategoryDrafted
  <1>9. MatchedInCategory(p)'
    BY <1>5 DEF MatchedInCategory
  <1> QED
    BY <1>2, <1>3, <1>4, <1>6, <1>7, <1>8, <1>9, CoreOfStep DEF RequestInvariant

LEMMA SelectChildrenCore ==
    ASSUME Typed, Typed', Core, NEW p \in Requests, OthersKept(p), SelectChildren(p)
    PROVE  Core'
  <1>1. HeldKept(p)
    BY DEF SelectChildren, HeldKept, tables
  <1>2. UnlockedSettled' /\ DraftsKeepTime'
    BY DEF SelectChildren, Core, UnlockedSettled, DraftsKeepTime, tables
  <1>3. pc'[p] = "sweep" /\ matched'[p] \subseteq SubcategoriesOf(tgt[p])
    BY DEF SelectChildren, Typed, TypeOK
  <1>4. RequestInvariant(p)'
    BY <1>3
    DEF SelectChildren, Core, RequestInvariant, LocksOfCascade, ClockRead, CategoryDrafted,
        MatchedInCategory, Transacting, Cascades, Archives, SubcategoriesOf, tables
  <1> QED
    BY <1>1, <1>2, <1>4, CoreOfStep

\* A row is swept at most once, and the category is not among what is swept.
LEMMA SweptRows ==
    ASSUME Typed, Core, NEW p \in Requests, WriteChildren(p)
    PROVE  /\ matched[p] \subseteq SubcategoriesOf(tgt[p])
           /\ tgt[p] \in Items /\ tgt[p] \notin matched[p]
           /\ \A s \in matched[p] : s \in Items /\ lock[s] = Free
  <1>1. RequestInvariant(p) /\ Cascades(p) /\ pc[p] = "sweep"
    BY DEF Core, WriteChildren, RequestInvariant, CategoryDrafted, Transacting
  <1>2. matched[p] \subseteq SubcategoriesOf(tgt[p])
    BY <1>1 DEF RequestInvariant, MatchedInCategory
  <1>3. tgt[p] \in Items /\ tgt[p] \notin Subcategories
    BY <1>1, CascadeTarget DEF Items
  <1>4. ASSUME NEW s \in matched[p] PROVE s \in Items /\ lock[s] = Free
    <2>1. s \in Items /\ s # tgt[p]
      BY <1>2, <1>3 DEF SubcategoriesOf, Items
    <2> QED
      BY <1>1, <2>1 DEF WriteChildren, RowFree, RequestInvariant, LocksOfCascade
  <1> QED
    BY <1>2, <1>3, <1>4 DEF SubcategoriesOf

LEMMA CascadedArchived ==
    ASSUME Typed, Core, NEW p \in Requests, pc[p] = "sweep", NEW r \in Row
    PROVE  /\ Archives(p) => Cascaded(p, r).archived # 0
           /\ ~Archives(p) => Cascaded(p, r).archived = 0
  <1>1. now[p] \in Nat /\ now[p] > 0
    BY DEF Typed, TypeOK, Core, RequestInvariant, ClockRead
  <1> QED
    BY <1>1 DEF Cascaded, Row

LEMMA WriteChildrenCore ==
    ASSUME Typed, Typed', Core, NEW p \in Requests, OthersKept(p), WriteChildren(p)
    PROVE  Core'
  <1> DEFINE hit == {s \in matched[p] : InCascade(p, rows[s])}
  <1>1. /\ matched[p] \subseteq SubcategoriesOf(tgt[p])
        /\ tgt[p] \in Items /\ tgt[p] \notin matched[p]
        /\ \A s \in matched[p] : s \in Items /\ lock[s] = Free
    BY SweptRows
  <1>2. /\ pc[p] = "sweep" /\ pc'[p] = "end" /\ tgt'[p] = tgt[p] /\ now'[p] = now[p]
        /\ rows' = rows /\ kind' = kind
        /\ \A i \in Items : i \in hit => draft'[i] = Cascaded(p, rows[i]) /\ lock'[i] = p
        /\ \A i \in Items : i \notin hit => draft'[i] = draft[i] /\ lock'[i] = lock[i]
    BY DEF WriteChildren, Typed, TypeOK
  <1>3. HeldKept(p)
    BY <1>1, <1>2 DEF HeldKept
  <1>4. UnlockedSettled'
    BY <1>2, CatalogAssumption DEF Core, UnlockedSettled
  <1>5. DraftsKeepTime'
    <2>1. ASSUME NEW i \in Items, rows[i].archived # 0, i \in hit
          PROVE  draft'[i].archived = 0
      <3>1. ~Archives(p) /\ rows[i] \in Row
        BY <2>1 DEF InCascade, Typed, TypeOK
      <3> QED
        BY <1>2, <2>1, <3>1, CascadedArchived
    <2> QED
      BY <1>2, <2>1 DEF Core, DraftsKeepTime
  <1>6. RequestInvariant(p) /\ (Archives(p)' <=> Archives(p)) /\ (Cascades(p)' <=> Cascades(p))
    BY <1>2 DEF Core, Archives, Cascades
  <1>7. Cascades(p) /\ lock[tgt[p]] = p
    BY <1>2, <1>6 DEF RequestInvariant, CategoryDrafted, Transacting
  <1>8. LocksOfCascade(p)'
    BY <1>1, <1>2, <1>6, <1>7 DEF RequestInvariant, LocksOfCascade, Transacting
  <1>9. ClockRead(p)'
    BY <1>2, <1>6 DEF RequestInvariant, ClockRead
  <1>10. CategoryDrafted(p)'
    <2>1. draft'[tgt[p]] = draft[tgt[p]] /\ lock'[tgt[p]] = lock[tgt[p]]
      BY <1>1, <1>2
    <2> QED
      BY <1>2, <1>6, <2>1 DEF RequestInvariant, CategoryDrafted, Transacting
  <1>11. MatchedInCategory(p)'
    BY <1>2 DEF MatchedInCategory
  <1> QED
    BY <1>3, <1>4, <1>5, <1>8, <1>9, <1>10, <1>11, CoreOfStep DEF RequestInvariant

\* Commit and Discard: p lets go of its rows, and committed and uncommitted agree there.
LEMMA EndCore ==
    ASSUME Typed, Typed', Core, NEW p \in Requests, OthersKept(p), Return(p), Unlock(p),
           \A i \in Items : IF lock[i] = p THEN draft'[i] = rows'[i]
                            ELSE draft'[i] = draft[i] /\ rows'[i] = rows[i]
    PROVE  Core'
  <1>1. HeldKept(p)
    BY DEF HeldKept, Unlock
  <1>2. UnlockedSettled'
    BY DEF Unlock, Core, UnlockedSettled
  <1>3. DraftsKeepTime'
    BY DEF Core, DraftsKeepTime
  <1>4. pc'[p] = "done" /\ \A i \in Items : lock'[i] # p
    BY CatalogAssumption DEF Return, Unlock, Typed, TypeOK
  <1>5. RequestInvariant(p)'
    BY <1>4
    DEF RequestInvariant, LocksOfCascade, ClockRead, CategoryDrafted, MatchedInCategory,
        Transacting
  <1> QED
    BY <1>1, <1>2, <1>3, <1>5, CoreOfStep

LEMMA CommitCore ==
    ASSUME Typed, Typed', Core, NEW p \in Requests, OthersKept(p), Commit(p)
    PROVE  Core'
  BY EndCore DEF Commit, Visible

LEMMA DiscardCore ==
    ASSUME Typed, Typed', Core, NEW p \in Requests, OthersKept(p), Discard(p)
    PROVE  Core'
  BY EndCore DEF Discard

LEMMA StepCore ==
    ASSUME Typed, Typed', Core, NEW p \in Requests, Start(p) \/ Progress(p) \/ Abort(p)
    PROVE  Core'
  <1>1. OthersKept(p)
    BY StepKeepsOthers
  <1>2. CASE Start(p)
    BY <1>1, <1>2, StartQuiet, QuietStep
  <1>3. CASE FindParent(p)
    BY <1>1, <1>3, FindParentQuiet, QuietStep
  <1>4. CASE SelectRow(p)
    BY <1>1, <1>4, SelectRowQuiet, QuietStep
  <1>5. CASE WriteRow(p)
    BY <1>1, <1>5, WriteRowCases, QuietStep, AutocommitCore, LockingCore
  <1>6. CASE SelectChildren(p)
    BY <1>1, <1>6, SelectChildrenCore
  <1>7. CASE WriteChildren(p)
    BY <1>1, <1>7, WriteChildrenCore
  <1>8. CASE Commit(p)
    BY <1>1, <1>8, CommitCore
  <1>9. CASE Rollback(p) \/ Abort(p)
    BY <1>1, <1>9, DiscardCore DEF Rollback, Abort
  <1> QED
    BY <1>2, <1>3, <1>4, <1>5, <1>6, <1>7, <1>8, <1>9 DEF Progress

LEMMA InitCore == Init => Core
  <1> SUFFICES ASSUME Init PROVE Core
    OBVIOUS
  <1>1. \A i \in Items : lock[i] = Free /\ draft[i] = rows[i]
    BY DEF Init
  <1>2. \A p \in Requests : pc[p] = "start" /\ p # Free
    BY CatalogAssumption DEF Init
  <1>3. \A p \in Requests : RequestInvariant(p)
    BY <1>1, <1>2
    DEF RequestInvariant, LocksOfCascade, ClockRead, CategoryDrafted, MatchedInCategory,
        Transacting
  <1> QED
    BY <1>1, <1>3 DEF Init, Core, UnlockedSettled, DraftsKeepTime, Epoch

----------------------------------------------------------------------------
(***************************************************************************)
(* Archived categories hide their subcategories.                           *)
(***************************************************************************)
\* The step of p makes no subcategory active and no category inactive.
OnlyHides ==
    /\ \A s \in Subcategories : Active(rows'[s]) => Active(rows[s])
    /\ \A c \in Categories : Active(rows[c]) => Active(rows'[c])

LEMMA ParentType ==
    ASSUME NEW s \in Subcategories
    PROVE  /\ s \in Items /\ Parent[s] \in Categories /\ Parent[s] \in Items
           /\ Parent[s] \notin Subcategories
  BY CatalogAssumption DEF Items

\* What p holds when it commits or sweeps belongs to its own category.
LEMMA HeldInCategory ==
    ASSUME Typed, Core, NEW p \in Requests, NEW s \in Subcategories, lock[s] = p
    PROVE  pc[p] = "end" /\ Cascades(p) /\ Parent[s] = tgt[p] /\ lock[Parent[s]] = p
  <1>1. RequestInvariant(p)
    BY DEF Core
  <1>2. Transacting(p) /\ Cascades(p) /\ (s = tgt[p] \/ (pc[p] = "end" /\ s \in SubcategoriesOf(tgt[p])))
    BY <1>1, ParentType DEF RequestInvariant, LocksOfCascade
  <1>3. s # tgt[p]
    BY <1>2, CascadeTarget DEF Transacting
  <1> QED
    BY <1>1, <1>2, <1>3 DEF RequestInvariant, CategoryDrafted, SubcategoriesOf

\* A step that keeps what others hold and hides only leaves their cascades complete.
LEMMA OthersReached ==
    ASSUME Typed, Core, Shielded, NEW p \in Requests, OthersKept(p), HeldKept(p),
           NEW q \in Requests \ {p},
           \A s \in Subcategories : Parent[s] = tgt[q] => (Active(rows'[s]) => Active(rows[s]))
    PROVE  Reached(q)'
  <1>1. q # p /\ q # Free /\ Reached(q)
    BY CatalogAssumption DEF Shielded
  <1>2. pc'[q] = pc[q] /\ tgt'[q] = tgt[q] /\ matched'[q] = matched[q] /\ kind' = kind
    BY DEF OthersKept
  <1>3. ASSUME NEW s \in SubcategoriesOf(tgt[q]), kind[q] = "archiveCategory"
        PROVE  /\ pc[q] = "sweep" => (Active(rows'[s]) => s \in matched[q])
               /\ pc[q] = "end" => ~Active(Visible(q, s)')
    <2>1. s \in Subcategories /\ s \in Items /\ Parent[s] = tgt[q]
      BY ParentType DEF SubcategoriesOf
    <2>2. /\ pc[q] = "sweep" => (Active(rows[s]) => s \in matched[q])
          /\ pc[q] = "end" => ~Active(Visible(q, s))
      BY <1>1, <1>3 DEF Reached
    <2>3. Active(rows'[s]) => Active(rows[s])
      BY <2>1
    <2>4. CASE lock[s] = q
      BY <1>1, <2>1, <2>2, <2>3, <2>4 DEF HeldKept, Visible
    <2>5. CASE lock[s] # q
      BY <1>1, <2>1, <2>2, <2>3, <2>5 DEF HeldKept, Visible
    <2> QED
      BY <2>4, <2>5
  <1> QED
    BY <1>2, <1>3 DEF Reached, SubcategoriesOf

LEMMA HidingStep ==
    ASSUME Typed, Core, Shielded, NEW p \in Requests, OthersKept(p), HeldKept(p), OnlyHides,
           Reached(p)'
    PROVE  Shielded'
  <1>1. ArchivedHidesSubcategories'
    BY ParentType DEF Shielded, ArchivedHidesSubcategories, OnlyHides
  <1>2. \A q \in Requests : Reached(q)'
    BY OthersReached DEF OnlyHides
  <1> QED
    BY <1>1, <1>2 DEF Shielded

LEMMA SameRowsHides == ASSUME UNCHANGED rows PROVE OnlyHides
  BY DEF OnlyHides

LEMMA WrittenActive ==
    ASSUME Typed, Core, NEW p \in Requests, kind[p] \notin Revivers, AutocommitWrite(p)
    PROVE  LET i == tgt[p] IN
           /\ i \in Subcategories => (Active(Written(p, rows[i])) => Active(rows[i]))
           /\ i \in Categories => (Active(rows[i]) => Active(Written(p, rows[i])))
  <1> DEFINE i == tgt[p]
  <1>1. rows[i] \in Row /\ ~Cascades(p) /\ i \in Addressable(p)
    BY DEF AutocommitWrite, Typed, TypeOK, Targeted
  <1>2. kind[p] \in CategoryKinds \cup SubcategoryKinds
    BY DEF Typed, TypeOK
  <1>3. kind[p] \in {"createCategory", "updateCategory", "updateSubcategory", "archiveSubcategory"}
    BY <1>1, <1>2 DEF Revivers, Cascades, CategoryKinds, SubcategoryKinds
  <1>4. CASE Updates(p)
    <2>1. Active(Written(p, rows[i])) <=> Active(rows[i])
      BY <1>1, <1>4 DEF Written, Active, Row, Creates, Updates, Archives
    <2> QED
      BY <2>1
  <1>5. CASE kind[p] = "createCategory"
    <2>1. Active(Written(p, rows[i])) /\ i \in Categories /\ i \notin Subcategories
      BY <1>1, <1>5, CatalogAssumption
      DEF Written, Active, Creates, Updates, Archives, Addressable, IsCategoryRequest,
          CategoryKinds
    <2> QED
      BY <2>1
  <1>6. CASE kind[p] = "archiveSubcategory"
    <2>1. Active(rows[i]) /\ i \in Subcategories /\ i \notin Categories
      BY <1>1, <1>6, CatalogAssumption
      DEF AutocommitWrite, Selects, Archives, Addressable, IsCategoryRequest, CategoryKinds
    <2> QED
      BY <2>1
  <1> QED
    BY <1>3, <1>4, <1>5, <1>6 DEF Updates

LEMMA AutocommitShielded ==
    ASSUME Typed, Core, Shielded, NEW p \in Requests, kind[p] \notin Revivers,
           OthersKept(p), AutocommitWrite(p)
    PROVE  Shielded'
  <1>1. HeldKept(p)
    BY DEF AutocommitWrite, HeldKept, Typed, TypeOK
  <1>2. OnlyHides
    BY WrittenActive DEF AutocommitWrite, OnlyHides, Typed, TypeOK, Items
  <1>3. Reached(p)'
    BY DEF AutocommitWrite, Return, Reached, Typed, TypeOK
  <1> QED
    BY <1>1, <1>2, <1>3, HidingStep

LEMMA LockingShielded ==
    ASSUME Typed, Core, Shielded, NEW p \in Requests, OthersKept(p), LockingWrite(p)
    PROVE  Shielded'
  <1>1. HeldKept(p)
    BY DEF LockingWrite, HeldKept, Typed, TypeOK
  <1>2. Reached(p)'
    BY DEF LockingWrite, Reached, Typed, TypeOK
  <1> QED
    BY <1>1, <1>2, HidingStep, SameRowsHides DEF LockingWrite

\* The cascade of an archive request selects every active subcategory there is.
LEMMA SelectChildrenShielded ==
    ASSUME Typed, Core, Shielded, NEW p \in Requests, OthersKept(p), SelectChildren(p)
    PROVE  Shielded'
  <1>1. HeldKept(p)
    BY DEF SelectChildren, HeldKept, tables
  <1>2. Reached(p)'
    <2>1. ASSUME NEW s \in SubcategoriesOf(tgt[p]), kind[p] = "archiveCategory", Active(rows[s])
          PROVE  s \in matched'[p]
      <3>1. s \in Subcategories /\ lock[s] # p
        BY HeldInCategory DEF SelectChildren, SubcategoriesOf
      <3> QED
        BY <2>1, <3>1
        DEF SelectChildren, InCascade, Archives, Visible, Active, Typed, TypeOK
    <2> QED
      BY <2>1
      DEF SelectChildren, Reached, SubcategoriesOf, tables, Typed, TypeOK
  <1> QED
    BY <1>1, <1>2, HidingStep, SameRowsHides DEF SelectChildren, tables

\* Afterwards none of them is active any more.
LEMMA WriteChildrenShielded ==
    ASSUME Typed, Core, Shielded, NEW p \in Requests, OthersKept(p), WriteChildren(p)
    PROVE  Shielded'
  <1> DEFINE hit == {s \in matched[p] : InCascade(p, rows[s])}
  <1>1. /\ pc[p] = "sweep" /\ pc'[p] = "end" /\ tgt'[p] = tgt[p] /\ rows' = rows /\ kind' = kind
        /\ \A i \in Items : i \in hit => draft'[i] = Cascaded(p, rows[i]) /\ lock'[i] = p
        /\ \A i \in Items : i \notin hit => draft'[i] = draft[i] /\ lock'[i] = lock[i]
    BY DEF WriteChildren, Typed, TypeOK
  <1>2. HeldKept(p)
    BY <1>1, SweptRows DEF HeldKept
  <1>3. ASSUME NEW s \in SubcategoriesOf(tgt[p]), kind[p] = "archiveCategory"
        PROVE  ~Active(Visible(p, s)')
    <2>1. s \in Subcategories /\ s \in Items /\ Archives(p) /\ rows[s] \in Row
      BY <1>3, ParentType DEF SubcategoriesOf, Archives, Typed, TypeOK
    <2>2. CASE s \in hit
      <3>1. Visible(p, s)' = Cascaded(p, rows[s])
        BY <1>1, <2>1, <2>2 DEF Visible
      <3> QED
        BY <1>1, <2>1, <3>1, CascadedArchived DEF Active
    <2>3. CASE s \notin hit
      <3>1. lock[s] # p
        BY <1>1, <2>1, HeldInCategory
      <3>2. Visible(p, s)' = rows[s]
        BY <1>1, <2>1, <2>3, <3>1 DEF Visible
      <3>3. Active(rows[s]) => s \in matched[p]
        BY <1>1, <1>3 DEF Shielded, Reached
      <3> QED
        BY <2>1, <2>3, <3>2, <3>3 DEF InCascade, Active
    <2> QED
      BY <2>2, <2>3
  <1>4. Reached(p)'
    BY <1>1, <1>3 DEF Reached, SubcategoriesOf
  <1> QED
    BY <1>1, <1>2, <1>4, HidingStep, SameRowsHides

LEMMA CommitHeld ==
    ASSUME Typed, NEW p \in Requests, Commit(p)
    PROVE  HeldKept(p)
  BY DEF Commit, HeldKept, Visible, Unlock

\* The commit of an archive shows no subcategory under its category; that of a restore
\* shows the category itself.
LEMMA CommitShielded ==
    ASSUME Typed, Core, Shielded, NEW p \in Requests, OthersKept(p), Commit(p)
    PROVE  Shielded'
  <1>1. HeldKept(p) /\ pc[p] = "end" /\ Transacting(p)
    BY CommitHeld DEF Commit, Transacting
  <1>2. Cascades(p) /\ lock[tgt[p]] = p /\ (Archives(p) <=> draft[tgt[p]].archived # 0)
        /\ draft[tgt[p]].present
    BY <1>1 DEF Core, RequestInvariant, CategoryDrafted
  <1>3. tgt[p] \in Categories
    BY <1>1, <1>2, CascadeTarget
  <1>4. ASSUME NEW s \in Subcategories, Parent[s] # tgt[p]
        PROVE  rows'[s] = rows[s] /\ rows'[Parent[s]] = rows[Parent[s]]
    <2>1. lock[s] # p
      BY <1>4, HeldInCategory
    <2>2. lock[Parent[s]] # p
      BY <1>4, ParentType DEF Core, RequestInvariant, LocksOfCascade, SubcategoriesOf
    <2> QED
      BY <2>1, <2>2, ParentType DEF Commit, Visible
  <1>5. ASSUME NEW s \in Subcategories, Parent[s] = tgt[p], Active(rows'[s])
        PROVE  Active(rows'[Parent[s]])
    <2>1. rows'[s] = Visible(p, s) /\ rows'[tgt[p]] = draft[tgt[p]]
      BY <1>2, <1>3, ParentType DEF Commit, Visible, Items
    <2>2. kind[p] # "archiveCategory"
      BY <1>1, <1>5, <2>1 DEF Commit, Shielded, Reached, SubcategoriesOf
    <2>3. ~Archives(p)
      BY <1>2, <2>2 DEF Cascades, Archives
    <2> QED
      BY <1>2, <1>5, <2>1, <2>3 DEF Active
  <1>6. ArchivedHidesSubcategories'
    BY <1>4, <1>5 DEF ArchivedHidesSubcategories, Shielded
  <1>7. ASSUME NEW q \in Requests PROVE Reached(q)'
    <2>1. CASE q = p
      BY <2>1 DEF Commit, Return, Reached, Typed, TypeOK
    <2>2. CASE q # p /\ ~Transacting(q)
      BY <2>2 DEF OthersKept, Reached, Transacting
    <2>3. CASE q # p /\ Transacting(q)
      <3>1. tgt[q] # tgt[p]
        BY <1>2, <2>3 DEF Core, RequestInvariant, CategoryDrafted
      <3>2. \A s \in Subcategories : Parent[s] = tgt[q] => (Active(rows'[s]) => Active(rows[s]))
        BY <1>4, <3>1
      <3> QED
        BY <1>1, <2>3, <3>2, OthersReached
    <2> QED
      BY <2>1, <2>2, <2>3
  <1> QED
    BY <1>6, <1>7 DEF Shielded

LEMMA DiscardShielded ==
    ASSUME Typed, Core, Shielded, NEW p \in Requests, OthersKept(p), Discard(p)
    PROVE  Shielded'
  <1>1. HeldKept(p)
    BY DEF Discard, HeldKept, Unlock
  <1>2. Reached(p)'
    BY DEF Discard, Return, Reached, Typed, TypeOK
  <1> QED
    BY <1>1, <1>2, HidingStep, SameRowsHides DEF Discard

LEMMA StepShielded ==
    ASSUME Typed, Typed', Core, Shielded, NEW p \in Requests,
           kind[p] \notin Revivers \/ pc[p] # "apply",
           Start(p) \/ Progress(p) \/ Abort(p)
    PROVE  Shielded'
  <1>1. OthersKept(p)
    BY StepKeepsOthers
  <1>2. CASE Start(p)
    BY <1>1, <1>2, StartQuiet, QuietStep
  <1>3. CASE FindParent(p)
    BY <1>1, <1>3, FindParentQuiet, QuietStep
  <1>4. CASE SelectRow(p)
    BY <1>1, <1>4, SelectRowQuiet, QuietStep
  <1>5. CASE WriteRow(p)
    <2>1. kind[p] \notin Revivers
      BY <1>5 DEF WriteRow
    <2> QED
      BY <1>1, <1>5, <2>1, WriteRowCases, QuietStep, AutocommitShielded, LockingShielded
  <1>6. CASE SelectChildren(p)
    BY <1>1, <1>6, SelectChildrenShielded
  <1>7. CASE WriteChildren(p)
    BY <1>1, <1>7, WriteChildrenShielded
  <1>8. CASE Commit(p)
    BY <1>1, <1>8, CommitShielded
  <1>9. CASE Rollback(p) \/ Abort(p)
    BY <1>1, <1>9, DiscardShielded DEF Rollback, Abort
  <1> QED
    BY <1>2, <1>3, <1>4, <1>5, <1>6, <1>7, <1>8, <1>9 DEF Progress

LEMMA InitShielded == Init => Shielded
  <1> SUFFICES ASSUME Init PROVE Shielded
    OBVIOUS
  <1>1. ArchivedHidesSubcategories
    BY CatalogAssumption DEF Init, ArchivedHidesSubcategories
  <1>2. \A p \in Requests : pc[p] = "start"
    BY DEF Init
  <1> QED
    BY <1>1, <1>2 DEF Shielded, Reached

----------------------------------------------------------------------------
LEMMA InvariantSplit == CatalogInvariant <=> Core /\ (NobodyRevives => Shielded)
  BY DEF CatalogInvariant, Core

LEMMA InvariantInit == Init => Typed /\ CatalogInvariant
  BY InitTyped, InitCore, InitShielded, InvariantSplit

LEMMA InvariantStep == Typed /\ CatalogInvariant /\ [Next]_vars => (Typed /\ CatalogInvariant)'
  <1> SUFFICES ASSUME Typed, CatalogInvariant, [Next]_vars PROVE (Typed /\ CatalogInvariant)'
    OBVIOUS
  <1>1. Typed'
    BY StepTyped
  <1>2. CASE UNCHANGED vars
    <2>1. CatalogInvariant'
      BY <1>2
      DEF vars, CatalogInvariant, UnlockedSettled, DraftsKeepTime, RequestInvariant,
          LocksOfCascade, ClockRead, CategoryDrafted, MatchedInCategory, Transacting,
          Cascades, Archives, NobodyRevives, Shielded, Reached, ArchivedHidesSubcategories, Active, Visible
    <2> QED
      BY <1>1, <2>1
  <1>3. ASSUME NEW p \in Requests, Start(p) \/ Progress(p) \/ Abort(p)
        PROVE  CatalogInvariant'
    <2>1. Core'
      BY <1>1, <1>3, StepCore, InvariantSplit
    <2>2. NobodyRevives' => NobodyRevives
      BY <1>3, StepBegins, StepKeepsOthers DEF NobodyRevives, OthersKept
    <2>3. NobodyRevives => kind[p] \notin Revivers \/ pc[p] # "apply"
      BY DEF NobodyRevives
    <2>4. NobodyRevives' => Shielded'
      BY <1>1, <1>3, <2>2, <2>3, StepShielded, InvariantSplit
    <2> QED
      BY <2>1, <2>4 DEF CatalogInvariant, Core
  <1> QED
    BY <1>1, <1>2, <1>3 DEF Next

\* The invariant holds in every reachable state.
THEOREM CatalogInductive == Spec => []Inv
  <1>1. Spec => [](Typed /\ CatalogInvariant)
    BY InvariantInit, InvariantStep, PTL DEF Spec
  <1>2. Typed /\ CatalogInvariant => Inv
    BY DEF Inv
  <1> QED
    BY <1>1, <1>2, PTL

\* As long as the endpoints called do not make a single subcategory active, an archived
\* category never shows one, however many archive, restore and edit requests interleave
\* and whichever of them fail halfway.
THEOREM CascadeComplete ==
    ASSUME Kinds \cap Revivers = {}
    PROVE  Spec => []ArchivedHidesSubcategories
  <1>1. Inv => ArchivedHidesSubcategories
    BY DEF Inv, CatalogInvariant, NobodyRevives, Shielded
  <1> QED
    BY <1>1, CatalogInductive, PTL

\* An archived row keeps its time until it is restored, whatever the requests are: the
\* clause archived_at IS NULL is evaluated again on the newest version of the row.
THEOREM ArchiveTimeKept == Spec => ArchivedOnce
  <1> DEFINE Kept == \A i \in Items :
                        rows[i].archived # 0 => rows'[i].archived \in {rows[i].archived, 0}
  <1>1. ASSUME Typed, Core, NEW p \in Requests, Start(p) \/ Progress(p) \/ Abort(p)
        PROVE  Kept
    <2>1. CASE Quiet(p)
      BY <2>1 DEF Quiet, tables
    <2>2. CASE WriteRow(p)
      BY <1>1, <2>1, <2>2, WriteRowCases, WrittenArchived
      DEF AutocommitWrite, LockingWrite, Typed, TypeOK
    <2>3. CASE Commit(p)
      BY <1>1, <2>3 DEF Commit, Visible, Core, DraftsKeepTime
    <2>4. CASE SelectChildren(p) \/ WriteChildren(p) \/ Rollback(p) \/ Abort(p)
      BY <2>4 DEF SelectChildren, WriteChildren, Rollback, Abort, Discard, tables
    <2> QED
      BY <1>1, <2>1, <2>2, <2>3, <2>4, StartQuiet, FindParentQuiet, SelectRowQuiet DEF Progress
  <1>2. Typed /\ CatalogInvariant /\ [Next]_vars => [Kept]_vars
    BY <1>1, InvariantSplit DEF Next
  <1>3. Spec => [][Kept]_vars
    BY <1>2, InvariantInit, InvariantStep, PTL DEF Spec
  <1> QED
    BY <1>3 DEF ArchivedOnce

----------------------------------------------------------------------------
(***************************************************************************)
(* EditsInvariant is inductive as long as the clock advances.              *)
(***************************************************************************)
LEMMA TargetItem ==
    ASSUME Typed, NEW p \in Requests, pc[p] \notin {"start", "done"}
    PROVE  tgt[p] \in Items
  BY AddressableType DEF Typed, Targeted

\* A step of p that takes no reading, takes no copy and commits nothing.
LEMMA MovingEdits ==
    ASSUME Typed, Typed', EditsInvariant, NEW p \in Requests, OthersKept(p),
           UNCHANGED <<rows, clock, tgt, seen, edits, now>>,
           Dated(p)' => Dated(p), Writing(p)' => Writing(p), EditsPending(p)',
           pc'[p] # "parent", DraftsKeepFields'
    PROVE  EditsInvariant'
  <1>1. \A q \in Requests : (Dated(q)' => Dated(q)) /\ (Writing(q)' => Writing(q)) /\ kind' = kind
    BY DEF OthersKept, Dated, Writing
  <1>2. NothingFromTheFuture'
    BY DEF EditsInvariant, NothingFromTheFuture
  <1>3. ASSUME NEW q \in Requests PROVE EditsOf(q)'
    <2>1. FreshReading(q)'
      BY <1>1 DEF EditsInvariant, EditsOf, FreshReading
    <2>2. CopyIdentified(q)'
      BY <1>1 DEF EditsInvariant, EditsOf, CopyIdentified, Updates
    <2>3. IdIsNew(q)'
      BY <1>1 DEF EditsInvariant, EditsOf, IdIsNew, Creates
    <2>4. EditsPending(q)'
      BY DEF EditsInvariant, EditsOf, EditsPending, OthersKept, Writing, Creates, Updates
    <2>5. OnlyRestoreReadsParent(q)'
      BY DEF EditsInvariant, EditsOf, OnlyRestoreReadsParent, OthersKept
    <2> QED
      BY <2>1, <2>2, <2>3, <2>4, <2>5 DEF EditsOf
  <1> QED
    BY <1>2, <1>3 DEF EditsInvariant, EditsOf

\* A step with which p returns. Rows it leaves with another content have its reading for
\* a version, and an id becomes a row only if p was to create it.
LEMMA ReturningEdits ==
    ASSUME Typed, Typed', Core, EditsInvariant, NEW p \in Requests, OthersKept(p), Return(p),
           \A i \in Items : \/ /\ rows'[i].ver = rows[i].ver
                               /\ rows'[i].field = rows[i].field
                            \/ /\ rows'[i].ver = now[p]
                               /\ Dated(p),
           \A i \in Items, f \in Fields : rows'[i].field[f] <= clock,
           \A i \in Items : rows'[i].present =>
                              rows[i].present \/ (Writing(p) /\ Creates(p) /\ i = tgt[p]),
           DraftsKeepFields'
    PROVE  EditsInvariant'
  <1>1. /\ pc'[p] = "done" /\ seen'[p] = NoRow /\ edits'[p] = {} /\ now'[p] = 0
        /\ clock' = clock /\ kind' = kind
    BY DEF Return, Typed, TypeOK
  <1>2. /\ ~Dated(p)' /\ ~Writing(p)' /\ NoRow.ver = 0
        /\ \A q \in Requests : Dated(q) => now[q] > 0
    BY <1>1 DEF Dated, Writing, NoRow, Core, RequestInvariant, ClockRead
  <1>3. \A q \in Requests \ {p} :
          /\ Dated(q)' = Dated(q) /\ Writing(q)' = Writing(q) /\ tgt'[q] = tgt[q]
          /\ now'[q] = now[q] /\ seen'[q] = seen[q] /\ edits'[q] = edits[q]
    BY DEF OthersKept, Dated, Writing
  <1>4. NothingFromTheFuture'
    <2>1. \A i \in Items : rows'[i].ver <= clock
      BY DEF EditsInvariant, NothingFromTheFuture
    <2>2. ASSUME NEW q \in Requests PROVE seen'[q].ver <= clock /\ now'[q] <= clock
      <3>1. 0 <= clock
        BY DEF Typed, TypeOK
      <3> QED
        BY <1>1, <1>2, <1>3, <3>1 DEF EditsInvariant, NothingFromTheFuture
    <2> QED
      BY <1>1, <2>1, <2>2 DEF NothingFromTheFuture
  <1>5. ASSUME NEW q \in Requests \ {p} PROVE EditsOf(q)'
    <2>1. FreshReading(q)'
      BY <1>1, <1>2, <1>3 DEF EditsInvariant, EditsOf, FreshReading
    <2>2. CopyIdentified(q)'
      <3>1. Writing(q) => tgt[q] \in Items /\ Dated(q)
        BY TargetItem DEF Writing, Dated
      <3> QED
        BY <1>1, <1>3, <3>1 DEF EditsInvariant, EditsOf, FreshReading, CopyIdentified, Updates
    <2>3. IdIsNew(q)'
      <3>1. Writing(q) => tgt[q] \in Items
        BY TargetItem DEF Writing
      <3> QED
        BY <1>1, <1>2, <1>3, <3>1 DEF EditsInvariant, EditsOf, IdIsNew, Creates
    <2>4. EditsPending(q)'
      BY <1>1, <1>3 DEF EditsInvariant, EditsOf, EditsPending, Creates, Updates
    <2>5. OnlyRestoreReadsParent(q)'
      BY DEF EditsInvariant, EditsOf, OnlyRestoreReadsParent, OthersKept
    <2> QED
      BY <2>1, <2>2, <2>3, <2>4, <2>5 DEF EditsOf
  <1>6. EditsOf(p)'
    BY <1>1, <1>2
    DEF EditsOf, FreshReading, CopyIdentified, IdIsNew, EditsPending, OnlyRestoreReadsParent
  <1> QED
    BY <1>4, <1>5, <1>6 DEF EditsInvariant, EditsOf

\* A step with which p reads a row or the clock.
LEMMA ReadingEdits ==
    ASSUME Typed, Typed', Core, EditsInvariant, NEW p \in Requests, OthersKept(p),
           UNCHANGED tables, ~Transacting(p), ~Dated(p), ~Dated(p)' \/ clock' > clock,
           now'[p] = clock' \/ (now'[p] = now[p] /\ ~Dated(p)'),
           seen'[p] = seen[p] \/ \E i \in Items : seen'[p] = rows[i],
           CopyIdentified(p)', IdIsNew(p)', EditsPending(p)', OnlyRestoreReadsParent(p)'
    PROVE  EditsInvariant'
  <1>1. \A q \in Requests \ {p} :
          /\ Dated(q)' = Dated(q) /\ Writing(q)' = Writing(q) /\ tgt'[q] = tgt[q]
          /\ now'[q] = now[q] /\ seen'[q] = seen[q] /\ edits'[q] = edits[q]
    BY DEF OthersKept, Dated, Writing
  <1>2. kind' = kind /\ clock \in Nat /\ clock' \in Nat /\ clock' >= clock /\ rows' = rows
    BY DEF OthersKept, Typed, TypeOK, tables
  <1>3. /\ \A i \in Items : rows[i].ver \in Nat /\ \A f \in Fields : rows[i].field[f] \in Nat
        /\ \A q \in Requests : seen[q].ver \in Nat /\ now[q] \in Nat
    BY DEF Typed, TypeOK, Row
  <1>4. seen'[p].ver <= clock
    BY DEF EditsInvariant, NothingFromTheFuture
  <1>5. NothingFromTheFuture'
    BY <1>1, <1>2, <1>3, <1>4 DEF EditsInvariant, NothingFromTheFuture
  <1>6. DraftsKeepFields'
    <2>1. \A i \in Items : lock[i] # p
      BY IdleHoldsNothing
    <2> QED
      BY <1>1, <2>1 DEF EditsInvariant, DraftsKeepFields, tables, Typed, TypeOK
  <1>7. FreshReading(p)'
    BY <1>1, <1>2, <1>3, <1>4 DEF FreshReading, EditsInvariant, NothingFromTheFuture
  <1>8. ASSUME NEW q \in Requests \ {p} PROVE EditsOf(q)'
    <2>1. FreshReading(q)'
      BY <1>1, <1>2, <1>3 DEF EditsInvariant, EditsOf, FreshReading, NothingFromTheFuture
    <2>2. CopyIdentified(q)'
      BY <1>1, <1>2 DEF EditsInvariant, EditsOf, CopyIdentified, Updates
    <2>3. IdIsNew(q)'
      BY <1>1, <1>2 DEF EditsInvariant, EditsOf, IdIsNew, Creates
    <2>4. EditsPending(q)'
      BY <1>1, <1>2 DEF EditsInvariant, EditsOf, EditsPending, Creates, Updates
    <2>5. OnlyRestoreReadsParent(q)'
      BY DEF EditsInvariant, EditsOf, OnlyRestoreReadsParent, OthersKept
    <2> QED
      BY <2>1, <2>2, <2>3, <2>4, <2>5 DEF EditsOf
  <1> QED
    BY <1>5, <1>6, <1>7, <1>8 DEF EditsInvariant, EditsOf

LEMMA FieldsPast ==
    ASSUME Typed, EditsInvariant
    PROVE  \A i \in Items, f \in Fields : rows[i].field[f] <= clock
  BY DEF EditsInvariant, NothingFromTheFuture

LEMMA ReturnUnchangedEdits ==
    ASSUME Typed, Typed', Core, EditsInvariant, NEW p \in Requests, OthersKept(p),
           ~Transacting(p), ReturnUnchanged(p)
    PROVE  EditsInvariant'
  <1>1. \A i \in Items : lock[i] # p
    BY IdleHoldsNothing
  <1>2. DraftsKeepFields'
    BY <1>1
    DEF EditsInvariant, DraftsKeepFields, ReturnUnchanged, tables, OthersKept, Typed, TypeOK
  <1> QED
    BY <1>2, FieldsPast, ReturningEdits DEF ReturnUnchanged, tables

\* p begins with a reading of the clock.
LEMMA BeginningEdits ==
    ASSUME Typed, Typed', Core, EditsInvariant, NEW p \in Requests, OthersKept(p),
           0 \notin ClockSteps, pc[p] = "start", NEW i \in Items, NEW fields,
           Begin(p, i, fields, "write"), ReadClock(p),
           fields # {} => Creates(p) \/ Updates(p),
           Creates(p) => ~rows[i].present /\ \A q \in Requests : tgt[q] # i
    PROVE  EditsInvariant'
  <1>1. clock' > clock /\ now'[p] = clock'
    BY CatalogAssumption DEF ReadClock, Typed, TypeOK
  <1>2. /\ pc'[p] = "write" /\ tgt'[p] = i /\ seen'[p] = rows[i] /\ edits'[p] = fields
        /\ UNCHANGED tables /\ kind' = kind /\ rows' = rows
    BY DEF Begin, tables, Typed, TypeOK
  <1>3. ~Transacting(p) /\ ~Dated(p) /\ Writing(p)' /\ clock \in Nat /\ clock' \in Nat
    BY <1>2 DEF Transacting, Dated, Writing, Typed, TypeOK
  <1>4. CopyIdentified(p)'
    <2>1. \A f \in Fields : rows[i].field[f] \in Nat
      BY DEF Typed, TypeOK, Row
    <2> QED
      BY <1>1, <1>2, <1>3, <2>1, FieldsPast DEF CopyIdentified
  <1>5. IdIsNew(p)'
    BY <1>2 DEF IdIsNew, Creates, OthersKept
  <1>6. EditsPending(p)'
    BY <1>2, <1>3 DEF EditsPending, Creates, Updates
  <1>7. OnlyRestoreReadsParent(p)'
    BY <1>2 DEF OnlyRestoreReadsParent
  <1> QED
    BY <1>1, <1>2, <1>3, <1>4, <1>5, <1>6, <1>7, ReadingEdits

LEMMA StartEdits ==
    ASSUME Typed, Typed', Core, EditsInvariant, NEW p \in Requests, OthersKept(p),
           0 \notin ClockSteps, Start(p)
    PROVE  EditsInvariant'
  <1>0. ~Transacting(p) /\ pc[p] = "start"
    BY DEF Start, FindForCreate, FindForUpdate, FindForArchive, FindForRestoreCategory,
           FindForRestoreSubcategory, Transacting
  <1>1. CASE FindForCreate(p)
    BY <1>0, <1>1, BeginningEdits, ReturnUnchangedEdits, AddressableType DEF FindForCreate
  <1>2. CASE FindForUpdate(p)
    <2>1. Updates(p) /\ ~Creates(p)
      BY <1>2 DEF FindForUpdate, Updates, Creates
    <2> QED
      BY <1>0, <1>2, <2>1, BeginningEdits, ReturnUnchangedEdits, AddressableType
      DEF FindForUpdate
  <1>3. CASE FindForArchive(p)
    <2>1. ~Creates(p)
      BY <1>3 DEF FindForArchive, Archives, Creates
    <2> QED
      BY <1>0, <1>3, <2>1, BeginningEdits, ReturnUnchangedEdits, AddressableType
      DEF FindForArchive
  <1>4. CASE FindForRestoreCategory(p)
    <2>1. ~Creates(p) /\ Categories \subseteq Items
      BY <1>4 DEF FindForRestoreCategory, Creates, Items
    <2> QED
      BY <1>0, <1>4, <2>1, BeginningEdits, ReturnUnchangedEdits DEF FindForRestoreCategory
  <1>5. CASE FindForRestoreSubcategory(p)
    <2>1. ASSUME NEW s \in Subcategories, Begin(p, s, {}, "parent"), UNCHANGED <<clock, now>>
          PROVE  EditsInvariant'
      <3>1. /\ pc'[p] = "parent" /\ seen'[p] = rows[s] /\ edits'[p] = {} /\ now'[p] = now[p]
            /\ UNCHANGED tables /\ s \in Items
        BY <2>1 DEF Begin, tables, Typed, TypeOK, Items
      <3>2. ~Dated(p) /\ ~Dated(p)' /\ ~Writing(p)'
        BY <1>0, <3>1 DEF Dated, Writing
      <3>3. CopyIdentified(p)' /\ IdIsNew(p)' /\ EditsPending(p)' /\ OnlyRestoreReadsParent(p)'
        BY <1>5, <2>1, <3>1, <3>2
        DEF CopyIdentified, IdIsNew, EditsPending, OnlyRestoreReadsParent, Begin,
            FindForRestoreSubcategory
      <3> QED
        BY <1>0, <3>1, <3>2, <3>3, ReadingEdits
    <2> QED
      BY <1>0, <1>5, <2>1, ReturnUnchangedEdits DEF FindForRestoreSubcategory
  <1> QED
    BY <1>1, <1>2, <1>3, <1>4, <1>5 DEF Start

LEMMA FindParentEdits ==
    ASSUME Typed, Typed', Core, EditsInvariant, NEW p \in Requests, OthersKept(p),
           0 \notin ClockSteps, FindParent(p)
    PROVE  EditsInvariant'
  <1>0. pc[p] = "parent" /\ ~Transacting(p) /\ ~Dated(p) /\ ~Creates(p) /\ ~Updates(p)
    BY DEF FindParent, Transacting, Dated, Creates, Updates, EditsInvariant, EditsOf,
           OnlyRestoreReadsParent
  <1>1. CASE ReturnUnchanged(p)
    BY <1>0, <1>1, ReturnUnchangedEdits
  <1>2. CASE /\ ReadClock(p)
             /\ pc' = [pc EXCEPT ![p] = "write"]
             /\ UNCHANGED <<tables, kind, tgt, seen, edits, matched>>
    <2>1. clock' > clock /\ now'[p] = clock'
      BY <1>2, CatalogAssumption DEF ReadClock, Typed, TypeOK
    <2>2. CopyIdentified(p)' /\ IdIsNew(p)' /\ EditsPending(p)'
      BY <1>0, <1>2
      DEF CopyIdentified, IdIsNew, EditsPending, EditsInvariant, EditsOf, Writing, Creates,
          Updates
    <2>3. OnlyRestoreReadsParent(p)'
      BY <1>2 DEF OnlyRestoreReadsParent, Typed, TypeOK
    <2> QED
      BY <1>0, <1>2, <2>1, <2>2, <2>3, ReadingEdits
  <1> QED
    BY <1>1, <1>2 DEF FindParent

\* What archiving and restoring leave of a row.
LEMMA WrittenKeeps ==
    ASSUME Typed, NEW p \in Requests, NEW i \in Items, ~Creates(p), ~Updates(p)
    PROVE  LET new == Written(p, rows[i]) IN
           new.present = rows[i].present /\ new.field = rows[i].field /\ new.ver = now[p]
  <1>1. rows[i] \in Row
    BY DEF Typed, TypeOK
  <1> QED
    BY <1>1 DEF Written, Row

\* The write of a request without a cascade makes no field older than it was, if there
\* was a row.
LEMMA WrittenFields ==
    ASSUME Typed, Core, EditsInvariant, NEW p \in Requests, AutocommitWrite(p)
    PROVE  LET i == tgt[p]
               new == Written(p, rows[i])
           IN
           /\ new.ver = now[p] /\ new.present
           /\ rows[i].present \/ Creates(p)
           /\ \A f \in Fields :
                 /\ new.field[f] <= clock
                 /\ rows[i].present => rows[i].field[f] <= new.field[f]
                 /\ f \in edits[p] => new.field[f] = now[p]
  <1> DEFINE i == tgt[p]
             new == Written(p, rows[i])
  <1>1. /\ i \in Items /\ rows[i] \in Row /\ Writing(p) /\ EditsOf(p)
        /\ now[p] \in Nat /\ clock \in Nat /\ now[p] <= clock /\ edits[p] \in SUBSET Fields
    BY DEF AutocommitWrite, Writing, EditsInvariant, NothingFromTheFuture, Typed, TypeOK
  <1>2. \A f \in Fields : rows[i].field[f] \in Nat /\ rows[i].field[f] <= clock
    BY <1>1, FieldsPast DEF Row
  <1>3. CASE Creates(p)
    <2>1. new.ver = now[p] /\ new.present /\ \A f \in Fields : new.field[f] = now[p]
      BY <1>3 DEF Written, Creates, Updates, Archives
    <2>2. ~rows[i].present
      BY <1>1, <1>3 DEF EditsOf, IdIsNew
    <2> QED
      BY <1>1, <1>3, <2>1, <2>2
  <1>4. CASE Updates(p)
    <2>1. ~Creates(p) /\ ~Archives(p)
      BY <1>4 DEF Updates, Creates, Archives
    <2>2. rows[i].present /\ rows[i].ver = seen[p].ver
      BY <1>1, <1>4, <2>1 DEF AutocommitWrite, Selects
    <2>3. rows[i].field = seen[p].field /\ \A f \in Fields : seen[p].field[f] <= now[p]
      BY <1>1, <1>4, <2>2 DEF EditsOf, CopyIdentified
    <2>4. new = [rows[i] EXCEPT !.ver = now[p], !.field = Merged(p)]
      BY <1>4, <2>1 DEF Written
    <2>5. new.ver = now[p] /\ new.present = rows[i].present /\ new.field = Merged(p)
      BY <1>1, <2>4 DEF Row
    <2>6. \A f \in Fields :
            Merged(p)[f] = IF f \in edits[p] THEN now[p] ELSE rows[i].field[f]
      BY <2>3 DEF Merged
    <2> QED
      BY <1>1, <1>2, <2>2, <2>3, <2>5, <2>6
  <1>5. CASE ~Creates(p) /\ ~Updates(p)
    <2>1. edits[p] = {}
      BY <1>1, <1>5 DEF EditsOf, EditsPending
    <2>2. rows[i].present
      BY <1>5 DEF AutocommitWrite, Selects
    <2> QED
      BY <1>1, <1>2, <1>5, <2>1, <2>2, WrittenKeeps
  <1> QED
    BY <1>3, <1>4, <1>5

LEMMA AutocommitEdits ==
    ASSUME Typed, Typed', Core, EditsInvariant, NEW p \in Requests, OthersKept(p),
           AutocommitWrite(p)
    PROVE  EditsInvariant'
  <1> DEFINE i == tgt[p]
             new == Written(p, rows[i])
  <1>1. /\ i \in Items /\ Writing(p) /\ Dated(p) /\ Return(p) /\ lock' = lock /\ lock[i] = Free
        /\ rows'[i] = new /\ draft'[i] = new
        /\ \A j \in Items \ {i} : rows'[j] = rows[j] /\ draft'[j] = draft[j]
    BY DEF AutocommitWrite, Writing, Dated, Typed, TypeOK
  <1>2. /\ new.ver = now[p] /\ new.present /\ (rows[i].present \/ Creates(p))
        /\ \A f \in Fields : new.field[f] <= clock
    BY WrittenFields
  <1>3. DraftsKeepFields'
    <2>1. \A j \in Items : lock[j] # p
      BY IdleHoldsNothing DEF AutocommitWrite, Transacting
    <2> QED
      BY <1>1, <2>1 DEF EditsInvariant, DraftsKeepFields, OthersKept, Typed, TypeOK
  <1>4. \A j \in Items : \/ rows'[j].ver = rows[j].ver /\ rows'[j].field = rows[j].field
                         \/ Dated(p) /\ rows'[j].ver = now[p]
    BY <1>1, <1>2
  <1>5. \A j \in Items, f \in Fields : rows'[j].field[f] <= clock
    BY <1>1, <1>2, FieldsPast
  <1>6. \A j \in Items : rows'[j].present =>
                         rows[j].present \/ (Writing(p) /\ Creates(p) /\ j = tgt[p])
    BY <1>1, <1>2
  <1> QED
    BY <1>1, <1>3, <1>4, <1>5, <1>6, ReturningEdits

LEMMA LockingEdits ==
    ASSUME Typed, Typed', Core, EditsInvariant, NEW p \in Requests, OthersKept(p),
           LockingWrite(p)
    PROVE  EditsInvariant'
  <1> DEFINE i == tgt[p]
  <1>1. /\ i \in Items /\ rows' = rows /\ draft'[i] = Written(p, rows[i]) /\ lock'[i] = p
        /\ \A j \in Items \ {i} : draft'[j] = draft[j] /\ lock'[j] = lock[j]
        /\ pc[p] = "apply" /\ pc'[p] = "cascade" /\ now' = now /\ edits' = edits /\ kind' = kind
        /\ ~Creates(p) /\ ~Updates(p)
    BY DEF LockingWrite, Cascades, Creates, Updates, Typed, TypeOK
  <1>2. DraftsKeepFields'
    <2>1. \A j \in Items : j # i => draft[j].present = rows[j].present
                                   /\ draft[j].field = rows[j].field
                                   /\ (lock[j] # Free => draft[j].ver = now[lock[j]])
      BY DEF EditsInvariant, DraftsKeepFields
    <2> QED
      BY <1>1, <2>1, WrittenKeeps DEF DraftsKeepFields
  <1>3. EditsPending(p)'
    BY <1>1 DEF EditsInvariant, EditsOf, EditsPending, Creates, Updates
  <1>4. (Dated(p)' => Dated(p)) /\ (Writing(p)' => Writing(p))
    BY <1>1 DEF Dated, Writing
  <1> QED
    BY <1>1, <1>2, <1>3, <1>4, MovingEdits DEF LockingWrite

\* A cascading request is past its one edit, if it ever had one.
LEMMA CascadesEditNothing ==
    ASSUME EditsInvariant, NEW p \in Requests, ~Writing(p)
    PROVE  edits[p] = {}
  BY DEF EditsInvariant, EditsOf, EditsPending

LEMMA SelectRowEdits ==
    ASSUME Typed, Typed', Core, EditsInvariant, NEW p \in Requests, OthersKept(p),
           pc[p] \in {"write", "apply"}, NoRowAffected(p) \/ SelectRow(p)
    PROVE  EditsInvariant'
  <1>1. ~Transacting(p) /\ EditsOf(p) /\ Writing(p)
    BY DEF Transacting, Writing, EditsInvariant
  <1>2. ASSUME NEW next \in {"apply", "fail"}, pc' = [pc EXCEPT ![p] = next],
               next = "fail" => Cascades(p),
               UNCHANGED <<tables, clock, kind, tgt, seen, edits, now, matched>>
        PROVE  EditsInvariant'
    <2>1. pc'[p] = next
      BY <1>2 DEF Typed, TypeOK
    <2>2. (Dated(p)' => Dated(p)) /\ (Writing(p)' => Writing(p)) /\ (next = "apply" => Writing(p)')
      BY <1>1, <2>1 DEF Dated, Writing
    <2>3. EditsPending(p)'
      BY <1>1, <1>2, <2>2
      DEF EditsOf, EditsPending, Cascades, Creates, Updates
    <2>4. DraftsKeepFields'
      BY <1>2 DEF EditsInvariant, DraftsKeepFields, tables
    <2> QED
      BY <1>2, <2>1, <2>2, <2>3, <2>4, MovingEdits DEF tables
  <1>3. ASSUME NoRowAffected(p) PROVE EditsInvariant'
    BY <1>1, <1>2, <1>3, ReturnUnchangedEdits DEF NoRowAffected
  <1> QED
    BY <1>2, <1>3 DEF SelectRow

LEMMA WriteRowEdits ==
    ASSUME Typed, Typed', Core, EditsInvariant, NEW p \in Requests, OthersKept(p), WriteRow(p)
    PROVE  EditsInvariant'
  <1>1. pc[p] = "apply" /\ tgt[p] \in Items
    BY TargetItem DEF WriteRow
  <1>2. lock[tgt[p]] = Free
    BY <1>1, IdleHoldsNothing DEF WriteRow, RowFree, Transacting
  <1>3. CASE ~Selects(p, rows[tgt[p]])
    BY <1>1, <1>3, SelectRowEdits DEF WriteRow
  <1>4. CASE Selects(p, rows[tgt[p]])
    BY <1>1, <1>2, <1>4, AutocommitEdits, LockingEdits
    DEF WriteRow, CommitsAtOnce, AutocommitWrite, LockingWrite
  <1> QED
    BY <1>3, <1>4

LEMMA SelectChildrenEdits ==
    ASSUME Typed, Typed', Core, EditsInvariant, NEW p \in Requests, OthersKept(p),
           SelectChildren(p)
    PROVE  EditsInvariant'
  <1>1. pc[p] = "cascade" /\ pc'[p] = "sweep"
    BY DEF SelectChildren, Typed, TypeOK
  <1>2. Dated(p) /\ ~Writing(p) /\ ~Writing(p)'
    BY <1>1 DEF Dated, Writing
  <1>3. EditsPending(p)'
    BY <1>2, CascadesEditNothing DEF EditsPending, SelectChildren
  <1>4. DraftsKeepFields'
    BY DEF EditsInvariant, DraftsKeepFields, SelectChildren, tables
  <1> QED
    BY <1>1, <1>2, <1>3, <1>4, MovingEdits DEF SelectChildren, tables

LEMMA WriteChildrenEdits ==
    ASSUME Typed, Typed', Core, EditsInvariant, NEW p \in Requests, OthersKept(p),
           WriteChildren(p)
    PROVE  EditsInvariant'
  <1> DEFINE hit == {s \in matched[p] : InCascade(p, rows[s])}
  <1>1. /\ pc[p] = "sweep" /\ pc'[p] = "end" /\ rows' = rows /\ now' = now
        /\ \A i \in Items : i \in hit => draft'[i] = Cascaded(p, rows[i]) /\ lock'[i] = p
        /\ \A i \in Items : i \notin hit => draft'[i] = draft[i] /\ lock'[i] = lock[i]
    BY DEF WriteChildren, Typed, TypeOK
  <1>2. Dated(p) /\ ~Writing(p) /\ ~Writing(p)'
    BY <1>1 DEF Dated, Writing
  <1>3. EditsPending(p)'
    BY <1>2, CascadesEditNothing DEF EditsPending, WriteChildren
  <1>4. ASSUME NEW i \in Items
        PROVE  /\ Cascaded(p, rows[i]).present = rows[i].present
               /\ Cascaded(p, rows[i]).field = rows[i].field
               /\ Cascaded(p, rows[i]).ver = now[p]
    <2>1. rows[i] \in Row
      BY DEF Typed, TypeOK
    <2> QED
      BY <2>1 DEF Cascaded, Row
  <1>5. DraftsKeepFields'
    BY <1>1, <1>4 DEF EditsInvariant, DraftsKeepFields
  <1> QED
    BY <1>1, <1>2, <1>3, <1>5, MovingEdits DEF WriteChildren

\* Commit and Discard.
LEMMA EndEdits ==
    ASSUME Typed, Typed', Core, EditsInvariant, NEW p \in Requests, OthersKept(p),
           Return(p), Unlock(p),
           \A i \in Items : IF lock[i] = p
                           THEN draft'[i] = rows'[i] /\ rows'[i] \in {rows[i], draft[i]}
                           ELSE draft'[i] = draft[i] /\ rows'[i] = rows[i]
    PROVE  EditsInvariant'
  <1>1. \A i \in Items : lock[i] = p => Dated(p) /\ draft[i].ver = now[p]
    BY CatalogAssumption
    DEF Core, RequestInvariant, LocksOfCascade, Transacting, Dated, EditsInvariant,
        DraftsKeepFields
  <1>2. \A i \in Items : /\ draft[i].present = rows[i].present /\ draft[i].field = rows[i].field
                         /\ rows'[i].present = rows[i].present
                         /\ rows'[i].field = rows[i].field
    BY DEF EditsInvariant, DraftsKeepFields
  <1>3. DraftsKeepFields'
    <2>1. ASSUME NEW i \in Items, lock'[i] # Free PROVE draft'[i].ver = now'[lock'[i]]
      <3>1. lock[i] # p /\ lock'[i] = lock[i] /\ lock[i] \in Requests
        BY <2>1 DEF Unlock, Typed, TypeOK
      <3> QED
        BY <2>1, <3>1 DEF EditsInvariant, DraftsKeepFields, OthersKept
    <2> QED
      BY <1>2, <2>1 DEF DraftsKeepFields
  <1>4. \A i \in Items, f \in Fields : rows'[i].field[f] <= clock
    BY <1>2, FieldsPast
  <1>5. \A i \in Items : \/ /\ rows'[i].ver = rows[i].ver
                            /\ rows'[i].field = rows[i].field
                         \/ /\ rows'[i].ver = now[p]
                            /\ Dated(p)
    BY <1>1, <1>2
  <1> QED
    BY <1>2, <1>3, <1>4, <1>5, ReturningEdits

LEMMA StepEdits ==
    ASSUME Typed, Typed', Core, EditsInvariant, 0 \notin ClockSteps, NEW p \in Requests,
           Start(p) \/ Progress(p) \/ Abort(p)
    PROVE  EditsInvariant'
  <1>1. OthersKept(p)
    BY StepKeepsOthers
  <1>2. CASE Start(p)
    BY <1>1, <1>2, StartEdits
  <1>3. CASE FindParent(p)
    BY <1>1, <1>3, FindParentEdits
  <1>4. CASE SelectRow(p)
    BY <1>1, <1>4, SelectRowEdits DEF SelectRow
  <1>5. CASE WriteRow(p)
    BY <1>1, <1>5, WriteRowEdits
  <1>6. CASE SelectChildren(p)
    BY <1>1, <1>6, SelectChildrenEdits
  <1>7. CASE WriteChildren(p)
    BY <1>1, <1>7, WriteChildrenEdits
  <1>8. CASE Commit(p)
    <2>1. \A i \in Items : IF lock[i] = p
                          THEN draft'[i] = rows'[i] /\ rows'[i] \in {rows[i], draft[i]}
                          ELSE draft'[i] = draft[i] /\ rows'[i] = rows[i]
      BY <1>8 DEF Commit, Visible
    <2> QED
      BY <1>1, <1>8, <2>1, EndEdits DEF Commit
  <1>9. CASE Rollback(p) \/ Abort(p)
    <2>1. \A i \in Items : IF lock[i] = p
                          THEN draft'[i] = rows'[i] /\ rows'[i] \in {rows[i], draft[i]}
                          ELSE draft'[i] = draft[i] /\ rows'[i] = rows[i]
      BY <1>9 DEF Rollback, Abort, Discard
    <2> QED
      BY <1>1, <1>9, <2>1, EndEdits DEF Rollback, Abort, Discard
  <1> QED
    BY <1>2, <1>3, <1>4, <1>5, <1>6, <1>7, <1>8, <1>9 DEF Progress

LEMMA InitEdits == Init => EditsInvariant
  <1> SUFFICES ASSUME Init PROVE EditsInvariant
    OBVIOUS
  <1>1. /\ \A i \in Items : rows[i].ver <= clock /\ \A f \in Fields : rows[i].field[f] <= clock
        /\ \A i \in Items : lock[i] = Free /\ draft[i] = rows[i]
    BY CatalogAssumption DEF Init
  <1>2. \A p \in Requests : pc[p] = "start" /\ seen[p].ver = 0 /\ now[p] = 0 /\ edits[p] = {}
    BY DEF Init, NoRow
  <1>3. clock >= 0
    BY DEF Init, Epoch
  <1> QED
    BY <1>1, <1>2, <1>3
    DEF EditsInvariant, EditsOf, NothingFromTheFuture, DraftsKeepFields, FreshReading,
        CopyIdentified, IdIsNew, EditsPending, OnlyRestoreReadsParent, Dated, Writing

----------------------------------------------------------------------------
(***************************************************************************)
(* OwnInvariant is inductive next to EditsInvariant.                       *)
(***************************************************************************)
\* Whatever p has done: a new archive time is its reading, a new copy is of a committed
\* row, and p has a reading afterwards only if no row has changed.
LEMMA OwnStep ==
    ASSUME Typed, Typed', Core, EditsInvariant, OwnInvariant, NEW p \in Requests, OthersKept(p),
           \/ seen'[p].archived \in {0, seen[p].archived}
           \/ \E i \in Items : seen'[p].archived = rows[i].archived,
           Dated(p)' => rows' = rows /\ (now'[p] > clock \/ (Dated(p) /\ now'[p] = now[p])),
           \A i \in Items : \/ rows'[i].archived \in {0, rows[i].archived}
                            \/ Dated(p) /\ rows'[i].archived = now[p],
           \A s \in Subcategories : rows'[s].by = "itself" =>
               \/ rows[s].by = "itself" /\ rows'[s].archived = rows[s].archived
               \/ /\ Dated(p) /\ rows'[s].archived = now[p]
                  /\ rows'[Parent[s]] = rows[Parent[s]],
           DraftTimes', OwnPassedOver', Spared(p)'
    PROVE  OwnInvariant'
  <1>1. \A q \in Requests \ {p} :
          /\ Dated(q)' = Dated(q) /\ tgt'[q] = tgt[q] /\ now'[q] = now[q] /\ seen'[q] = seen[q]
    BY DEF OthersKept, Dated
  <1>2. /\ kind' = kind /\ clock \in Nat /\ clock' \in Nat /\ clock' >= clock
        /\ \A i \in Items : rows[i].archived \in Nat /\ rows'[i].archived \in Nat
        /\ \A q \in Requests : /\ seen[q].archived \in Nat /\ now[q] \in Nat
                               /\ seen'[q].archived \in Nat /\ now'[q] \in Nat
    BY DEF OthersKept, Typed, TypeOK, Row
  <1>3. \A s \in Subcategories : s \in Items /\ Parent[s] \in Items
    BY CatalogAssumption DEF Items
  <1>4. /\ \A i \in Items : rows[i].archived <= clock
        /\ \A q \in Requests : seen[q].archived <= clock /\ now[q] <= clock
    BY DEF OwnInvariant, ArchivesPast, EditsInvariant, NothingFromTheFuture
  <1>5. \A q \in Requests : Dated(q) => now[q] > 0
    BY DEF Core, RequestInvariant, ClockRead, Dated
  <1>6. seen'[p].archived <= clock
    BY <1>2, <1>4
  <1>7. ArchivesPast'
    <2>1. \A i \in Items : rows'[i].archived <= clock'
      BY <1>2, <1>4
    <2>2. \A q \in Requests : seen'[q].archived <= clock'
      BY <1>1, <1>2, <1>4, <1>6
    <2> QED
      BY <2>1, <2>2 DEF ArchivesPast
  <1>8. OwnTimesApart'
    <2> SUFFICES ASSUME NEW s \in Subcategories, rows'[s].by = "itself"
                 PROVE  rows'[s].archived \notin {0, rows'[Parent[s]].archived}
      BY DEF OwnTimesApart
    <2>1. Dated(p) => rows[s].archived # now[p] /\ rows[Parent[s]].archived # now[p]
      BY <1>3 DEF OwnInvariant, FreshForArchive
    <2>2. CASE rows[s].by = "itself" /\ rows'[s].archived = rows[s].archived
      BY <1>3, <2>1, <2>2 DEF OwnInvariant, OwnTimesApart
    <2>3. CASE Dated(p) /\ rows'[s].archived = now[p] /\ rows'[Parent[s]] = rows[Parent[s]]
      BY <1>2, <1>5, <2>1, <2>3
    <2> QED
      BY <2>2, <2>3
  <1>9. ASSUME NEW q \in Requests \ {p} PROVE FreshForArchive(q)' /\ Spared(q)'
    <2>1. ASSUME Dated(q) PROVE FreshForArchive(q)'
      <3>1. Dated(p) => now[p] # now[q]
        BY <2>1 DEF EditsInvariant, EditsOf, FreshReading
      <3>2. /\ now[q] > 0
            /\ \A i \in Items : rows[i].archived # now[q]
            /\ \A r \in Requests : seen[r].archived # now[q]
        BY <1>5, <2>1 DEF OwnInvariant, FreshForArchive
      <3>3. \A i \in Items : rows'[i].archived # now[q]
        BY <1>2, <3>1, <3>2
      <3>4. \A r \in Requests : seen'[r].archived # now[q]
        BY <1>1, <1>2, <3>2
      <3> QED
        BY <1>1, <3>3, <3>4 DEF FreshForArchive
    <2>2. ASSUME kind[q] = "restoreCategory", Dated(q), NEW s \in SubcategoriesOf(tgt[q]),
                 rows'[s].by = "itself"
          PROVE  rows'[s].archived # seen[q].archived
      <3>1. Dated(p) => seen[q].archived # now[p]
        BY DEF OwnInvariant, FreshForArchive
      <3> QED
        BY <2>2, <3>1 DEF OwnInvariant, Spared, SubcategoriesOf
    <2> QED
      BY <1>1, <1>2, <2>1, <2>2 DEF FreshForArchive, Spared
  <1>10. FreshForArchive(p)'
    <2> SUFFICES ASSUME Dated(p)'
                 PROVE  /\ \A i \in Items : rows'[i].archived # now'[p]
                        /\ \A q \in Requests : seen'[q].archived # now'[p]
      BY DEF FreshForArchive
    <2>1. CASE now'[p] > clock
      BY <1>1, <1>2, <1>4, <1>6, <2>1
    <2>2. CASE Dated(p) /\ now'[p] = now[p]
      BY <1>1, <1>2, <1>5, <2>2 DEF OwnInvariant, FreshForArchive
    <2> QED
      BY <2>1, <2>2
  <1> QED
    BY <1>7, <1>8, <1>9, <1>10 DEF OwnInvariant

\* A step that leaves the tables alone.
LEMMA ReadingOwn ==
    ASSUME Typed, Typed', Core, EditsInvariant, OwnInvariant, NEW p \in Requests, OthersKept(p),
           UNCHANGED tables, now'[p] = now[p] \/ ~Transacting(p),
           \/ seen'[p].archived \in {0, seen[p].archived}
           \/ \E i \in Items : seen'[p].archived = rows[i].archived,
           Dated(p)' => now'[p] > clock \/ (Dated(p) /\ now'[p] = now[p]),
           Spared(p)'
    PROVE  OwnInvariant'
  <1>1. rows' = rows /\ draft' = draft /\ lock' = lock
    BY DEF tables
  <1>2. DraftTimes'
    <2>1. \A i \in Items : lock[i] # Free => lock[i] \in Requests /\ now'[lock[i]] = now[lock[i]]
      BY IdleHoldsNothing DEF OthersKept, Typed, TypeOK
    <2> QED
      BY <1>1, <2>1 DEF OwnInvariant, DraftTimes
  <1>3. OwnPassedOver'
    BY <1>1 DEF OwnInvariant, OwnPassedOver
  <1> QED
    BY <1>1, <1>2, <1>3, OwnStep

LEMMA ReturnUnchangedOwn ==
    ASSUME Typed, Typed', Core, EditsInvariant, OwnInvariant, NEW p \in Requests, OthersKept(p),
           ~Transacting(p), ReturnUnchanged(p)
    PROVE  OwnInvariant'
  <1>1. seen'[p].archived = 0 /\ pc'[p] = "done"
    BY DEF ReturnUnchanged, Return, NoRow, Typed, TypeOK
  <1>2. ~Dated(p)'
    BY <1>1 DEF Dated
  <1> QED
    BY <1>1, <1>2, ReadingOwn DEF ReturnUnchanged, Spared

LEMMA BeginningOwn ==
    ASSUME Typed, Typed', Core, EditsInvariant, OwnInvariant, NEW p \in Requests, OthersKept(p),
           0 \notin ClockSteps, pc[p] = "start", NEW i \in Items, NEW fields,
           NEW next \in {"write", "parent"}, Begin(p, i, fields, next),
           next = "write" => ReadClock(p)
    PROVE  OwnInvariant'
  <1>1. /\ pc'[p] = next /\ tgt'[p] = i /\ seen'[p] = rows[i] /\ UNCHANGED tables
        /\ ~Transacting(p) /\ rows' = rows
    BY DEF Begin, tables, Transacting, Typed, TypeOK
  <1>2. Dated(p)' => now'[p] > clock
    <2>1. Dated(p)' => ReadClock(p)
      BY <1>1 DEF Dated
    <2>2. ASSUME ReadClock(p) PROVE now'[p] > clock
      <3>1. PICK d \in ClockSteps : now' = [now EXCEPT ![p] = clock + d]
        BY <2>2 DEF ReadClock
      <3>2. d \in Nat /\ d # 0 /\ clock \in Nat
        BY CatalogAssumption DEF Typed, TypeOK
      <3>3. now'[p] = clock + d
        BY <3>1 DEF Typed, TypeOK
      <3> QED
        BY <3>2, <3>3
    <2> QED
      BY <2>1, <2>2
  <1>3. Spared(p)'
    BY <1>1 DEF Spared, SubcategoriesOf, OwnInvariant, OwnTimesApart
  <1> QED
    BY <1>1, <1>2, <1>3, ReadingOwn

LEMMA StartOwn ==
    ASSUME Typed, Typed', Core, EditsInvariant, OwnInvariant, NEW p \in Requests, OthersKept(p),
           0 \notin ClockSteps, Start(p)
    PROVE  OwnInvariant'
  <1>1. pc[p] = "start" /\ ~Transacting(p) /\ Addressable(p) \subseteq Items
    BY AddressableType
    DEF Start, FindForCreate, FindForUpdate, FindForArchive, FindForRestoreCategory,
        FindForRestoreSubcategory, Transacting
  <1>2. Categories \subseteq Items /\ Subcategories \subseteq Items
    BY DEF Items
  <1>3. CASE FindForCreate(p)
    BY <1>1, <1>3, BeginningOwn, ReturnUnchangedOwn DEF FindForCreate
  <1>4. CASE FindForUpdate(p)
    BY <1>1, <1>4, BeginningOwn, ReturnUnchangedOwn DEF FindForUpdate
  <1>5. CASE FindForArchive(p)
    BY <1>1, <1>5, BeginningOwn, ReturnUnchangedOwn DEF FindForArchive
  <1>6. CASE FindForRestoreCategory(p)
    BY <1>1, <1>2, <1>6, BeginningOwn, ReturnUnchangedOwn DEF FindForRestoreCategory
  <1>7. CASE FindForRestoreSubcategory(p)
    BY <1>1, <1>2, <1>7, BeginningOwn, ReturnUnchangedOwn DEF FindForRestoreSubcategory
  <1> QED
    BY <1>3, <1>4, <1>5, <1>6, <1>7 DEF Start

LEMMA FindParentOwn ==
    ASSUME Typed, Typed', Core, EditsInvariant, OwnInvariant, NEW p \in Requests, OthersKept(p),
           0 \notin ClockSteps, FindParent(p)
    PROVE  OwnInvariant'
  <1>1. pc[p] = "parent" /\ ~Transacting(p) /\ kind[p] # "restoreCategory" /\ kind' = kind
    BY DEF FindParent, Transacting, EditsInvariant, EditsOf, OnlyRestoreReadsParent, OthersKept
  <1>2. Spared(p)'
    BY <1>1 DEF Spared
  <1>3. CASE ReturnUnchanged(p)
    BY <1>1, <1>3, ReturnUnchangedOwn
  <1>4. CASE ReadClock(p) /\ UNCHANGED <<tables, seen>>
    <2>1. now'[p] > clock
      BY <1>4, CatalogAssumption DEF ReadClock, Typed, TypeOK
    <2> QED
      BY <1>1, <1>2, <1>4, <2>1, ReadingOwn
  <1> QED
    BY <1>3, <1>4 DEF FindParent

\* A step in which p keeps its reading and its copy, and the tables are as they were.
LEMMA MovingOwn ==
    ASSUME Typed, Typed', Core, EditsInvariant, OwnInvariant, NEW p \in Requests, OthersKept(p),
           UNCHANGED <<tables, kind, tgt, seen, now>>, Dated(p)' => Dated(p)
    PROVE  OwnInvariant'
  <1>1. Spared(p)'
    BY DEF OwnInvariant, Spared, tables
  <1> QED
    BY <1>1, ReadingOwn

LEMMA SelectRowOwn ==
    ASSUME Typed, Typed', Core, EditsInvariant, OwnInvariant, NEW p \in Requests, OthersKept(p),
           pc[p] \in {"write", "apply"}, NoRowAffected(p) \/ SelectRow(p)
    PROVE  OwnInvariant'
  <1>1. ~Transacting(p) /\ Dated(p)
    BY DEF Transacting, Dated
  <1>2. CASE ReturnUnchanged(p)
    BY <1>1, <1>2, ReturnUnchangedOwn
  <1>3. CASE UNCHANGED <<tables, kind, tgt, seen, now>>
    BY <1>1, <1>3, MovingOwn
  <1> QED
    BY <1>2, <1>3 DEF SelectRow, NoRowAffected

LEMMA AutocommitOwn ==
    ASSUME Typed, Typed', Core, EditsInvariant, OwnInvariant, NEW p \in Requests, OthersKept(p),
           AutocommitWrite(p)
    PROVE  OwnInvariant'
  <1> DEFINE i == tgt[p]
             new == Written(p, rows[i])
  <1>1. /\ i \in Items /\ rows[i] \in Row /\ lock' = lock /\ lock[i] = Free
        /\ rows'[i] = new /\ draft'[i] = new /\ Dated(p) /\ pc'[p] = "done"
        /\ seen'[p].archived = 0
        /\ \A j \in Items \ {i} : rows'[j] = rows[j] /\ draft'[j] = draft[j]
    BY DEF AutocommitWrite, Return, NoRow, Dated, Typed, TypeOK
  <1>2. \/ new.archived = 0 /\ new.by = "nobody"
        \/ new.archived = rows[i].archived /\ new.by = rows[i].by
        \/ new.archived = now[p]
    BY <1>1 DEF Written, Row
  <1>3. ~Dated(p)'
    BY <1>1 DEF Dated
  <1>4. \A j \in Items : lock[j] # p
    BY IdleHoldsNothing DEF AutocommitWrite, Transacting
  <1>5. DraftTimes'
    <2>1. ASSUME NEW j \in Items, lock[j] # Free
          PROVE  j # i /\ lock[j] \in Requests \ {p}
      BY <1>1, <1>4, <2>1 DEF Typed, TypeOK
    <2> QED
      BY <1>1, <2>1 DEF OwnInvariant, DraftTimes, OthersKept
  <1>6. OwnPassedOver'
    BY <1>1 DEF OwnInvariant, OwnPassedOver, Items
  <1>7. ASSUME NEW s \in Subcategories, rows'[s].by = "itself"
        PROVE  \/ rows[s].by = "itself" /\ rows'[s].archived = rows[s].archived
               \/ /\ Dated(p) /\ rows'[s].archived = now[p]
                  /\ rows'[Parent[s]] = rows[Parent[s]]
    <2>1. s \in Items /\ Parent[s] \in Items /\ Parent[s] # s
      BY CatalogAssumption DEF Items
    <2> QED
      BY <1>1, <1>2, <1>7, <2>1
  <1>8. \A j \in Items : \/ rows'[j].archived \in {0, rows[j].archived}
                         \/ Dated(p) /\ rows'[j].archived = now[p]
    BY <1>1, <1>2
  <1>9. Spared(p)'
    BY <1>3 DEF Spared
  <1> QED
    BY <1>1, <1>3, <1>5, <1>6, <1>7, <1>8, <1>9, OwnStep

LEMMA LockingOwn ==
    ASSUME Typed, Typed', Core, EditsInvariant, OwnInvariant, NEW p \in Requests, OthersKept(p),
           LockingWrite(p)
    PROVE  OwnInvariant'
  <1> DEFINE i == tgt[p]
  <1>1. /\ i \in Items /\ rows[i] \in Row /\ rows' = rows /\ Dated(p)
        /\ draft'[i] = Written(p, rows[i]) /\ lock'[i] = p
        /\ \A j \in Items \ {i} : draft'[j] = draft[j] /\ lock'[j] = lock[j]
        /\ UNCHANGED <<kind, tgt, seen, now>>
    BY DEF LockingWrite, Dated, Typed, TypeOK
  <1>2. i \notin Subcategories
    BY CatalogAssumption
    DEF LockingWrite, Cascades, Typed, Targeted, Addressable, IsCategoryRequest, CategoryKinds
  <1>3. Written(p, rows[i]).archived \in {0, now[p]}
    BY <1>1 DEF LockingWrite, Cascades, Written, Creates, Updates, Row
  <1>4. DraftTimes'
    BY <1>1, <1>3 DEF OwnInvariant, DraftTimes
  <1>5. OwnPassedOver'
    BY <1>1, <1>2 DEF OwnInvariant, OwnPassedOver, Items
  <1>6. Spared(p)'
    BY <1>1 DEF OwnInvariant, Spared
  <1> QED
    BY <1>1, <1>4, <1>5, <1>6, OwnStep DEF OwnInvariant, OwnTimesApart

LEMMA WriteChildrenOwn ==
    ASSUME Typed, Typed', Core, EditsInvariant, OwnInvariant, NEW p \in Requests, OthersKept(p),
           WriteChildren(p)
    PROVE  OwnInvariant'
  <1> DEFINE hit == {s \in matched[p] : InCascade(p, rows[s])}
  <1>1. /\ pc[p] = "sweep" /\ rows' = rows /\ UNCHANGED <<kind, tgt, seen, now>>
        /\ \A j \in Items : j \in hit => draft'[j] = Cascaded(p, rows[j]) /\ lock'[j] = p
        /\ \A j \in Items : j \notin hit => draft'[j] = draft[j] /\ lock'[j] = lock[j]
    BY DEF WriteChildren, Typed, TypeOK
  <1>2. Dated(p) /\ Cascades(p) /\ hit \subseteq SubcategoriesOf(tgt[p])
    BY <1>1
    DEF Dated, Core, RequestInvariant, CategoryDrafted, MatchedInCategory, Transacting
  <1>3. ASSUME NEW s \in hit PROVE rows[s].by # "itself"
    <2>1. s \in Subcategories /\ InCascade(p, rows[s])
      BY <1>2 DEF SubcategoriesOf
    <2>2. CASE Archives(p)
      BY <2>1, <2>2 DEF InCascade, OwnInvariant, OwnTimesApart
    <2>3. CASE ~Archives(p)
      <3>1. kind[p] = "restoreCategory"
        BY <1>2, <2>3 DEF Cascades, Archives
      <3> QED
        BY <1>2, <2>1, <2>3, <3>1 DEF InCascade, OwnInvariant, Spared
    <2> QED
      BY <2>2, <2>3
  <1>4. \A j \in Items : /\ Cascaded(p, rows[j]).archived \in {0, now[p]}
                        /\ Cascaded(p, rows[j]).by # "itself"
    <2>1. \A j \in Items : rows[j] \in Row
      BY DEF Typed, TypeOK
    <2> QED
      BY <2>1 DEF Cascaded, Row
  <1>5. DraftTimes'
    BY <1>1, <1>4 DEF OwnInvariant, DraftTimes
  <1>6. OwnPassedOver'
    BY <1>1, <1>3, <1>4 DEF OwnInvariant, OwnPassedOver, Items
  <1>7. Spared(p)'
    BY <1>1, <1>2 DEF OwnInvariant, Spared, Dated
  <1> QED
    BY <1>1, <1>2, <1>5, <1>6, <1>7, OwnStep DEF OwnInvariant, OwnTimesApart

\* Commit and Discard.
LEMMA EndOwn ==
    ASSUME Typed, Typed', Core, EditsInvariant, OwnInvariant, NEW p \in Requests, OthersKept(p),
           Return(p), Unlock(p),
           \A i \in Items : IF lock[i] = p
                           THEN draft'[i] = rows'[i] /\ rows'[i] \in {rows[i], draft[i]}
                           ELSE draft'[i] = draft[i] /\ rows'[i] = rows[i]
    PROVE  OwnInvariant'
  <1>1. seen'[p].archived = 0 /\ pc'[p] = "done" /\ p # Free
    BY CatalogAssumption DEF Return, NoRow, Typed, TypeOK
  <1>2. ~Dated(p)'
    BY <1>1 DEF Dated
  <1>3. \A i \in Items : lock'[i] = (IF lock[i] = p THEN Free ELSE lock[i])
    BY DEF Unlock
  <1>4. \A i \in Items : lock[i] = p => Dated(p) /\ draft[i].archived \in {0, now[p]}
    BY <1>1
    DEF Core, RequestInvariant, LocksOfCascade, Transacting, Dated, OwnInvariant, DraftTimes
  <1>5. DraftTimes'
    <2>1. ASSUME NEW i \in Items, lock'[i] # Free
          PROVE  lock[i] \in Requests \ {p} /\ lock'[i] = lock[i]
      BY <1>3, <2>1 DEF Typed, TypeOK
    <2> QED
      BY <2>1 DEF OwnInvariant, DraftTimes, OthersKept
  <1>6. OwnPassedOver'
    BY <1>3 DEF OwnInvariant, OwnPassedOver, Items
  <1>7. \A i \in Items : \/ rows'[i].archived \in {0, rows[i].archived}
                         \/ Dated(p) /\ rows'[i].archived = now[p]
    BY <1>4
  <1>8. \A s \in Subcategories : rows'[s].by = "itself" =>
          rows[s].by = "itself" /\ rows'[s].archived = rows[s].archived
    BY <1>1 DEF OwnInvariant, OwnPassedOver, Items
  <1>9. Spared(p)'
    BY <1>2 DEF Spared
  <1> QED
    BY <1>1, <1>2, <1>5, <1>6, <1>7, <1>8, <1>9, OwnStep

LEMMA StepOwn ==
    ASSUME Typed, Typed', Core, EditsInvariant, OwnInvariant, 0 \notin ClockSteps,
           NEW p \in Requests, Start(p) \/ Progress(p) \/ Abort(p)
    PROVE  OwnInvariant'
  <1>1. OthersKept(p)
    BY StepKeepsOthers
  <1>2. CASE Start(p)
    BY <1>1, <1>2, StartOwn
  <1>3. CASE FindParent(p)
    BY <1>1, <1>3, FindParentOwn
  <1>4. CASE SelectRow(p)
    BY <1>1, <1>4, SelectRowOwn DEF SelectRow
  <1>5. CASE WriteRow(p)
    <2>1. pc[p] = "apply" /\ tgt[p] \in Items /\ ~Transacting(p)
      BY <1>5, TargetItem DEF WriteRow, Transacting
    <2>2. lock[tgt[p]] = Free
      BY <1>5, <2>1, IdleHoldsNothing DEF WriteRow, RowFree
    <2>3. NoRowAffected(p) \/ AutocommitWrite(p) \/ LockingWrite(p)
      BY <1>5, <2>1, <2>2 DEF WriteRow, CommitsAtOnce, AutocommitWrite, LockingWrite
    <2> QED
      BY <1>1, <2>1, <2>3, SelectRowOwn, AutocommitOwn, LockingOwn
  <1>6. CASE SelectChildren(p)
    <2>1. Dated(p)
      BY <1>6 DEF SelectChildren, Dated
    <2> QED
      BY <1>1, <1>6, <2>1, MovingOwn DEF SelectChildren
  <1>7. CASE WriteChildren(p)
    BY <1>1, <1>7, WriteChildrenOwn
  <1>8. CASE Commit(p)
    <2>1. \A i \in Items : IF lock[i] = p
                          THEN draft'[i] = rows'[i] /\ rows'[i] \in {rows[i], draft[i]}
                          ELSE draft'[i] = draft[i] /\ rows'[i] = rows[i]
      BY <1>8 DEF Commit, Visible
    <2> QED
      BY <1>1, <1>8, <2>1, EndOwn DEF Commit
  <1>9. CASE Rollback(p) \/ Abort(p)
    <2>1. \A i \in Items : IF lock[i] = p
                          THEN draft'[i] = rows'[i] /\ rows'[i] \in {rows[i], draft[i]}
                          ELSE draft'[i] = draft[i] /\ rows'[i] = rows[i]
      BY <1>9 DEF Rollback, Abort, Discard
    <2> QED
      BY <1>1, <1>9, <2>1, EndOwn DEF Rollback, Abort, Discard
  <1> QED
    BY <1>2, <1>3, <1>4, <1>5, <1>6, <1>7, <1>8, <1>9 DEF Progress

LEMMA InitOwn == Init => OwnInvariant
  <1> SUFFICES ASSUME Init PROVE OwnInvariant
    OBVIOUS
  <1>1. /\ \A i \in Items : rows[i].archived <= clock /\ lock[i] = Free
        /\ OwnTimesApart
    BY CatalogAssumption DEF Init, OwnTimesApart
  <1>2. \A p \in Requests : pc[p] = "start" /\ seen[p].archived = 0
    BY DEF Init, NoRow
  <1>3. clock >= 0
    BY DEF Init, Epoch
  <1> QED
    BY <1>1, <1>2, <1>3
    DEF OwnInvariant, ArchivesPast, DraftTimes, OwnPassedOver, FreshForArchive, Spared, Dated,
        Items

----------------------------------------------------------------------------
(***************************************************************************)
(* The handlers.                                                           *)
(***************************************************************************)
\* The handlers answer but never touch a row themselves: what is proved of the services
\* holds of the endpoints (ApiSpec adds the answers to the steps of Catalog).
THEOREM ApiImplementsCatalog == ApiSpec => Spec
  <1>1. ApiInit => Init
    BY DEF ApiInit
  <1>2. [ApiNext]_<<vars, answer>> => [Next]_vars
    <2>1. ASSUME NEW p \in Requests, Refuse(p) \/ Accept(p) \/ Serve(p) \/ Break(p)
          PROVE  [Next]_vars
      <3>1. CASE Refuse(p)
        BY <3>1 DEF Refuse
      <3>2. CASE Accept(p)
        BY <3>2 DEF Accept, Next
      <3>3. CASE Serve(p)
        BY <3>3 DEF Serve, RejectParent, Select, Write, Cascade, Complete, ReportError,
                    Next, Progress
      <3>4. CASE Break(p)
        BY <3>4 DEF Break, Next
      <3> QED
        BY <2>1, <3>1, <3>2, <3>3, <3>4
    <2>2. CASE UNCHANGED <<vars, answer>>
      BY <2>2
    <2> QED
      BY <2>1, <2>2 DEF ApiNext
  <1> QED
    BY <1>1, <1>2, PTL DEF ApiSpec, Spec

----------------------------------------------------------------------------
(***************************************************************************)
(* What clients are told.                                                  *)
(***************************************************************************)
LEMMA ErrorsAreNoSuccess ==
    \A e \in Errors : FailureCodes[e] \notin Successes
  BY DEF Errors, FailureCodes, Successes

LEMMA HandlerCodes ==
    ASSUME Typed, NEW p \in Requests
    PROVE  /\ Handler(p).refused \cap Successes = {}
           /\ Handler(p).broken \cap Successes = {}
           /\ Handler(p).failure = FailureCodes
  <1>1. \A refused, success, failure, broken :
          LET h == Endpoint(refused, success, failure, broken) IN
          h.refused = refused /\ h.broken = broken /\ h.failure = failure
    BY DEF Endpoint
  <1>2. BeforeHandler \cap Successes = {}
    BY DEF BeforeHandler, NewAuthMiddleware, Validate, Successes
  <1>3. {"409", "500"} \cap Successes = {} /\ {"500"} \cap Successes = {}
        /\ {"422", "500"} \cap Successes = {}
    BY DEF Successes
  <1>4. kind[p] \in CategoryKinds \cup SubcategoryKinds
    BY DEF Typed, TypeOK
  <1>5. \E success, broken :
          /\ Handler(p) = Endpoint(BeforeHandler, success, FailureCodes, broken)
          /\ broken \cap Successes = {}
    BY <1>3, <1>4
    DEF Handler, CategoryKinds, SubcategoryKinds, CreateCategory, PatchCategory,
        DeleteCategory, RestoreCategory, CreateSubcategory, PatchSubcategory,
        DeleteSubcategory, RestoreSubcategory
  <1> QED
    BY <1>1, <1>2, <1>5

\* p is given an answer about row i; a success has the property P.
Answered(p, i, P) ==
    \E code : /\ answer' = [answer EXCEPT ![p] = Answer(code, i, edits[p], now[p])]
              /\ code \in Successes => P

\* What a success about row i means: the edits are in it, or it is archived.
Earned(p, i) ==
    /\ i \in Items
    /\ EditsInvariant /\ edits[p] # {} =>
          rows'[i].present /\ \A f \in edits[p] : now[p] <= rows'[i].field[f]
    /\ Archives(p) => rows'[i].archived # 0

LEMMA ErrorAnswered ==
    ASSUME Typed, NEW p \in Requests, NEW errors \in SUBSET Errors, ReplyError(p, errors)
    PROVE  Answered(p, tgt[p], FALSE)
  <1>1. \A code \in {Handler(p).failure[e] : e \in errors} \cup {"500"} : code \notin Successes
    BY HandlerCodes, ErrorsAreNoSuccess DEF Successes
  <1> QED
    BY <1>1 DEF ReplyError, Reply, Answered

LEMMA SuccessAnswered ==
    ASSUME NEW p \in Requests, NEW i, Reply(p, i, {Handler(p).success}), Earned(p, i)
    PROVE  Answered(p, i, Earned(p, i))
  BY DEF Reply, Answered

LEMMA NoRowErrorsTyped == ASSUME NEW p PROVE NoRowErrors(p) \in SUBSET Errors
  BY DEF NoRowErrors, Errors

\* Every step of a handler answers nothing, or an error, or a success that is earned.
LEMMA AnswersEarned ==
    ASSUME Typed, Core, NEW p \in Requests, Refuse(p) \/ Accept(p) \/ Serve(p) \/ Break(p)
    PROVE  \/ UNCHANGED answer
           \/ \E i : Answered(p, i, Earned(p, i))
  <1>0. \A i : Answered(p, i, FALSE) => Answered(p, i, Earned(p, i))
    BY DEF Answered
  <1>1. CASE Refuse(p)
    <2>1. Answered(p, Nothing, FALSE)
      BY <1>1, HandlerCodes DEF Refuse, Reply, Answered, Successes
    <2> QED
      BY <1>0, <2>1
  <1>2. CASE Accept(p)
    <2>1. pc[p] = "start"
      BY <1>2 DEF Accept, Start, FindForCreate, FindForUpdate, FindForArchive,
                  FindForRestoreCategory, FindForRestoreSubcategory
    <2>2. ASSUME NEW i \in Items, Settled(p, i), Reply(p, i, {Handler(p).success}),
                 pc'[p] = "done"
          PROVE  Answered(p, i, Earned(p, i))
      <3>1. EditsInvariant => edits[p] = {}
        BY <2>1 DEF EditsInvariant, EditsOf, EditsPending, Writing
      <3>2. Archives(p) => rows[i].archived # 0
        BY <2>2 DEF Settled, Active
      <3>3. rows' = rows
        BY <1>2, StartQuiet DEF Accept, Quiet, tables
      <3> QED
        BY <2>2, <3>1, <3>2, <3>3, SuccessAnswered DEF Earned
    <2>3. ASSUME NEW i \in Items, ~Settled(p, i),
                 Reply(p, i, {Handler(p).failure[e] : e \in FindErrors(p, i)})
          PROVE  Answered(p, i, FALSE)
      <3>1. FindErrors(p, i) \in SUBSET Errors
        BY DEF FindErrors, Errors
      <3>2. \A code \in {Handler(p).failure[e] : e \in FindErrors(p, i)} \cup {"500"} :
              code \notin Successes
        BY <3>1, HandlerCodes, ErrorsAreNoSuccess DEF Successes
      <3> QED
        BY <2>3, <3>2 DEF Reply, Answered
    <2> QED
      BY <1>0, <1>2, <2>2, <2>3, AddressableType DEF Accept, FoundUnfit
  <1>3. CASE RejectParent(p)
    <2>1. {"ErrParentCategoryArchived"} \in SUBSET Errors
      BY DEF Errors
    <2> QED
      BY <1>0, <1>3, <2>1, ErrorAnswered DEF RejectParent
  <1>4. CASE Select(p) \/ ReportError(p)
    BY <1>0, <1>4, ErrorAnswered, NoRowErrorsTyped DEF Select, ReportError
  <1>5. CASE Write(p)
    <2>1. CASE pc'[p] = "done" /\ Matches(p) /\ Reply(p, tgt[p], {Handler(p).success})
      <3> DEFINE i == tgt[p]
      <3>1. i \in Items /\ pc[p] = "apply" /\ now[p] > 0 /\ rows[i] \in Row /\ Selects(p, rows[i])
        BY <1>5, <2>1, TargetItem
        DEF Write, WriteRow, Matches, Core, RequestInvariant, ClockRead, Typed, TypeOK
      <3>2. lock[i] = Free
        BY <1>5, <3>1, IdleHoldsNothing DEF Write, WriteRow, RowFree, Transacting
      <3>3. AutocommitWrite(p) \/ LockingWrite(p)
        BY <1>5, <3>1, <3>2
        DEF Write, WriteRow, CommitsAtOnce, AutocommitWrite, LockingWrite
      <3>4. AutocommitWrite(p)
        BY <2>1, <3>3 DEF LockingWrite, Typed, TypeOK
      <3>5. rows'[i] = Written(p, rows[i])
        BY <3>4 DEF AutocommitWrite, Typed, TypeOK
      <3>6. Archives(p) => Written(p, rows[i]).archived = now[p]
        BY <3>1 DEF Written, Archives, Creates, Updates, Row
      <3>7. EditsInvariant => rows'[i].present /\ \A f \in edits[p] : now[p] <= rows'[i].field[f]
        <4>1. edits[p] \in SUBSET Fields /\ now[p] \in Nat
          BY DEF Typed, TypeOK
        <4> QED
          BY <3>4, <3>5, <4>1, WrittenFields
      <3>8. Earned(p, i)
        <4>1. Archives(p) => rows'[i].archived # 0
          BY <3>1, <3>5, <3>6
        <4> QED
          BY <3>1, <3>7, <4>1 DEF Earned
      <3> QED
        BY <2>1, <3>8, SuccessAnswered
    <2> QED
      BY <1>0, <1>5, <2>1, ErrorAnswered, NoRowErrorsTyped DEF Write
  <1>6. CASE Cascade(p)
    BY <1>6 DEF Cascade
  <1>7. CASE Complete(p)
    <2>1. pc[p] = "end" /\ ~Writing(p) /\ tgt[p] \in Items
      BY <1>7, TargetItem DEF Complete, Commit, Writing
    <2>2. lock[tgt[p]] = p /\ (Archives(p) => draft[tgt[p]].archived # 0)
      BY <2>1 DEF Core, RequestInvariant, CategoryDrafted, Transacting
    <2>3. rows'[tgt[p]] = draft[tgt[p]]
      BY <1>7, <2>1, <2>2 DEF Complete, Commit, Visible
    <2>4. Earned(p, tgt[p])
      BY <2>1, <2>2, <2>3, CascadesEditNothing DEF Earned
    <2> QED
      BY <1>7, <2>4, SuccessAnswered DEF Complete
  <1>8. CASE Break(p)
    <2>1. Answered(p, tgt[p], FALSE)
      BY <1>8, HandlerCodes DEF Break, Reply, Answered, Successes
    <2> QED
      BY <1>0, <2>1
  <1> QED
    BY <1>1, <1>2, <1>3, <1>4, <1>5, <1>6, <1>7, <1>8 DEF Serve

----------------------------------------------------------------------------
(***************************************************************************)
(* What was edited stays at least as new, and what was archived archived.  *)
(***************************************************************************)
\* No request has begun that could bring back what is archived.
Calm == \A q \in Requests : Revives(q) => pc[q] = "start"

\* A draft shows nothing that is archived, either.
DraftsHide == \A i \in Items : rows[i].archived # 0 => draft[i].archived # 0

AnswersTyped ==
    /\ answer = [p \in Requests |-> answer[p]]
    /\ \A p \in Requests : answer[p].fields \in SUBSET Fields /\ answer[p].at \in Nat

\* The edits a client was told of are in the row, or later ones are.
EditsThere ==
    \A p \in Requests : Succeeded(p) /\ answer[p].fields # {} =>
        /\ answer[p].row \in Items /\ rows[answer[p].row].present
        /\ \A f \in answer[p].fields : answer[p].at <= rows[answer[p].row].field[f]

\* Unless somebody brings rows back, what a client was told is archived is.
ArchivesThere ==
    Calm => /\ DraftsHide
            /\ \A p \in Requests : Succeeded(p) /\ Archives(p) =>
                  answer[p].row \in Items /\ rows[answer[p].row].archived # 0

LEMMA FieldsOnward ==
    ASSUME Typed, Core, EditsInvariant, NEW p \in Requests,
           Start(p) \/ Progress(p) \/ Abort(p), NEW i \in Items, rows[i].present
    PROVE  rows'[i].present /\ \A f \in Fields : rows[i].field[f] <= rows'[i].field[f]
  <1>0. \A f \in Fields : rows[i].field[f] \in Nat
    BY DEF Typed, TypeOK, Row
  <1>1. CASE rows' = rows
    BY <1>0, <1>1
  <1>2. CASE AutocommitWrite(p)
    <2>1. CASE i = tgt[p]
      <3>1. rows'[i] = Written(p, rows[i])
        BY <1>2, <2>1 DEF AutocommitWrite, Typed, TypeOK
      <3> QED
        BY <1>2, <2>1, <3>1, WrittenFields
    <2>2. CASE i # tgt[p]
      BY <1>0, <1>2, <2>2 DEF AutocommitWrite, Typed, TypeOK
    <2> QED
      BY <2>1, <2>2
  <1>3. CASE Commit(p)
    BY <1>0, <1>3 DEF Commit, Visible, EditsInvariant, DraftsKeepFields
  <1>4. CASE WriteRow(p)
    BY <1>1, <1>2, <1>4, WriteRowCases DEF Quiet, LockingWrite, tables
  <1>5. CASE SelectChildren(p) \/ WriteChildren(p) \/ Rollback(p) \/ Abort(p)
    BY <1>1, <1>5 DEF SelectChildren, WriteChildren, Rollback, Abort, Discard, tables
  <1> QED
    BY <1>1, <1>3, <1>4, <1>5, StartQuiet, FindParentQuiet, SelectRowQuiet
    DEF Progress, Quiet, tables

\* A request that does not revive leaves archived what is.
LEMMA ArchivedOnward ==
    ASSUME Typed, Core, NEW p \in Requests, Start(p) \/ Progress(p) \/ Abort(p),
           ~Revives(p), DraftsHide
    PROVE  DraftsHide' /\ \A i \in Items : rows[i].archived # 0 => rows'[i].archived # 0
  <1>0. ~Creates(p) /\ (Updates(p) \/ Archives(p)) /\ ~(Updates(p) /\ Archives(p))
    BY DEF Revives, Creates, Updates, Archives, CategoryKinds, SubcategoryKinds, Typed, TypeOK
  <1>1. CASE UNCHANGED tables
    BY <1>1 DEF tables, DraftsHide
  <1>2. ASSUME NEW i \in Items, Selects(p, rows[i]), rows[i].archived # 0
        PROVE  Written(p, rows[i]).archived # 0
    <2>1. Updates(p) /\ ~Archives(p) /\ rows[i] \in Row
      BY <1>0, <1>2 DEF Selects, Active, Typed, TypeOK
    <2> QED
      BY <1>0, <1>2, <2>1 DEF Written, Row
  <1>3. CASE AutocommitWrite(p)
    BY <1>2, <1>3 DEF AutocommitWrite, DraftsHide, Typed, TypeOK
  <1>4. CASE LockingWrite(p)
    BY <1>2, <1>4 DEF LockingWrite, DraftsHide, Typed, TypeOK
  <1>5. CASE WriteRow(p)
    BY <1>1, <1>3, <1>4, <1>5, WriteRowCases DEF Quiet
  <1>6. CASE WriteChildren(p)
    <2>1. pc[p] = "sweep" /\ Archives(p)
      <3>1. pc[p] = "sweep" /\ Cascades(p)
        BY <1>6 DEF WriteChildren, Core, RequestInvariant, CategoryDrafted, Transacting
      <3> QED
        BY <1>0, <3>1 DEF Cascades, Updates, Archives
    <2>2. \A i \in Items : rows[i].archived # 0 => draft'[i] = draft[i] /\ rows' = rows
      BY <1>6, <2>1 DEF WriteChildren, InCascade
    <2>3. rows' = rows
      BY <1>6 DEF WriteChildren
    <2> QED
      BY <2>2, <2>3 DEF DraftsHide
  <1>7. CASE Commit(p)
    BY <1>7 DEF Commit, Visible, DraftsHide
  <1>8. CASE SelectChildren(p)
    BY <1>1, <1>8 DEF SelectChildren
  <1>9. CASE Rollback(p) \/ Abort(p)
    BY <1>9 DEF Rollback, Abort, Discard, DraftsHide
  <1> QED
    BY <1>1, <1>5, <1>6, <1>7, <1>8, <1>9, StartQuiet, FindParentQuiet, SelectRowQuiet
    DEF Progress, Quiet

\* A step of a handler is one of the service, or changes nothing but the answer.
LEMMA HandlerSteps ==
    ASSUME NEW p \in Requests, Refuse(p) \/ Accept(p) \/ Serve(p) \/ Break(p)
    PROVE  Start(p) \/ Progress(p) \/ Abort(p) \/ UNCHANGED vars
  BY DEF Refuse, Accept, Serve, Break, RejectParent, Select, Write, Cascade, Complete,
         ReportError, Progress

LEMMA OtherAnswers ==
    ASSUME Typed, AnswersTyped, NEW p \in Requests, NEW i, NEW P, Answered(p, i, P)
    PROVE  /\ AnswersTyped'
           /\ \A q \in Requests \ {p} : answer'[q] = answer[q]
           /\ answer'[p].row = i /\ answer'[p].fields = edits[p] /\ answer'[p].at = now[p]
           /\ answer'[p].code \in Successes => P
  <1>1. edits[p] \in SUBSET Fields /\ now[p] \in Nat
    BY DEF Typed, TypeOK
  <1>2. PICK code : /\ answer' = [answer EXCEPT ![p] = Answer(code, i, edits[p], now[p])]
                    /\ code \in Successes => P
    BY DEF Answered
  <1>3. answer'[p] = Answer(code, i, edits[p], now[p])
    BY <1>2 DEF AnswersTyped
  <1>4. \A q \in Requests \ {p} : answer'[q] = answer[q]
    BY <1>2 DEF AnswersTyped
  <1>5. /\ answer'[p].row = i /\ answer'[p].fields = edits[p] /\ answer'[p].at = now[p]
        /\ answer'[p].code = code
    BY <1>3 DEF Answer
  <1>6. AnswersTyped'
    BY <1>1, <1>2, <1>4, <1>5 DEF AnswersTyped
  <1> QED
    BY <1>2, <1>4, <1>5, <1>6

LEMMA EditsThereStep ==
    ASSUME Typed, Typed', Core, EditsInvariant, AnswersTyped, EditsThere, NEW p \in Requests,
           Refuse(p) \/ Accept(p) \/ Serve(p) \/ Break(p)
    PROVE  EditsThere'
  <1>1. \A i \in Items : rows[i].present =>
          rows'[i].present /\ \A f \in Fields : rows[i].field[f] <= rows'[i].field[f]
    <2>1. \A i \in Items, f \in Fields : rows[i].field[f] \in Nat
      BY DEF Typed, TypeOK, Row
    <2> QED
      BY <2>1, HandlerSteps, FieldsOnward DEF vars
  <1>2. \A i \in Items, f \in Fields : rows[i].field[f] \in Nat /\ rows'[i].field[f] \in Nat
    BY DEF Typed, TypeOK, Row
  <1>3. ASSUME NEW q \in Requests, answer'[q] = answer[q], Succeeded(q)', answer'[q].fields # {}
        PROVE  /\ answer'[q].row \in Items /\ rows'[answer'[q].row].present
               /\ \A f \in answer'[q].fields : answer'[q].at <= rows'[answer'[q].row].field[f]
    <2>1. /\ answer[q].row \in Items /\ rows[answer[q].row].present
          /\ \A f \in answer[q].fields : answer[q].at <= rows[answer[q].row].field[f]
      BY <1>3 DEF EditsThere, Succeeded
    <2>2. answer[q].fields \subseteq Fields /\ answer[q].at \in Nat
      BY DEF AnswersTyped
    <2>3. ASSUME NEW f \in answer[q].fields PROVE answer[q].at <= rows'[answer[q].row].field[f]
      BY <1>1, <1>2, <2>1, <2>2
    <2> QED
      BY <1>1, <1>3, <2>1, <2>3
  <1>4. CASE UNCHANGED answer
    BY <1>3, <1>4 DEF EditsThere
  <1>5. ASSUME NEW i, Answered(p, i, Earned(p, i)) PROVE EditsThere'
    <2>1. /\ answer'[p].row = i /\ answer'[p].fields = edits[p] /\ answer'[p].at = now[p]
          /\ answer'[p].code \in Successes => Earned(p, i)
          /\ \A q \in Requests \ {p} : answer'[q] = answer[q]
      BY <1>5, OtherAnswers
    <2>2. Succeeded(p)' /\ answer'[p].fields # {} =>
              /\ answer'[p].row \in Items /\ rows'[answer'[p].row].present
              /\ \A f \in answer'[p].fields : answer'[p].at <= rows'[answer'[p].row].field[f]
      BY <2>1 DEF Succeeded, Earned
    <2> QED
      BY <1>3, <2>1, <2>2 DEF EditsThere
  <1> QED
    BY <1>4, <1>5, AnswersEarned

LEMMA ArchivesKept ==
    ASSUME Typed, Core, AnswersTyped, ArchivesThere, Calm, NEW p \in Requests,
           Refuse(p) \/ Accept(p) \/ Serve(p) \/ Break(p), kind' = kind,
           \A i \in Items : rows[i].archived # 0 => rows'[i].archived # 0
    PROVE  \A q \in Requests : Succeeded(q)' /\ Archives(q)' =>
              answer'[q].row \in Items /\ rows'[answer'[q].row].archived # 0
  <1>1. ASSUME NEW q \in Requests, answer'[q] = answer[q], Succeeded(q)', Archives(q)'
        PROVE  answer'[q].row \in Items /\ rows'[answer'[q].row].archived # 0
    BY <1>1 DEF ArchivesThere, Succeeded, Archives
  <1>2. ASSUME NEW i, Answered(p, i, Earned(p, i)), Succeeded(p)', Archives(p)'
        PROVE  answer'[p].row \in Items /\ rows'[answer'[p].row].archived # 0
    <2>1. answer'[p].row = i /\ (answer'[p].code \in Successes => Earned(p, i))
      BY <1>2, OtherAnswers
    <2> QED
      BY <1>2, <2>1 DEF Succeeded, Archives, Earned
  <1>3. \A i : Answered(p, i, Earned(p, i)) =>
                 \A q \in Requests \ {p} : answer'[q] = answer[q]
    BY OtherAnswers
  <1> QED
    BY <1>1, <1>2, <1>3, AnswersEarned

LEMMA ArchivesThereStep ==
    ASSUME Typed, Core, AnswersTyped, ArchivesThere, NEW p \in Requests,
           Refuse(p) \/ Accept(p) \/ Serve(p) \/ Break(p)
    PROVE  ArchivesThere'
  <1> SUFFICES ASSUME Calm'
               PROVE  /\ DraftsHide'
                      /\ \A q \in Requests : Succeeded(q)' /\ Archives(q)' =>
                            answer'[q].row \in Items /\ rows'[answer'[q].row].archived # 0
    BY DEF ArchivesThere
  <1>1. CASE UNCHANGED vars
    <2>1. Calm /\ DraftsHide' /\ kind' = kind /\ rows' = rows
      BY <1>1 DEF vars, Calm, Revives, Creates, ArchivesThere, DraftsHide
    <2> QED
      BY <2>1, ArchivesKept
  <1>2. CASE Start(p) \/ Progress(p) \/ Abort(p)
    <2>1. kind' = kind /\ Calm /\ ~Revives(p)
      BY <1>2, StepBegins, StepKeepsOthers DEF OthersKept, Calm, Revives, Creates
    <2>2. DraftsHide' /\ \A i \in Items : rows[i].archived # 0 => rows'[i].archived # 0
      BY <1>2, <2>1, ArchivedOnward DEF ArchivesThere
    <2> QED
      BY <2>1, <2>2, ArchivesKept
  <1> QED
    BY <1>1, <1>2, HandlerSteps

LEMMA ApiInvariantInit == ApiInit => AnswersTyped /\ EditsThere /\ ArchivesThere
  <1> SUFFICES ASSUME ApiInit PROVE AnswersTyped /\ EditsThere /\ ArchivesThere
    OBVIOUS
  <1>1. \A p \in Requests : answer[p] = NoAnswer
    BY DEF ApiInit
  <1>2. NoAnswer.code \notin Successes /\ NoAnswer.fields = {} /\ NoAnswer.at = 0
    BY DEF NoAnswer, Answer, Successes
  <1>3. AnswersTyped
    BY <1>1, <1>2 DEF AnswersTyped, ApiInit
  <1>4. EditsThere /\ \A p \in Requests : ~Succeeded(p)
    BY <1>1, <1>2 DEF EditsThere, Succeeded
  <1>5. DraftsHide
    BY DEF ApiInit, Init, DraftsHide
  <1> QED
    BY <1>3, <1>4, <1>5 DEF ArchivesThere

LEMMA EditsStep ==
    0 \notin ClockSteps /\ Typed /\ CatalogInvariant /\ EditsInvariant /\ [Next]_vars
    => EditsInvariant'
  <1> SUFFICES ASSUME 0 \notin ClockSteps, Typed, CatalogInvariant, EditsInvariant, [Next]_vars
               PROVE  EditsInvariant'
    OBVIOUS
  <1>1. Typed' /\ Core
    BY StepTyped, InvariantSplit
  <1>2. CASE UNCHANGED vars
    BY <1>2
    DEF vars, EditsInvariant, EditsOf, NothingFromTheFuture, DraftsKeepFields, FreshReading,
        CopyIdentified, IdIsNew, EditsPending, OnlyRestoreReadsParent, Dated, Writing, Creates,
        Updates
  <1> QED
    BY <1>1, <1>2, StepEdits DEF Next

LEMMA ApiInvariantStep ==
    Typed /\ Typed' /\ CatalogInvariant /\ AnswersTyped /\ [ApiNext]_<<vars, answer>>
    => /\ AnswersTyped'
       /\ ArchivesThere => ArchivesThere'
       /\ EditsInvariant /\ EditsThere => EditsThere'
  <1> SUFFICES ASSUME Typed, Typed', CatalogInvariant, AnswersTyped, [ApiNext]_<<vars, answer>>
               PROVE  /\ AnswersTyped'
                      /\ ArchivesThere => ArchivesThere'
                      /\ EditsInvariant /\ EditsThere => EditsThere'
    OBVIOUS
  <1>1. Core
    BY InvariantSplit
  <1>2. CASE UNCHANGED <<vars, answer>>
    BY <1>2
    DEF vars, AnswersTyped, EditsThere, ArchivesThere, DraftsHide, Calm, Revives, Creates,
        Archives, Succeeded
  <1>3. ASSUME NEW p \in Requests, Refuse(p) \/ Accept(p) \/ Serve(p) \/ Break(p)
        PROVE  /\ AnswersTyped'
               /\ ArchivesThere => ArchivesThere'
               /\ EditsInvariant /\ EditsThere => EditsThere'
    <2>1. AnswersTyped'
      <3>1. CASE UNCHANGED answer
        BY <3>1 DEF AnswersTyped
      <3> QED
        BY <1>1, <1>3, <3>1, AnswersEarned, OtherAnswers
    <2> QED
      BY <1>1, <1>3, <2>1, ArchivesThereStep, EditsThereStep
  <1> QED
    BY <1>2, <1>3 DEF ApiNext

\* What a client was told is archived stays so, with all subcategories, until a request
\* begins that may bring it back (DeleteCategory and DeleteSubcategory among edits,
\* other archives and failures).
THEOREM ConfirmedArchivesHide == ApiSpec => []ConfirmedArchiveHides
  <1>1. ApiSpec => [](Typed /\ CatalogInvariant)
    BY ApiImplementsCatalog, InvariantInit, InvariantStep, PTL DEF Spec
  <1>2. ApiSpec => [](AnswersTyped /\ ArchivesThere)
    BY <1>1, ApiInvariantInit, ApiInvariantStep, PTL DEF ApiSpec
  <1>3. CatalogInvariant /\ ArchivesThere => ConfirmedArchiveHides
    <2> SUFFICES ASSUME CatalogInvariant, ArchivesThere, Calm,
                        NEW p \in Requests, Succeeded(p), Archives(p),
                        NEW i \in Hidden(answer[p].row)
                 PROVE  ~Active(rows[i])
      BY DEF ConfirmedArchiveHides, Calm
    <2> DEFINE row == answer[p].row
    <2>1. row \in Items /\ rows[row].archived # 0
      BY DEF ArchivesThere
    <2>2. ArchivedHidesSubcategories
      BY DEF CatalogInvariant, NobodyRevives, Calm, Revives, Revivers, Creates, Shielded
    <2>3. CASE i = row
      BY <2>1, <2>3 DEF Active
    <2>4. CASE i \in SubcategoriesOf(row)
      BY <2>1, <2>2, <2>4 DEF ArchivedHidesSubcategories, SubcategoriesOf, Active
    <2> QED
      BY <2>3, <2>4 DEF Hidden
  <1> QED
    BY <1>1, <1>2, <1>3, PTL

\* An edit a client was told had succeeded is in the row for as long as nobody edits the
\* field later, as long as the clock advances from one reading to the next.
THEOREM ConfirmedEditsStay ==
    ASSUME 0 \notin ClockSteps
    PROVE  ApiSpec => []ConfirmedEditsKept
  <1>1. ApiSpec => [](Typed /\ CatalogInvariant)
    BY ApiImplementsCatalog, InvariantInit, InvariantStep, PTL DEF Spec
  <1>2. Typed /\ CatalogInvariant /\ EditsInvariant /\ [Next]_vars => EditsInvariant'
    BY EditsStep
  <1>3. ApiSpec => []EditsInvariant
    BY <1>1, <1>2, ApiImplementsCatalog, InitEdits, PTL DEF Spec
  <1>4. ApiSpec => [](AnswersTyped /\ EditsThere)
    BY <1>1, <1>3, ApiInvariantInit, ApiInvariantStep, PTL DEF ApiSpec
  <1>5. AnswersTyped /\ Typed /\ EditsThere => ConfirmedEditsKept
    <2> SUFFICES ASSUME AnswersTyped, Typed, EditsThere, NEW p \in Requests, Succeeded(p),
                        NEW f \in answer[p].fields
                 PROVE  rows[answer[p].row].field[f] >= answer[p].at
      BY DEF ConfirmedEditsKept
    <2>1. answer[p].row \in Items /\ answer[p].at <= rows[answer[p].row].field[f]
      BY DEF EditsThere
    <2>2. answer[p].at \in Nat /\ f \in Fields /\ rows[answer[p].row].field[f] \in Nat
      BY <2>1 DEF AnswersTyped, Typed, TypeOK, Row
    <2> QED
      BY <2>1, <2>2
  <1> QED
    BY <1>1, <1>4, <1>5, PTL

LEMMA OwnStaysInvariant ==
    0 \notin ClockSteps /\ Typed /\ CatalogInvariant /\ EditsInvariant /\ OwnInvariant
        /\ [Next]_vars
    => OwnInvariant'
  <1> SUFFICES ASSUME 0 \notin ClockSteps, Typed, CatalogInvariant, EditsInvariant, OwnInvariant,
                      [Next]_vars
               PROVE  OwnInvariant'
    OBVIOUS
  <1>1. Typed' /\ Core
    BY StepTyped, InvariantSplit
  <1>2. CASE UNCHANGED vars
    BY <1>2
    DEF vars, OwnInvariant, ArchivesPast, DraftTimes, OwnPassedOver, OwnTimesApart,
        FreshForArchive, Spared, Dated
  <1> QED
    BY <1>1, <1>2, StepOwn DEF Next

\* Restoring a category never brings back a subcategory its owner had archived: the
\* cascade goes by the archive time, and no two requests write the same one as long as
\* the clock advances.
THEOREM OwnArchivesStay ==
    ASSUME 0 \notin ClockSteps
    PROVE  Spec => OwnArchiveKept
  <1> DEFINE Kept == \A s \in Subcategories :
                        rows[s].by = "itself" /\ rows'[s].by = "nobody"
                        => rows'[Parent[s]] = rows[Parent[s]]
  <1>1. ASSUME Typed, Core, OwnInvariant, NEW p \in Requests, Start(p) \/ Progress(p) \/ Abort(p)
        PROVE  Kept
    <2>1. CASE rows' = rows
      BY <2>1
    <2>2. CASE AutocommitWrite(p)
      <3>1. \A i \in Items \ {tgt[p]} : rows'[i] = rows[i]
        BY <2>2 DEF AutocommitWrite, Typed, TypeOK
      <3>2. \A s \in Subcategories : s \in Items /\ Parent[s] \in Items /\ Parent[s] # s
        BY CatalogAssumption DEF Items
      <3> QED
        BY <3>1, <3>2
    <2>3. CASE Commit(p)
      <3>1. \A s \in Subcategories : s \in Items /\ (lock[s] = p => rows[s].by # "itself")
        BY <1>1, CatalogAssumption DEF OwnInvariant, OwnPassedOver, Items
      <3> QED
        BY <2>3, <3>1 DEF Commit, Visible
    <2>4. CASE WriteRow(p)
      BY <1>1, <2>1, <2>2, <2>4, WriteRowCases DEF Quiet, LockingWrite, tables
    <2>5. CASE SelectChildren(p) \/ WriteChildren(p) \/ Rollback(p) \/ Abort(p)
      BY <2>1, <2>5 DEF SelectChildren, WriteChildren, Rollback, Abort, Discard, tables
    <2>6. CASE Start(p) \/ FindParent(p) \/ SelectRow(p)
      BY <1>1, <2>1, <2>6, StartQuiet, FindParentQuiet, SelectRowQuiet DEF Quiet, tables
    <2> QED
      BY <1>1, <2>3, <2>4, <2>5, <2>6 DEF Progress
  <1>2. Typed /\ CatalogInvariant /\ OwnInvariant /\ [Next]_vars => [Kept]_vars
    BY <1>1, InvariantSplit DEF Next
  <1>3. Spec => [](Typed /\ CatalogInvariant)
    BY InvariantInit, InvariantStep, PTL DEF Spec
  <1>4. Typed /\ CatalogInvariant /\ EditsInvariant /\ [Next]_vars => EditsInvariant'
    BY EditsStep
  <1>5. Typed /\ CatalogInvariant /\ EditsInvariant /\ OwnInvariant /\ [Next]_vars => OwnInvariant'
    BY OwnStaysInvariant
  <1>6. Spec => [](EditsInvariant /\ OwnInvariant)
    BY <1>3, <1>4, <1>5, InitEdits, InitOwn, PTL DEF Spec
  <1>7. Spec => [][Kept]_vars
    BY <1>2, <1>3, <1>6, PTL DEF Spec
  <1> QED
    BY <1>7 DEF OwnArchiveKept

----------------------------------------------------------------------------
(***************************************************************************)
(* RestoreInvariant is inductive as long as no two requests restore the    *)
(* same category at the same time. It needs no clock: a category gets a    *)
(* new time only when it is active, and a restore reads the time when it   *)
(* is not.                                                                 *)
(***************************************************************************)
\* A row that p does not hold counts as archived with its category only if it was before.
HidesNothing(p) ==
    \A s \in Subcategories :
        rows'[s].by = "category" /\ lock[s] # p =>
            /\ rows[s].by = "category"
            /\ rows'[s].archived = rows[s].archived
            /\ rows'[s].present

\* The category a request restores keeps its time.
KeepsTimes(p) ==
    \A q \in Requests \ {p} : kind[q] = "restoreCategory" /\ Dated(q) =>
        /\ rows'[tgt[q]].present
        /\ rows'[tgt[q]].archived = rows[tgt[q]].archived

\* An id becomes a row only if p was to create it.
CreatesOwn(p) ==
    \A i \in Items :
        rows'[i].present => rows[i].present \/ (Writing(p) /\ Creates(p) /\ i = tgt[p])

\* What is to be shown of the request that makes a step.
RestorePart(p) ==
    /\ SeenAsArchived(p) /\ FoundActive(p) /\ SelectedToRestore(p) /\ SweptTogether(p)
    /\ IdIsNew(p) /\ OnlyRestoreReadsParent(p)

LEMMA HeldByAnother ==
    ASSUME Typed, Core, NEW p \in Requests, NEW q \in Requests \ {p}, Transacting(q),
           NEW s \in SubcategoriesOf(tgt[q])
    PROVE  lock[s] # p /\ lock[tgt[q]] = q
  <1>1. lock[tgt[q]] = q
    BY DEF Core, RequestInvariant, CategoryDrafted
  <1> QED
    BY <1>1, HeldInCategory DEF SubcategoriesOf

\* The part of another request is kept.
LEMMA OthersRestore ==
    ASSUME Typed, Core, RestoreInvariant, NEW p \in Requests, OthersKept(p), HeldKept(p),
           HidesNothing(p), KeepsTimes(p), CreatesOwn(p), IdIsNew(p)',
           NEW q \in Requests \ {p}
    PROVE  RestorePart(q)'
  <1>1. /\ kind' = kind /\ pc'[q] = pc[q] /\ tgt'[q] = tgt[q] /\ seen'[q] = seen[q]
        /\ now'[q] = now[q] /\ matched'[q] = matched[q] /\ q # p /\ q # Free
    BY CatalogAssumption DEF OthersKept
  <1>2. RestorePart(q)
    BY DEF RestoreInvariant, RestorePart
  <1>3. (Dated(q)' <=> Dated(q)) /\ (Writing(q)' <=> Writing(q)) /\ (Transacting(q)' <=> Transacting(q))
    BY <1>1 DEF Dated, Writing, Transacting
  <1>4. Transacting(q) =>
            /\ tgt[q] \in Items /\ lock[tgt[q]] = q /\ lock'[tgt[q]] = q
            /\ rows'[tgt[q]] = rows[tgt[q]] /\ draft'[tgt[q]] = draft[tgt[q]]
    BY <1>1, TargetItem
    DEF Transacting, Core, RequestInvariant, CategoryDrafted, HeldKept
  <1>5. SeenAsArchived(q)'
    BY <1>1, <1>2, <1>3 DEF RestorePart, SeenAsArchived, KeepsTimes
  <1>6. FoundActive(q)'
    BY <1>1, <1>2, <1>3, <1>4 DEF RestorePart, FoundActive
  <1>7. SelectedToRestore(q)'
    <2>1. ASSUME NEW s \in SubcategoriesOf(tgt[q]), kind[q] = "restoreCategory",
                 pc[q] = "sweep", rows'[s].by = "category"
          PROVE  s \in matched[q]
      <3>1. lock[s] # p
        BY <2>1, HeldByAnother DEF Transacting
      <3>2. rows[s].by = "category"
        BY <2>1, <3>1 DEF HidesNothing, SubcategoriesOf
      <3> QED
        BY <1>2, <2>1, <3>2 DEF RestorePart, SelectedToRestore
    <2> QED
      BY <1>1, <2>1 DEF SelectedToRestore, SubcategoriesOf
  <1>8. SweptTogether(q)'
    <2>1. ASSUME NEW s \in SubcategoriesOf(tgt[q]), pc[q] = "end"
          PROVE  Together(Visible(q, s)', draft'[tgt[q]])
      <3>1. s \in Subcategories /\ s \in Items /\ lock[s] # p
        BY <2>1, HeldByAnother, ParentType DEF Transacting, SubcategoriesOf
      <3>2. Together(Visible(q, s), draft[tgt[q]]) /\ draft'[tgt[q]] = draft[tgt[q]]
        BY <1>2, <1>4, <2>1 DEF RestorePart, SweptTogether, Transacting
      <3>3. CASE lock[s] = q
        BY <1>1, <3>1, <3>2, <3>3 DEF HeldKept, Visible
      <3>4. CASE lock[s] # q
        <4>1. Visible(q, s) = rows[s] /\ Visible(q, s)' = rows'[s]
          BY <1>1, <3>1, <3>4 DEF HeldKept, Visible
        <4> QED
          BY <3>1, <3>2, <4>1 DEF HidesNothing, Together
      <3> QED
        BY <3>3, <3>4
    <2> QED
      BY <1>1, <2>1 DEF SweptTogether, SubcategoriesOf
  <1>9. IdIsNew(q)'
    <2>1. Writing(q) => tgt[q] \in Items
      BY TargetItem DEF Writing
    <2>2. \A r \in Requests \ {p} :
            (Writing(r)' <=> Writing(r)) /\ (Creates(r)' <=> Creates(r)) /\ tgt'[r] = tgt[r]
      BY DEF OthersKept, Writing, Creates
    <2>3. IdIsNew(q) /\ IdIsNew(p)
      BY DEF RestoreInvariant
    <2>4. Writing(q) /\ Creates(q) => ~rows'[tgt[q]].present
      BY <1>1, <2>1, <2>3 DEF IdIsNew, CreatesOwn
    <2>5. ASSUME Writing(q)', Creates(q)', NEW r \in Requests \ {q}, Writing(r)', Creates(r)'
          PROVE  tgt'[r] # tgt'[q]
      <3>1. CASE r = p
        BY <1>1, <2>5, <3>1 DEF IdIsNew
      <3>2. CASE r # p
        BY <1>1, <2>2, <2>3, <2>5, <3>2 DEF IdIsNew
      <3> QED
        BY <3>1, <3>2
    <2> QED
      BY <1>1, <2>2, <2>4, <2>5 DEF IdIsNew
  <1>10. OnlyRestoreReadsParent(q)'
    BY <1>1, <1>2 DEF RestorePart, OnlyRestoreReadsParent
  <1> QED
    BY <1>5, <1>6, <1>7, <1>8, <1>9, <1>10 DEF RestorePart

\* What remains to be shown of a step of p.
LEMMA RestoreOfStep ==
    ASSUME Typed, Core, RestoreInvariant, NEW p \in Requests, OthersKept(p), HeldKept(p),
           HidesNothing(p), KeepsTimes(p), CreatesOwn(p), HiddenTogether(rows)',
           \A i \in Items : draft'[i].present = rows'[i].present, RestorePart(p)'
    PROVE  RestoreInvariant'
  <1>1. \A q \in Requests \ {p} : RestorePart(q)'
    BY OthersRestore DEF RestorePart
  <1>2. \A q \in Requests : RestorePart(q)'
    BY <1>1
  <1> QED
    BY <1>2 DEF RestoreInvariant, RestorePart

\* A step that leaves the rows as they are.
LEMMA SameRowsRestore ==
    ASSUME RestoreInvariant, NEW p \in Requests, rows' = rows
    PROVE  HidesNothing(p) /\ CreatesOwn(p) /\ HiddenTogether(rows)'
  <1>1. \A s \in Subcategories : rows[s].by = "category" => rows[s].present
    BY DEF RestoreInvariant, HiddenTogether, Together
  <1> QED
    BY <1>1 DEF RestoreInvariant, HidesNothing, CreatesOwn, HiddenTogether

LEMMA SameRowsKeepTimes ==
    ASSUME RestoreInvariant, NEW p \in Requests, rows' = rows
    PROVE  KeepsTimes(p)
  BY DEF RestoreInvariant, SeenAsArchived, KeepsTimes

LEMMA QuietRestore ==
    ASSUME Typed, Core, RestoreInvariant, NEW p \in Requests, OthersKept(p), Quiet(p),
           SeenAsArchived(p)', IdIsNew(p)', OnlyRestoreReadsParent(p)'
    PROVE  RestoreInvariant'
  <1>1. rows' = rows /\ HeldKept(p) /\ \A i \in Items : draft'[i].present = rows'[i].present
    BY DEF Quiet, HeldKept, RestoreInvariant, tables
  <1>2. FoundActive(p)' /\ SelectedToRestore(p)' /\ SweptTogether(p)'
    BY DEF Quiet, FoundActive, SelectedToRestore, SweptTogether, Transacting
  <1>3. RestorePart(p)'
    BY <1>2 DEF RestorePart
  <1> QED
    BY <1>1, <1>3, SameRowsRestore, SameRowsKeepTimes, RestoreOfStep

\* A step with which p returns, and no more.
LEMMA ReturnedRestore ==
    ASSUME Typed, NEW p \in Requests, Return(p)
    PROVE  RestorePart(p)'
  <1>1. pc'[p] = "done"
    BY DEF Return, Typed, TypeOK
  <1> QED
    BY <1>1
    DEF RestorePart, SeenAsArchived, FoundActive, SelectedToRestore, SweptTogether, IdIsNew,
        OnlyRestoreReadsParent, Dated, Writing, Transacting

LEMMA ReturnUnchangedRestore ==
    ASSUME Typed, Core, RestoreInvariant, NEW p \in Requests, OthersKept(p), Quiet(p),
           ReturnUnchanged(p)
    PROVE  RestoreInvariant'
  BY QuietRestore, ReturnedRestore DEF ReturnUnchanged, RestorePart

\* A request that addresses a row it has not read before.
LEMMA BeginRestore ==
    ASSUME Typed, Core, RestoreInvariant, NEW p \in Requests, OthersKept(p), Quiet(p),
           NEW i, NEW fields, NEW next \in {"write", "parent"}, Begin(p, i, fields, next),
           next = "parent" => kind[p] = "restoreSubcategory",
           kind[p] = "restoreCategory" =>
              i \in Items /\ rows[i].present /\ ~Active(rows[i]),
           Creates(p) => ~rows[i].present /\ \A q \in Requests : tgt[q] # i
    PROVE  RestoreInvariant'
  <1>1. /\ pc'[p] = next /\ tgt'[p] = i /\ seen'[p] = rows[i] /\ rows' = rows /\ kind' = kind
        /\ \A q \in Requests \ {p} : tgt'[q] = tgt[q]
    BY DEF Begin, tables, Typed, TypeOK
  <1>2. SeenAsArchived(p)'
    BY <1>1 DEF SeenAsArchived, Active
  <1>3. IdIsNew(p)'
    BY <1>1 DEF IdIsNew, Creates
  <1>4. OnlyRestoreReadsParent(p)'
    BY <1>1 DEF OnlyRestoreReadsParent
  <1> QED
    BY <1>2, <1>3, <1>4, QuietRestore

LEMMA StartRestore ==
    ASSUME Typed, Core, RestoreInvariant, NEW p \in Requests, OthersKept(p), Start(p)
    PROVE  RestoreInvariant'
  <1>1. Quiet(p)
    BY StartQuiet
  <1>2. CASE FindForCreate(p)
    <2>1. kind[p] # "restoreCategory"
      BY <1>2 DEF FindForCreate, Creates
    <2> QED
      BY <1>1, <1>2, <2>1, BeginRestore, ReturnUnchangedRestore DEF FindForCreate
  <1>3. CASE FindForUpdate(p)
    <2>1. kind[p] # "restoreCategory" /\ ~Creates(p)
      BY <1>3 DEF FindForUpdate, Updates, Creates
    <2> QED
      BY <1>1, <1>3, <2>1, BeginRestore, ReturnUnchangedRestore DEF FindForUpdate
  <1>4. CASE FindForArchive(p)
    <2>1. kind[p] # "restoreCategory" /\ ~Creates(p)
      BY <1>4 DEF FindForArchive, Archives, Creates
    <2> QED
      BY <1>1, <1>4, <2>1, BeginRestore, ReturnUnchangedRestore DEF FindForArchive
  <1>5. CASE FindForRestoreCategory(p)
    <2>1. ~Creates(p) /\ Categories \subseteq Items
      BY <1>5 DEF FindForRestoreCategory, Creates, Items
    <2> QED
      BY <1>1, <1>5, <2>1, BeginRestore, ReturnUnchangedRestore DEF FindForRestoreCategory
  <1>6. CASE FindForRestoreSubcategory(p)
    <2>1. ~Creates(p)
      BY <1>6 DEF FindForRestoreSubcategory, Creates
    <2> QED
      BY <1>1, <1>6, <2>1, BeginRestore, ReturnUnchangedRestore DEF FindForRestoreSubcategory
  <1> QED
    BY <1>2, <1>3, <1>4, <1>5, <1>6 DEF Start

LEMMA FindParentRestore ==
    ASSUME Typed, Core, RestoreInvariant, NEW p \in Requests, OthersKept(p), FindParent(p)
    PROVE  RestoreInvariant'
  <1>1. Quiet(p)
    BY FindParentQuiet
  <1>2. CASE ReturnUnchanged(p)
    BY <1>1, <1>2, ReturnUnchangedRestore
  <1>3. CASE /\ pc' = [pc EXCEPT ![p] = "write"]
             /\ UNCHANGED <<tables, kind, tgt, seen, edits, matched>>
    <2>1. kind[p] = "restoreSubcategory" /\ pc'[p] = "write"
      BY <1>3 DEF FindParent, RestoreInvariant, OnlyRestoreReadsParent, Typed, TypeOK
    <2>2. SeenAsArchived(p)' /\ IdIsNew(p)' /\ OnlyRestoreReadsParent(p)'
      BY <1>3, <2>1 DEF SeenAsArchived, IdIsNew, Creates, OnlyRestoreReadsParent
    <2> QED
      BY <1>1, <2>2, QuietRestore
  <1> QED
    BY <1>2, <1>3 DEF FindParent

\* A statement that selects its row, or finds none to write.
LEMMA SelectRowRestore ==
    ASSUME Typed, Core, RestoreInvariant, NEW p \in Requests, OthersKept(p), Quiet(p),
           pc[p] \in {"write", "apply"}, NoRowAffected(p) \/ SelectRow(p)
    PROVE  RestoreInvariant'
  <1>1. CASE ReturnUnchanged(p)
    BY <1>1, ReturnUnchangedRestore
  <1>2. ASSUME NEW next \in {"apply", "fail"}, pc' = [pc EXCEPT ![p] = next],
               UNCHANGED <<tables, clock, kind, tgt, seen, edits, now, matched>>
        PROVE  RestoreInvariant'
    <2>1. pc'[p] = next /\ Writing(p) /\ Dated(p)
      BY <1>2 DEF Typed, TypeOK, Writing, Dated
    <2>2. SeenAsArchived(p)'
      BY <1>2, <2>1 DEF RestoreInvariant, SeenAsArchived, tables
    <2>3. IdIsNew(p)'
      BY <1>2, <2>1 DEF RestoreInvariant, IdIsNew, Creates, Writing, OthersKept, tables
    <2>4. OnlyRestoreReadsParent(p)'
      BY <2>1 DEF OnlyRestoreReadsParent
    <2> QED
      BY <2>2, <2>3, <2>4, QuietRestore
  <1> QED
    BY <1>1, <1>2 DEF SelectRow, NoRowAffected

\* What the one statement of a request without a cascade leaves of a row.
LEMMA WrittenHides ==
    ASSUME Typed, NEW p \in Requests, NEW i \in Items, ~Cascades(p), Selects(p, rows[i])
    PROVE  LET new == Written(p, rows[i]) IN
           /\ new.present
           /\ new.by = "category" =>
                 rows[i].by = "category" /\ new.archived = rows[i].archived
           /\ i \in Categories /\ i \in Addressable(p) /\ rows[i].present =>
                 Creates(p) \/ new.archived = rows[i].archived
  <1> DEFINE new == Written(p, rows[i])
  <1>1. rows[i] \in Row /\ kind[p] \in CategoryKinds \cup SubcategoryKinds
    BY DEF Typed, TypeOK
  <1>2. CASE Creates(p)
    <2>1. new.present /\ new.by = "nobody"
      BY <1>2 DEF Written, Creates, Updates, Archives
    <2> QED
      BY <1>2, <2>1
  <1>3. CASE ~Creates(p) /\ Updates(p)
    <2>1. new = [rows[i] EXCEPT !.ver = now[p], !.field = Merged(p)]
      BY <1>3 DEF Written, Creates, Updates, Archives
    <2>2. new.present = rows[i].present /\ new.by = rows[i].by /\ new.archived = rows[i].archived
      BY <1>1, <2>1 DEF Row
    <2> QED
      BY <1>3, <2>2 DEF Selects
  <1>4. CASE ~Creates(p) /\ ~Updates(p)
    <2>1. new.present /\ new.by # "category"
      BY <1>1, <1>4 DEF Written, Selects, Row
    <2>2. i \in Addressable(p) => i \notin Categories
      BY <1>1, <1>4, CatalogAssumption
      DEF Creates, Updates, Cascades, Addressable, IsCategoryRequest, CategoryKinds,
          SubcategoryKinds
    <2> QED
      BY <2>1, <2>2
  <1> QED
    BY <1>2, <1>3, <1>4

LEMMA AutocommitRestore ==
    ASSUME Typed, Core, RestoreInvariant, NEW p \in Requests, OthersKept(p), AutocommitWrite(p)
    PROVE  RestoreInvariant'
  <1> DEFINE i == tgt[p]
             new == Written(p, rows[i])
  <1>1. /\ i \in Items /\ i \in Addressable(p) /\ Writing(p) /\ ~Cascades(p) /\ Return(p)
        /\ Selects(p, rows[i]) /\ lock[i] = Free
        /\ rows'[i] = new /\ draft'[i] = new
        /\ \A j \in Items \ {i} : rows'[j] = rows[j] /\ draft'[j] = draft[j]
    BY DEF AutocommitWrite, Writing, Typed, TypeOK, Targeted
  <1>2. /\ new.present
        /\ new.by = "category" => rows[i].by = "category" /\ new.archived = rows[i].archived
        /\ i \in Categories /\ rows[i].present =>
              Creates(p) \/ new.archived = rows[i].archived
    BY <1>1, WrittenHides
  <1>3. Creates(p) => ~rows[i].present
    BY <1>1 DEF RestoreInvariant, IdIsNew
  <1>4. rows[i].present \/ Creates(p)
    BY <1>1 DEF Selects
  <1>5. HeldKept(p)
    BY DEF AutocommitWrite, HeldKept, Typed, TypeOK
  <1>6. \A j \in Items : draft'[j].present = rows'[j].present
    BY <1>1 DEF RestoreInvariant
  <1>7. ASSUME NEW c \in Categories, rows[c].present
        PROVE  rows'[c].present /\ rows'[c].archived = rows[c].archived
    <2>1. c \in Items
      BY DEF Items
    <2> QED
      BY <1>1, <1>2, <1>3, <1>7, <2>1
  <1>8. ASSUME NEW s \in Subcategories, rows'[s].by = "category"
        PROVE  /\ rows[s].by = "category" /\ rows'[s].archived = rows[s].archived
               /\ rows'[s].present
    <2>1. s \in Items
      BY DEF Items
    <2>2. CASE s = i
      BY <1>1, <1>2, <1>8, <2>2
    <2>3. CASE s # i
      BY <1>1, <1>8, <2>1, <2>3 DEF RestoreInvariant, HiddenTogether, Together
    <2> QED
      BY <2>2, <2>3
  <1>9. HidesNothing(p)
    BY <1>8 DEF HidesNothing
  <1>10. KeepsTimes(p)
    <2>1. ASSUME NEW q \in Requests \ {p}, kind[q] = "restoreCategory", Dated(q)
          PROVE  tgt[q] \in Categories /\ rows[tgt[q]].present
      BY <2>1, CascadeTarget DEF Cascades, Dated, RestoreInvariant, SeenAsArchived
    <2> QED
      BY <1>7, <2>1 DEF KeepsTimes
  <1>11. CreatesOwn(p)
    BY <1>1, <1>4 DEF CreatesOwn
  <1>12. HiddenTogether(rows)'
    BY <1>7, <1>8, ParentType DEF RestoreInvariant, HiddenTogether, Together
  <1> QED
    BY <1>1, <1>5, <1>6, <1>9, <1>10, <1>11, <1>12, ReturnedRestore, RestoreOfStep

LEMMA LockingRestore ==
    ASSUME Typed, Core, RestoreInvariant, NEW p \in Requests, OthersKept(p), LockingWrite(p)
    PROVE  RestoreInvariant'
  <1> DEFINE i == tgt[p]
  <1>1. /\ i \in Items /\ rows[i] \in Row /\ rows' = rows /\ Dated(p) /\ Cascades(p)
        /\ Selects(p, rows[i]) /\ draft'[i] = Written(p, rows[i])
        /\ \A j \in Items \ {i} : draft'[j] = draft[j]
        /\ pc'[p] = "cascade" /\ UNCHANGED <<kind, tgt, seen, now>>
    BY DEF LockingWrite, Dated, Typed, TypeOK
  <1>2. HeldKept(p)
    BY DEF LockingWrite, HeldKept, Typed, TypeOK
  <1>3. /\ Written(p, rows[i]).present = rows[i].present
        /\ kind[p] = "archiveCategory" => Written(p, rows[i]).archived = now[p]
    BY <1>1 DEF Written, Cascades, Creates, Updates, Archives, Row
  <1>4. \A j \in Items : draft'[j].present = rows'[j].present
    BY <1>1, <1>3 DEF RestoreInvariant
  <1>5. SeenAsArchived(p)'
    BY <1>1 DEF RestoreInvariant, SeenAsArchived
  <1>6. FoundActive(p)'
    BY <1>1, <1>3 DEF FoundActive, Selects, Archives, Active
  <1>7. /\ SelectedToRestore(p)' /\ SweptTogether(p)' /\ IdIsNew(p)'
        /\ OnlyRestoreReadsParent(p)'
    BY <1>1 DEF SelectedToRestore, SweptTogether, IdIsNew, OnlyRestoreReadsParent, Writing
  <1>8. RestorePart(p)'
    BY <1>5, <1>6, <1>7 DEF RestorePart
  <1> QED
    BY <1>1, <1>2, <1>4, <1>8, SameRowsRestore, SameRowsKeepTimes, RestoreOfStep

LEMMA WriteRowRestore ==
    ASSUME Typed, Core, RestoreInvariant, NEW p \in Requests, OthersKept(p), WriteRow(p)
    PROVE  RestoreInvariant'
  <1>1. pc[p] = "apply" /\ tgt[p] \in Items
    BY TargetItem DEF WriteRow
  <1>2. lock[tgt[p]] = Free
    BY <1>1, IdleHoldsNothing DEF WriteRow, RowFree, Transacting
  <1>3. CASE ~Selects(p, rows[tgt[p]])
    <2>1. NoRowAffected(p)
      BY <1>3 DEF WriteRow
    <2> QED
      BY <1>1, <2>1, NoRowAffectedQuiet, SelectRowRestore
  <1>4. CASE Selects(p, rows[tgt[p]])
    BY <1>1, <1>2, <1>4, AutocommitRestore, LockingRestore
    DEF WriteRow, CommitsAtOnce, AutocommitWrite, LockingWrite
  <1> QED
    BY <1>3, <1>4

\* The cascade of a restore selects by the time of the category.
LEMMA SelectChildrenRestore ==
    ASSUME Typed, Core, RestoreInvariant, NEW p \in Requests, OthersKept(p), SelectChildren(p)
    PROVE  RestoreInvariant'
  <1>1. /\ pc[p] = "cascade" /\ pc'[p] = "sweep" /\ UNCHANGED <<tables, kind, tgt, seen, now>>
        /\ matched'[p] = {s \in SubcategoriesOf(tgt[p]) : InCascade(p, Visible(p, s))}
    BY DEF SelectChildren, Typed, TypeOK
  <1>2. Dated(p) /\ Transacting(p) /\ RestorePart(p)
    BY <1>1 DEF Dated, Transacting, RestoreInvariant, RestorePart
  <1>3. HeldKept(p) /\ \A j \in Items : draft'[j].present = rows'[j].present
    BY <1>1 DEF HeldKept, RestoreInvariant, tables
  <1>4. SeenAsArchived(p)' /\ FoundActive(p)'
    BY <1>1, <1>2 DEF RestorePart, SeenAsArchived, FoundActive, tables
  <1>5. SelectedToRestore(p)'
    <2>1. ASSUME NEW s \in SubcategoriesOf(tgt[p]), kind[p] = "restoreCategory",
                 rows[s].by = "category"
          PROVE  s \in matched'[p]
      <3>1. s \in Subcategories /\ Parent[s] = tgt[p] /\ lock[s] # p
        BY <1>1, HeldInCategory DEF SubcategoriesOf
      <3>2. Together(rows[s], rows[tgt[p]])
        BY <3>1 DEF RestoreInvariant, HiddenTogether
      <3>3. rows[tgt[p]].archived = seen[p].archived
        BY <1>2, <2>1 DEF RestorePart, SeenAsArchived
      <3> QED
        BY <1>1, <2>1, <3>1, <3>2, <3>3 DEF Together, InCascade, Archives, Visible
    <2> QED
      BY <1>1, <2>1 DEF SelectedToRestore, SubcategoriesOf, tables
  <1>6. SweptTogether(p)' /\ IdIsNew(p)' /\ OnlyRestoreReadsParent(p)'
    BY <1>1 DEF SweptTogether, IdIsNew, OnlyRestoreReadsParent, Writing
  <1>7. RestorePart(p)'
    BY <1>4, <1>5, <1>6 DEF RestorePart
  <1> QED
    BY <1>1, <1>3, <1>7, SameRowsRestore, SameRowsKeepTimes, RestoreOfStep DEF tables

\* After the sweep, what is still archived with the category goes with it.
LEMMA SweepsTogether ==
    ASSUME Typed, Core, RestoreInvariant, NEW p \in Requests, WriteChildren(p),
           NEW s \in SubcategoriesOf(tgt[p])
    PROVE  Together(Visible(p, s)', draft[tgt[p]])
  <1> DEFINE hit == {t \in matched[p] : InCascade(p, rows[t])}
  <1>1. /\ pc[p] = "sweep" /\ rows' = rows
        /\ \A j \in Items : j \in hit => draft'[j] = Cascaded(p, rows[j]) /\ lock'[j] = p
        /\ \A j \in Items : j \notin hit => draft'[j] = draft[j] /\ lock'[j] = lock[j]
    BY DEF WriteChildren, Typed, TypeOK
  <1>2. s \in Subcategories /\ s \in Items /\ Parent[s] = tgt[p] /\ rows[s] \in Row /\ lock[s] # p
    BY <1>1, ParentType, HeldInCategory DEF SubcategoriesOf, Typed, TypeOK
  <1>3. Dated(p) /\ Transacting(p) /\ Cascades(p) /\ draft[tgt[p]].present /\ RestorePart(p)
        /\ now[p] \in Nat /\ now[p] > 0
    BY <1>1
    DEF Dated, Transacting, Core, RequestInvariant, ClockRead, CategoryDrafted,
        RestoreInvariant, RestorePart, Typed, TypeOK
  <1>4. Together(rows[s], rows[tgt[p]])
    BY <1>2 DEF RestoreInvariant, HiddenTogether
  <1>5. CASE kind[p] = "archiveCategory"
    <2>1. Archives(p) /\ rows[tgt[p]].archived = 0 /\ draft[tgt[p]].archived = now[p]
      BY <1>3, <1>5 DEF Archives, RestorePart, FoundActive
    <2>2. CASE s \in hit
      <3>1. Visible(p, s)' = Cascaded(p, rows[s]) /\ rows[s].present
        BY <1>1, <1>2, <2>2 DEF Visible, InCascade
      <3>2. Cascaded(p, rows[s]).present /\ Cascaded(p, rows[s]).archived = now[p]
        BY <1>2, <2>1, <3>1 DEF Cascaded, Row
      <3> QED
        BY <1>3, <2>1, <3>1, <3>2 DEF Together
    <2>3. CASE s \notin hit
      <3>1. Visible(p, s)' = rows[s]
        BY <1>1, <1>2, <2>3 DEF Visible
      <3> QED
        BY <1>4, <2>1, <3>1 DEF Together
    <2> QED
      BY <2>2, <2>3
  <1>6. CASE kind[p] = "restoreCategory"
    <2>1. ~Archives(p) /\ rows[tgt[p]].archived = seen[p].archived
      BY <1>3, <1>6 DEF Archives, RestorePart, SeenAsArchived
    <2>2. CASE s \in hit
      <3>1. Visible(p, s)' = Cascaded(p, rows[s])
        BY <1>1, <1>2, <2>2 DEF Visible
      <3>2. Cascaded(p, rows[s]).by = "nobody"
        BY <1>2, <2>1 DEF Cascaded, Row
      <3> QED
        BY <3>1, <3>2 DEF Together
    <2>3. CASE s \notin hit
      <3>1. Visible(p, s)' = rows[s]
        BY <1>1, <1>2, <2>3 DEF Visible
      <3>2. ASSUME rows[s].by = "category" PROVE s \in hit
        <4>1. s \in matched[p]
          BY <1>1, <1>3, <1>6, <3>2 DEF RestorePart, SelectedToRestore
        <4> QED
          BY <1>4, <2>1, <3>2, <4>1 DEF InCascade, Together
      <3> QED
        BY <2>3, <3>1, <3>2 DEF Together
    <2> QED
      BY <2>2, <2>3
  <1> QED
    BY <1>3, <1>5, <1>6 DEF Cascades

LEMMA WriteChildrenRestore ==
    ASSUME Typed, Core, RestoreInvariant, NEW p \in Requests, OthersKept(p), WriteChildren(p)
    PROVE  RestoreInvariant'
  <1> DEFINE hit == {s \in matched[p] : InCascade(p, rows[s])}
  <1>1. /\ pc[p] = "sweep" /\ pc'[p] = "end" /\ rows' = rows
        /\ UNCHANGED <<kind, tgt, seen, now>>
        /\ \A j \in Items : j \in hit => draft'[j] = Cascaded(p, rows[j]) /\ lock'[j] = p
        /\ \A j \in Items : j \notin hit => draft'[j] = draft[j] /\ lock'[j] = lock[j]
    BY DEF WriteChildren, Typed, TypeOK
  <1>2. Dated(p) /\ Transacting(p) /\ RestorePart(p) /\ tgt[p] \in Items /\ tgt[p] \notin hit
        /\ draft'[tgt[p]] = draft[tgt[p]]
    BY <1>1, SweptRows DEF Dated, Transacting, RestoreInvariant, RestorePart
  <1>3. HeldKept(p)
    BY <1>1, SweptRows DEF HeldKept
  <1>4. \A j \in Items : draft'[j].present = rows'[j].present
    <2>1. \A j \in Items : Cascaded(p, rows[j]).present = rows[j].present
      BY DEF Cascaded, Row, Typed, TypeOK
    <2> QED
      BY <1>1, <2>1 DEF RestoreInvariant
  <1>5. SeenAsArchived(p)' /\ FoundActive(p)'
    BY <1>1, <1>2 DEF RestorePart, SeenAsArchived, FoundActive
  <1>6. SweptTogether(p)'
    BY <1>1, <1>2, SweepsTogether DEF SweptTogether, SubcategoriesOf
  <1>7. SelectedToRestore(p)' /\ IdIsNew(p)' /\ OnlyRestoreReadsParent(p)'
    BY <1>1 DEF SelectedToRestore, IdIsNew, OnlyRestoreReadsParent, Writing
  <1>8. RestorePart(p)'
    BY <1>5, <1>6, <1>7 DEF RestorePart
  <1> QED
    BY <1>1, <1>3, <1>4, <1>8, SameRowsRestore, SameRowsKeepTimes, RestoreOfStep

\* What p commits goes together, and the category is not one another request restores:
\* that would restore it at the same time or has found it archived.
LEMMA CommitRestore ==
    ASSUME Typed, Core, RestoreInvariant, RestoresApart, NEW p \in Requests, OthersKept(p),
           Commit(p)
    PROVE  RestoreInvariant'
  <1>1. /\ pc[p] = "end" /\ Transacting(p) /\ draft' = draft /\ Return(p)
        /\ \A j \in Items : rows'[j] = Visible(p, j)
    BY DEF Commit, Transacting
  <1>2. /\ Cascades(p) /\ lock[tgt[p]] = p /\ tgt[p] \in Categories /\ tgt[p] \in Items
        /\ RestorePart(p) /\ p # Free
    BY <1>1, CascadeTarget, CatalogAssumption
    DEF Core, RequestInvariant, CategoryDrafted, RestoreInvariant, RestorePart, Transacting, Items
  <1>3. HeldKept(p)
    BY CommitHeld
  <1>4. \A j \in Items : draft'[j].present = rows'[j].present
    BY <1>1, CatalogAssumption DEF RestoreInvariant, Visible
  <1>5. \A c \in Categories : c # tgt[p] => c \in Items /\ lock[c] # p /\ rows'[c] = rows[c]
    BY <1>1, CatalogAssumption
    DEF Visible, Items, Core, RequestInvariant, LocksOfCascade, SubcategoriesOf
  <1>6. HidesNothing(p)
    <2>1. \A s \in Subcategories : lock[s] # p => rows'[s] = rows[s]
      BY <1>1 DEF Visible, Items
    <2> QED
      BY <2>1 DEF HidesNothing, RestoreInvariant, HiddenTogether, Together
  <1>7. KeepsTimes(p)
    <2>1. ASSUME NEW q \in Requests \ {p}, kind[q] = "restoreCategory", Dated(q)
          PROVE  /\ tgt[q] \in Categories /\ tgt[q] # tgt[p] /\ rows[tgt[q]].present
      <3>1. tgt[q] \in Categories /\ rows[tgt[q]].present /\ rows[tgt[q]].archived # 0
        BY <2>1, CascadeTarget DEF Cascades, Dated, RestoreInvariant, SeenAsArchived
      <3>2. Dated(p)
        BY <1>1 DEF Dated
      <3> QED
        BY <1>1, <1>2, <2>1, <3>1, <3>2 DEF RestoresApart, Cascades, RestorePart, FoundActive
    <2> QED
      BY <1>5, <2>1 DEF KeepsTimes
  <1>8. CreatesOwn(p)
    BY <1>1 DEF CreatesOwn, RestoreInvariant, Visible
  <1>9. HiddenTogether(rows)'
    <2>1. ASSUME NEW s \in Subcategories PROVE Together(rows'[s], rows'[Parent[s]])
      <3>1. CASE Parent[s] = tgt[p]
        BY <1>1, <1>2, <3>1, ParentType
        DEF RestorePart, SweptTogether, SubcategoriesOf, Visible
      <3>2. CASE Parent[s] # tgt[p]
        BY <1>1, <1>5, <3>2, ParentType, HeldInCategory
        DEF RestoreInvariant, HiddenTogether, Visible
      <3> QED
        BY <3>1, <3>2
    <2> QED
      BY <2>1 DEF HiddenTogether
  <1> QED
    BY <1>1, <1>3, <1>4, <1>6, <1>7, <1>8, <1>9, ReturnedRestore, RestoreOfStep

LEMMA DiscardRestore ==
    ASSUME Typed, Core, RestoreInvariant, NEW p \in Requests, OthersKept(p), Discard(p)
    PROVE  RestoreInvariant'
  <1>1. HeldKept(p) /\ rows' = rows /\ Return(p)
    BY DEF Discard, HeldKept, Unlock
  <1>2. \A j \in Items : draft'[j].present = rows'[j].present
    BY DEF Discard, RestoreInvariant
  <1> QED
    BY <1>1, <1>2, SameRowsRestore, SameRowsKeepTimes, ReturnedRestore, RestoreOfStep

LEMMA StepRestore ==
    ASSUME Typed, Typed', Core, RestoreInvariant, RestoresApart, NEW p \in Requests,
           Start(p) \/ Progress(p) \/ Abort(p)
    PROVE  RestoreInvariant'
  <1>1. OthersKept(p)
    BY StepKeepsOthers
  <1>2. CASE Start(p)
    BY <1>1, <1>2, StartRestore
  <1>3. CASE FindParent(p)
    BY <1>1, <1>3, FindParentRestore
  <1>4. CASE SelectRow(p)
    BY <1>1, <1>4, SelectRowQuiet, SelectRowRestore DEF SelectRow
  <1>5. CASE WriteRow(p)
    BY <1>1, <1>5, WriteRowRestore
  <1>6. CASE SelectChildren(p)
    BY <1>1, <1>6, SelectChildrenRestore
  <1>7. CASE WriteChildren(p)
    BY <1>1, <1>7, WriteChildrenRestore
  <1>8. CASE Commit(p)
    BY <1>1, <1>8, CommitRestore
  <1>9. CASE Rollback(p) \/ Abort(p)
    BY <1>1, <1>9, DiscardRestore DEF Rollback, Abort
  <1> QED
    BY <1>2, <1>3, <1>4, <1>5, <1>6, <1>7, <1>8, <1>9 DEF Progress

LEMMA InitRestore ==
    ASSUME \A table \in InitialTables : HiddenTogether(table)
    PROVE  Init => RestoreInvariant
  <1> SUFFICES ASSUME Init PROVE RestoreInvariant
    OBVIOUS
  <1>1. HiddenTogether(rows) /\ draft = rows /\ \A p \in Requests : pc[p] = "start"
    BY DEF Init
  <1> QED
    BY <1>1
    DEF RestoreInvariant, SeenAsArchived, FoundActive, SelectedToRestore, SweptTogether,
        IdIsNew, OnlyRestoreReadsParent, Dated, Writing, Transacting

LEMMA RestoreStays ==
    Typed /\ CatalogInvariant /\ RestoreInvariant /\ RestoresApart /\ [Next]_vars
    => RestoreInvariant'
  <1> SUFFICES ASSUME Typed, CatalogInvariant, RestoreInvariant, RestoresApart, [Next]_vars
               PROVE  RestoreInvariant'
    OBVIOUS
  <1>1. CASE UNCHANGED vars
    BY <1>1
    DEF vars, RestoreInvariant, HiddenTogether, Together, SeenAsArchived, FoundActive,
        SelectedToRestore, SweptTogether, IdIsNew, OnlyRestoreReadsParent, Dated, Writing,
        Transacting, Visible, Creates
  <1>2. ASSUME NEW p \in Requests, Start(p) \/ Progress(p) \/ Abort(p)
        PROVE  RestoreInvariant'
    BY <1>2, StepTyped, StepRestore, InvariantSplit
  <1> QED
    BY <1>1, <1>2 DEF Next

\* As long as no two requests restore the same category at the same time, a category that
\* is active again shows whatever was archived with it, however the archive and edit
\* requests interleave with the restore and whichever of them fail halfway: the time that
\* RestoreService passes to RestoreByCategoryID can be outdated only by another restore.
THEOREM RestoresComplete ==
    ASSUME \A table \in InitialTables : HiddenTogether(table)
    PROVE  Spec /\ []RestoresApart => []RestoredWithCategory
  <1>1. Init => Typed /\ CatalogInvariant /\ RestoreInvariant
    BY InvariantInit, InitRestore
  <1>2. Typed /\ CatalogInvariant /\ RestoreInvariant /\ RestoresApart /\ [Next]_vars
        => (Typed /\ CatalogInvariant /\ RestoreInvariant)'
    BY InvariantStep, RestoreStays
  <1>3. RestoreInvariant => RestoredWithCategory
    BY DEF RestoreInvariant, HiddenTogether, Together, RestoredWithCategory, Active
  <1> QED
    BY <1>1, <1>2, <1>3, PTL DEF Spec

----------------------------------------------------------------------------
(***************************************************************************)
(* ReviveInvariant is inductive as long as nobody archives a category while*)
(* one of its subcategories is being created or restored.                  *)
(***************************************************************************)
LEMMA ReviverTarget ==
    ASSUME Typed, NEW p \in Requests, NeedsActiveParent(p), Dated(p)
    PROVE  /\ tgt[p] \in Subcategories /\ tgt[p] \in Items
           /\ Parent[tgt[p]] \in Categories /\ Parent[tgt[p]] \in Items
           /\ kind[p] \in Revivers /\ ~Cascades(p)
  BY ParentType
  DEF NeedsActiveParent, Dated, Typed, Targeted, Addressable, IsCategoryRequest, CategoryKinds,
      Revivers, Cascades

\* A step keeps UnderActive for the other requests if it leaves their categories active.
LEMMA OthersUnderActive ==
    ASSUME ReviveInvariant, NEW p \in Requests, OthersKept(p),
           \A q \in Requests \ {p} : NeedsActiveParent(q) /\ Dated(q) =>
              Active(rows'[Parent[tgt[q]]]),
           UnderActive(p)'
    PROVE  \A q \in Requests : UnderActive(q)'
  BY DEF OthersKept, UnderActive, NeedsActiveParent, Dated

LEMMA SameRowsUnderActive ==
    ASSUME ReviveInvariant, NEW p \in Requests, OthersKept(p), rows' = rows, UnderActive(p)'
    PROVE  \A q \in Requests : UnderActive(q)'
  BY OthersUnderActive DEF ReviveInvariant, UnderActive

\* A request that is not about to change its row any more.
LEMMA ReturnedUnderActive ==
    ASSUME Typed, NEW p \in Requests, Return(p)
    PROVE  UnderActive(p)'
  BY DEF UnderActive, Dated, Return, Typed, TypeOK

LEMMA StartUnderActive ==
    ASSUME Typed, NEW p \in Requests, Start(p)
    PROVE  UnderActive(p)'
  <1>1. ASSUME ReturnUnchanged(p) PROVE UnderActive(p)'
    BY <1>1, ReturnedUnderActive DEF ReturnUnchanged
  <1>2. ASSUME NEW i, NEW fields, NEW next, Begin(p, i, fields, next),
               NeedsActiveParent(p) => next = "parent" \/ Active(rows[Parent[i]])
        PROVE  UnderActive(p)'
    BY <1>2 DEF Begin, UnderActive, NeedsActiveParent, Dated, tables, Typed, TypeOK
  <1>3. CASE FindForCreate(p)
    <2>1. ASSUME NEW i \in Addressable(p), NeedsActiveParent(p) PROVE i \notin Categories
      BY <2>1, CatalogAssumption
      DEF NeedsActiveParent, Addressable, IsCategoryRequest, CategoryKinds
    <2> QED
      BY <1>1, <1>2, <1>3, <2>1 DEF FindForCreate
  <1>4. CASE FindForUpdate(p)
    <2>1. ~NeedsActiveParent(p)
      BY <1>4 DEF FindForUpdate, Updates, NeedsActiveParent
    <2> QED
      BY <1>1, <1>2, <1>4, <2>1 DEF FindForUpdate
  <1>5. CASE FindForArchive(p)
    <2>1. ~NeedsActiveParent(p)
      BY <1>5 DEF FindForArchive, Archives, NeedsActiveParent
    <2> QED
      BY <1>1, <1>2, <1>5, <2>1 DEF FindForArchive
  <1>6. CASE FindForRestoreCategory(p)
    <2>1. ~NeedsActiveParent(p)
      BY <1>6 DEF FindForRestoreCategory, NeedsActiveParent
    <2> QED
      BY <1>1, <1>2, <1>6, <2>1 DEF FindForRestoreCategory
  <1>7. CASE FindForRestoreSubcategory(p)
    BY <1>1, <1>2, <1>7 DEF FindForRestoreSubcategory
  <1> QED
    BY <1>3, <1>4, <1>5, <1>6, <1>7 DEF Start

\* The other steps of p before it writes.
LEMMA OnwardUnderActive ==
    ASSUME Typed, ReviveInvariant, NEW p \in Requests,
           FindParent(p) \/ SelectRow(p) \/ (pc[p] = "apply" /\ NoRowAffected(p))
    PROVE  UnderActive(p)'
  <1>1. CASE ReturnUnchanged(p)
    BY <1>1, ReturnedUnderActive DEF ReturnUnchanged
  <1>2. CASE /\ pc[p] = "parent" /\ Active(rows[Parent[tgt[p]]])
             /\ UNCHANGED <<tables, kind, tgt>>
    BY <1>2 DEF UnderActive, NeedsActiveParent, Dated, tables
  <1>3. CASE pc[p] \in {"write", "apply"} /\ UNCHANGED <<tables, kind, tgt>>
    BY <1>3 DEF ReviveInvariant, UnderActive, NeedsActiveParent, Dated, tables
  <1> QED
    BY <1>1, <1>2, <1>3 DEF FindParent, SelectRow, NoRowAffected

\* Only archiving a category makes it inactive, and then nobody relies on it.
LEMMA AutocommitUnderActive ==
    ASSUME Typed, Core, ReviveInvariant, NEW p \in Requests, OthersKept(p), AutocommitWrite(p)
    PROVE  \A q \in Requests : UnderActive(q)'
  <1> DEFINE i == tgt[p]
             new == Written(p, rows[i])
  <1>1. /\ i \in Items /\ i \in Addressable(p) /\ Return(p) /\ ~Cascades(p)
        /\ Selects(p, rows[i])
        /\ rows'[i] = new /\ \A j \in Items \ {i} : rows'[j] = rows[j]
    BY DEF AutocommitWrite, Typed, TypeOK, Targeted
  <1>2. Creates(p) => new.archived = 0
    BY DEF Written, Creates, Updates, Archives
  <1>3. ASSUME NEW c \in Categories, Active(rows[c]) PROVE Active(rows'[c])
    <2>1. c \in Items
      BY DEF Items
    <2> QED
      BY <1>1, <1>2, <1>3, <2>1, WrittenHides DEF Active
  <1>4. \A q \in Requests \ {p} : NeedsActiveParent(q) /\ Dated(q) =>
           Active(rows'[Parent[tgt[q]]])
    BY <1>3, ReviverTarget DEF ReviveInvariant, UnderActive
  <1> QED
    BY <1>1, <1>4, ReturnedUnderActive, OthersUnderActive

LEMMA CommitUnderActive ==
    ASSUME Typed, Core, ReviveInvariant, RevivesApart, NEW p \in Requests, OthersKept(p),
           Commit(p)
    PROVE  \A q \in Requests : UnderActive(q)'
  <1>1. pc[p] = "end" /\ Transacting(p) /\ Dated(p) /\ Return(p)
    BY DEF Commit, Transacting, Dated
  <1>2. /\ Cascades(p) /\ lock[tgt[p]] = p /\ draft[tgt[p]].present /\ tgt[p] \in Items
        /\ Archives(p) <=> draft[tgt[p]].archived # 0
    BY <1>1, TargetItem DEF Core, RequestInvariant, CategoryDrafted
  <1>3. ASSUME NEW q \in Requests \ {p}, NeedsActiveParent(q), Dated(q)
        PROVE  Active(rows'[Parent[tgt[q]]])
    <2>1. /\ Parent[tgt[q]] \in Categories /\ Parent[tgt[q]] \in Items
          /\ Active(rows[Parent[tgt[q]]])
      BY <1>3, ReviverTarget DEF ReviveInvariant, UnderActive
    <2>2. CASE Parent[tgt[q]] = tgt[p]
      <3>1. kind[p] # "archiveCategory"
        BY <1>1, <1>3, <2>2 DEF RevivesApart
      <3>2. draft[tgt[p]].archived = 0
        BY <1>2, <3>1 DEF Cascades, Archives
      <3> QED
        BY <1>2, <2>2, <3>2 DEF Commit, Visible, Active
    <2>3. CASE Parent[tgt[q]] # tgt[p]
      <3>1. lock[Parent[tgt[q]]] # p
        BY <2>1, <2>3, CatalogAssumption
        DEF Core, RequestInvariant, LocksOfCascade, SubcategoriesOf
      <3> QED
        BY <2>1, <3>1 DEF Commit, Visible
    <2> QED
      BY <2>2, <2>3
  <1> QED
    BY <1>1, <1>3, ReturnedUnderActive, OthersUnderActive

\* A subcategory becomes active under an active category that nobody is archiving.
LEMMA RevivedShielded ==
    ASSUME Typed, Core, ReviveInvariant, RevivesApart, NEW p \in Requests, OthersKept(p),
           kind[p] \in Revivers, AutocommitWrite(p)
    PROVE  Shielded'
  <1> DEFINE i == tgt[p]
  <1>1. NeedsActiveParent(p) /\ Dated(p) /\ Active(rows[Parent[i]])
    BY DEF AutocommitWrite, Revivers, NeedsActiveParent, Dated, ReviveInvariant, UnderActive
  <1>2. i \in Subcategories /\ Parent[i] \in Categories
    BY <1>1, ReviverTarget
  <1>3. \A j \in Items \ {i} : rows'[j] = rows[j]
    BY DEF AutocommitWrite, Typed, TypeOK
  <1>4. HeldKept(p) /\ Shielded
    BY DEF AutocommitWrite, HeldKept, Typed, TypeOK, ReviveInvariant
  <1>5. ArchivedHidesSubcategories'
    <2>1. ASSUME NEW s \in Subcategories, Active(rows'[s]) PROVE Active(rows'[Parent[s]])
      <3>1. rows'[Parent[s]] = rows[Parent[s]]
        BY <1>2, <1>3, ParentType
      <3>2. CASE s = i
        BY <1>1, <3>1, <3>2
      <3>3. CASE s # i
        BY <1>3, <1>4, <2>1, <3>1, <3>3, ParentType DEF Shielded, ArchivedHidesSubcategories
      <3> QED
        BY <3>2, <3>3
    <2> QED
      BY <2>1 DEF ArchivedHidesSubcategories
  <1>6. ASSUME NEW q \in Requests PROVE Reached(q)'
    <2>1. CASE q = p
      BY <2>1 DEF AutocommitWrite, Return, Reached, Typed, TypeOK
    <2>2. CASE q # p /\ (kind[q] # "archiveCategory" \/ ~Dated(q))
      BY <2>2 DEF OthersKept, Reached, Dated
    <2>3. CASE q # p /\ kind[q] = "archiveCategory" /\ Dated(q)
      <3>1. Parent[i] # tgt[q]
        BY <1>1, <2>3 DEF RevivesApart
      <3>2. \A s \in Subcategories : Parent[s] = tgt[q] => (Active(rows'[s]) => Active(rows[s]))
        BY <1>3, <3>1, ParentType
      <3> QED
        BY <1>4, <2>3, <3>2, OthersReached
    <2> QED
      BY <2>1, <2>2, <2>3
  <1> QED
    BY <1>5, <1>6 DEF Shielded

LEMMA WriteRowUnderActive ==
    ASSUME Typed, Core, ReviveInvariant, NEW p \in Requests, OthersKept(p), WriteRow(p)
    PROVE  \A q \in Requests : UnderActive(q)'
  <1>1. pc[p] = "apply" /\ tgt[p] \in Items
    BY TargetItem DEF WriteRow
  <1>2. lock[tgt[p]] = Free
    BY <1>1, IdleHoldsNothing DEF WriteRow, RowFree, Transacting
  <1>3. CASE ~Selects(p, rows[tgt[p]])
    <2>1. NoRowAffected(p)
      BY <1>3 DEF WriteRow
    <2>2. rows' = rows
      BY <2>1 DEF NoRowAffected, ReturnUnchanged, tables
    <2> QED
      BY <1>1, <2>1, <2>2, OnwardUnderActive, SameRowsUnderActive
  <1>4. CASE LockingWrite(p)
    <2>1. ~NeedsActiveParent(p) /\ rows' = rows /\ kind' = kind
      BY <1>4 DEF LockingWrite, Cascades, NeedsActiveParent
    <2>2. UnderActive(p)'
      BY <2>1 DEF UnderActive, NeedsActiveParent
    <2> QED
      BY <2>1, <2>2, SameRowsUnderActive
  <1>5. CASE Selects(p, rows[tgt[p]]) /\ ~LockingWrite(p)
    <2>1. AutocommitWrite(p)
      BY <1>1, <1>2, <1>5 DEF WriteRow, CommitsAtOnce, AutocommitWrite, LockingWrite
    <2> QED
      BY <2>1, AutocommitUnderActive
  <1> QED
    BY <1>3, <1>4, <1>5

LEMMA StepUnderActive ==
    ASSUME Typed, Core, ReviveInvariant, RevivesApart, NEW p \in Requests, OthersKept(p),
           Start(p) \/ Progress(p) \/ Abort(p)
    PROVE  \A q \in Requests : UnderActive(q)'
  <1>1. Quiet(p) => rows' = rows
    BY DEF Quiet, tables
  <1>2. CASE Start(p)
    BY <1>1, <1>2, StartQuiet, StartUnderActive, SameRowsUnderActive
  <1>3. CASE FindParent(p)
    BY <1>1, <1>3, FindParentQuiet, OnwardUnderActive, SameRowsUnderActive
  <1>4. CASE SelectRow(p)
    BY <1>1, <1>4, SelectRowQuiet, OnwardUnderActive, SameRowsUnderActive
  <1>5. CASE WriteRow(p)
    BY <1>5, WriteRowUnderActive
  <1>6. CASE SelectChildren(p) \/ WriteChildren(p)
    <2>1. Transacting(p) /\ rows' = rows /\ kind' = kind
      BY <1>6 DEF SelectChildren, WriteChildren, Transacting, tables
    <2>2. ~NeedsActiveParent(p)
      BY <2>1 DEF Core, RequestInvariant, CategoryDrafted, Cascades, NeedsActiveParent
    <2>3. UnderActive(p)'
      BY <2>1, <2>2 DEF UnderActive, NeedsActiveParent
    <2> QED
      BY <2>1, <2>3, SameRowsUnderActive
  <1>7. CASE Commit(p)
    BY <1>7, CommitUnderActive
  <1>8. CASE Rollback(p) \/ Abort(p)
    <2>1. Return(p) /\ rows' = rows
      BY <1>8 DEF Rollback, Abort, Discard
    <2> QED
      BY <2>1, ReturnedUnderActive, SameRowsUnderActive
  <1> QED
    BY <1>2, <1>3, <1>4, <1>5, <1>6, <1>7, <1>8 DEF Progress

LEMMA StepRevive ==
    ASSUME Typed, Typed', Core, ReviveInvariant, RevivesApart, NEW p \in Requests,
           Start(p) \/ Progress(p) \/ Abort(p)
    PROVE  ReviveInvariant'
  <1>1. OthersKept(p) /\ Shielded
    BY StepKeepsOthers DEF ReviveInvariant
  <1>2. CASE kind[p] \notin Revivers \/ pc[p] # "apply"
    BY <1>1, <1>2, StepShielded, StepUnderActive DEF ReviveInvariant
  <1>3. CASE kind[p] \in Revivers /\ pc[p] = "apply"
    <2>1. WriteRow(p) \/ Abort(p)
      BY <1>3
      DEF Start, Progress, FindForCreate, FindForUpdate, FindForArchive,
          FindForRestoreCategory, FindForRestoreSubcategory, FindParent, SelectRow,
          SelectChildren, WriteChildren, Commit, Rollback
    <2>2. ~LockingWrite(p)
      BY <1>3 DEF LockingWrite, Revivers, Cascades
    <2>3. CASE WriteRow(p)
      BY <1>1, <1>3, <2>2, <2>3, WriteRowCases, QuietStep, RevivedShielded, StepUnderActive
      DEF ReviveInvariant
    <2>4. CASE Abort(p)
      BY <1>1, <2>4, DiscardShielded, StepUnderActive DEF Abort, ReviveInvariant
    <2> QED
      BY <2>1, <2>3, <2>4
  <1> QED
    BY <1>2, <1>3

LEMMA ReviveStays ==
    Typed /\ CatalogInvariant /\ ReviveInvariant /\ RevivesApart /\ [Next]_vars
    => ReviveInvariant'
  <1> SUFFICES ASSUME Typed, CatalogInvariant, ReviveInvariant, RevivesApart, [Next]_vars
               PROVE  ReviveInvariant'
    OBVIOUS
  <1>1. CASE UNCHANGED vars
    BY <1>1
    DEF vars, ReviveInvariant, Shielded, Reached, ArchivedHidesSubcategories, UnderActive,
        NeedsActiveParent, Dated, Active, Visible
  <1>2. ASSUME NEW p \in Requests, Start(p) \/ Progress(p) \/ Abort(p)
        PROVE  ReviveInvariant'
    BY <1>2, StepTyped, StepRevive, InvariantSplit
  <1> QED
    BY <1>1, <1>2 DEF Next

LEMMA InitRevive == Init => ReviveInvariant
  <1>1. Init => \A p \in Requests : UnderActive(p)
    BY DEF Init, UnderActive, Dated
  <1> QED
    BY <1>1, InitShielded DEF ReviveInvariant

\* As long as nobody archives a category while one of its subcategories is being created
\* or restored, an archived category never shows one, whatever else is going on: the
\* INSERT and the UPDATE that read the category without locking it are the only way past
\* the cascade.
THEOREM ArchivesComplete == Spec /\ []RevivesApart => []ArchivedHidesSubcategories
  <1>1. Init => Typed /\ CatalogInvariant /\ ReviveInvariant
    BY InvariantInit, InitRevive
  <1>2. Typed /\ CatalogInvariant /\ ReviveInvariant /\ RevivesApart /\ [Next]_vars
        => (Typed /\ CatalogInvariant /\ ReviveInvariant)'
    BY InvariantStep, ReviveStays
  <1>3. ReviveInvariant => ArchivedHidesSubcategories
    BY DEF ReviveInvariant, Shielded
  <1> QED
    BY <1>1, <1>2, <1>3, PTL DEF Spec

----------------------------------------------------------------------------
(***************************************************************************)
(* ShelfInvariant is inductive.                                            *)
(***************************************************************************)
\* A step leaves alone what another request has swept.
LEMMA ShelfOfStep ==
    ASSUME Typed, ShelfInvariant, NEW p \in Requests, OthersKept(p), HeldKept(p),
           \A i \in Items : Labelled(i, rows'[i]) /\ Labelled(i, draft'[i]),
           SweptExactly(p)'
    PROVE  ShelfInvariant'
  <1>1. ASSUME NEW q \in Requests \ {p} PROVE SweptExactly(q)'
    <2>1. q # Free /\ q # p /\ SweptExactly(q)
      BY CatalogAssumption DEF ShelfInvariant
    <2>2. \A s \in Subcategories : lock'[s] = q =>
             lock[s] = q /\ rows'[s] = rows[s] /\ draft'[s] = draft[s]
      BY <2>1, ParentType DEF HeldKept
    <2> QED
      BY <2>1, <2>2 DEF OthersKept, SweptExactly, Active
  <1>2. \A q \in Requests : SweptExactly(q)'
    BY <1>1
  <1> QED
    BY <1>2 DEF ShelfInvariant, Labelled

\* Before its sweep and when it has returned a request holds no subcategory.
LEMMA SweptNothing ==
    ASSUME Typed', Core', NEW p \in Requests, pc'[p] # "end"
    PROVE  SweptExactly(p)'
  <1>1. ASSUME NEW s \in Subcategories PROVE lock'[s] # p
    <2>1. lock'[s] = p => Transacting(p)' /\ Cascades(p)' /\ s = tgt'[p]
      BY ParentType DEF Core, RequestInvariant, LocksOfCascade
    <2>2. Transacting(p)' /\ Cascades(p)' => tgt'[p] \in Categories
      BY DEF Transacting, Cascades, Typed, Targeted, Addressable, IsCategoryRequest,
             CategoryKinds
    <2> QED
      BY <2>1, <2>2, CatalogAssumption
  <1> QED
    BY <1>1 DEF SweptExactly

LEMMA WrittenLabelled ==
    ASSUME Typed, NEW p \in Requests, NEW i \in Items, Labelled(i, rows[i])
    PROVE  Labelled(i, Written(p, rows[i]))
  <1> DEFINE new == Written(p, rows[i])
  <1>1. rows[i] \in Row
    BY DEF Typed, TypeOK
  <1>2. CASE Creates(p)
    <2>1. new.archived = 0 /\ new.by = "nobody"
      BY <1>2 DEF Written, Creates, Updates, Archives
    <2> QED
      BY <2>1 DEF Labelled
  <1>3. CASE ~Creates(p) /\ Updates(p)
    <2>1. new = [rows[i] EXCEPT !.ver = now[p], !.field = Merged(p)]
      BY <1>3 DEF Written, Creates, Updates, Archives
    <2>2. new.present = rows[i].present /\ new.by = rows[i].by /\ new.archived = rows[i].archived
      BY <1>1, <2>1 DEF Row
    <2> QED
      BY <2>2 DEF Labelled
  <1>4. CASE ~Creates(p) /\ ~Updates(p)
    <2>1. new.by = "itself" \/ (new.archived = 0 /\ new.by = "nobody")
      BY <1>1, <1>4 DEF Written, Row
    <2> QED
      BY <2>1 DEF Labelled
  <1> QED
    BY <1>2, <1>3, <1>4

\* Steps that leave the tables as they are, or end with what was there.
LEMMA SameRowsShelf ==
    ASSUME Typed, Typed', Core', ShelfInvariant, NEW p \in Requests, OthersKept(p), HeldKept(p),
           \A i \in Items : rows'[i] \in {rows[i], draft[i]} /\ draft'[i] \in {rows[i], draft[i]},
           pc'[p] # "end"
    PROVE  ShelfInvariant'
  BY SweptNothing, ShelfOfStep DEF ShelfInvariant

\* The cascade writes what it has selected, which still is as it was to be.
LEMMA WriteChildrenShelf ==
    ASSUME Typed, Core, RestoreInvariant, ShelfInvariant, NEW p \in Requests, OthersKept(p),
           WriteChildren(p)
    PROVE  ShelfInvariant'
  <1> DEFINE hit == {s \in matched[p] : InCascade(p, rows[s])}
  <1>1. /\ pc[p] = "sweep" /\ rows' = rows /\ kind' = kind
        /\ \A j \in Items : j \in hit => draft'[j] = Cascaded(p, rows[j]) /\ lock'[j] = p
        /\ \A j \in Items : j \notin hit => draft'[j] = draft[j] /\ lock'[j] = lock[j]
    BY DEF WriteChildren, Typed, TypeOK
  <1>2. HeldKept(p) /\ \A s \in hit : s \in Items /\ s \in Subcategories /\ s \notin Categories
    BY <1>1, SweptRows, CatalogAssumption DEF HeldKept, SubcategoriesOf
  <1>3. Cascades(p) /\ SeenAsArchived(p) /\ Dated(p)
    BY <1>1 DEF Dated, Transacting, Core, RequestInvariant, CategoryDrafted, RestoreInvariant
  <1>4. ASSUME NEW s \in hit
        PROVE  /\ Archives(p) => Cascaded(p, rows[s]).by = "category"
               /\ Archives(p) <=> Cascaded(p, rows[s]).archived # 0
    <2>1. rows[s] \in Row
      BY <1>2 DEF Typed, TypeOK
    <2> QED
      BY <1>1, <2>1, CascadedArchived DEF Cascaded, Row
  <1>5. \A i \in Items : Labelled(i, rows'[i]) /\ Labelled(i, draft'[i])
    <2> SUFFICES ASSUME NEW i \in Items PROVE Labelled(i, rows'[i]) /\ Labelled(i, draft'[i])
      OBVIOUS
    <2>1. CASE i \in hit
      BY <1>1, <1>2, <1>4, <2>1 DEF ShelfInvariant, Labelled
    <2>2. CASE i \notin hit
      BY <1>1, <2>2 DEF ShelfInvariant
    <2> QED
      BY <2>1, <2>2
  <1>6. SweptExactly(p)'
    <2>1. ASSUME NEW s \in Subcategories, lock'[s] = p PROVE s \in hit
      BY <1>1, <2>1, ParentType, HeldInCategory
    <2>2. CASE kind[p] = "archiveCategory"
      <3>1. Archives(p)
        BY <2>2 DEF Archives
      <3> QED
        BY <1>1, <1>2, <1>4, <2>1, <2>2, <3>1 DEF SweptExactly, InCascade, Active
    <2>3. CASE kind[p] # "archiveCategory"
      <3>1. ~Archives(p) /\ seen[p].archived # 0
        BY <1>3, <2>3 DEF Cascades, Archives, SeenAsArchived
      <3> QED
        BY <1>1, <1>2, <1>4, <2>1, <2>3, <3>1 DEF SweptExactly, InCascade
    <2> QED
      BY <2>2, <2>3
  <1> QED
    BY <1>2, <1>5, <1>6, ShelfOfStep

LEMMA WriteRowShelf ==
    ASSUME Typed, Typed', Core, Core', ShelfInvariant, NEW p \in Requests, OthersKept(p),
           AutocommitWrite(p) \/ LockingWrite(p)
    PROVE  ShelfInvariant'
  <1>1. HeldKept(p)
    BY DEF AutocommitWrite, LockingWrite, HeldKept, Typed, TypeOK
  <1>2. pc'[p] # "end"
    BY DEF AutocommitWrite, LockingWrite, Return, Typed, TypeOK
  <1>3. ASSUME NEW i \in Items
        PROVE  /\ rows'[i] \in {rows[i], Written(p, rows[i])}
               /\ draft'[i] \in {draft[i], Written(p, rows[i])}
    BY DEF AutocommitWrite, LockingWrite, Typed, TypeOK
  <1>4. \A i \in Items : Labelled(i, rows'[i]) /\ Labelled(i, draft'[i])
    BY <1>3, WrittenLabelled DEF ShelfInvariant
  <1> QED
    BY <1>1, <1>2, <1>4, SweptNothing, ShelfOfStep

LEMMA StepShelf ==
    ASSUME Typed, Typed', Core, Core', RestoreInvariant, ShelfInvariant, NEW p \in Requests,
           Start(p) \/ Progress(p) \/ Abort(p)
    PROVE  ShelfInvariant'
  <1>1. OthersKept(p)
    BY StepKeepsOthers
  <1>2. ASSUME Quiet(p) PROVE ShelfInvariant'
    <2>1. HeldKept(p) /\ pc'[p] # "end"
      BY <1>2 DEF Quiet, HeldKept, Transacting, tables
    <2> QED
      BY <1>1, <1>2, <2>1, SameRowsShelf DEF Quiet, tables
  <1>3. CASE Start(p) \/ FindParent(p) \/ SelectRow(p)
    BY <1>2, <1>3, StartQuiet, FindParentQuiet, SelectRowQuiet
  <1>4. CASE WriteRow(p)
    BY <1>1, <1>2, <1>4, WriteRowCases, WriteRowShelf
  <1>5. CASE SelectChildren(p)
    <2>1. HeldKept(p) /\ pc'[p] # "end" /\ UNCHANGED tables
      BY <1>5 DEF SelectChildren, HeldKept, Typed, TypeOK, tables
    <2> QED
      BY <1>1, <2>1, SameRowsShelf DEF tables
  <1>6. CASE WriteChildren(p)
    BY <1>1, <1>6, WriteChildrenShelf
  <1>7. CASE Commit(p) \/ Discard(p)
    <2>1. HeldKept(p)
      BY <1>7, CommitHeld DEF Discard, HeldKept, Unlock
    <2>2. pc'[p] # "end"
      BY <1>7 DEF Commit, Discard, Return, Typed, TypeOK
    <2>3. \A i \in Items :
             rows'[i] \in {rows[i], draft[i]} /\ draft'[i] \in {rows[i], draft[i]}
      BY <1>7 DEF Commit, Discard, Visible
    <2> QED
      BY <1>1, <2>1, <2>2, <2>3, SameRowsShelf
  <1> QED
    BY <1>3, <1>4, <1>5, <1>6, <1>7 DEF Progress, Rollback, Abort

LEMMA InitShelf ==
    ASSUME \A table \in InitialTables : Orderly(table)
    PROVE  Init => ShelfInvariant
  <1> SUFFICES ASSUME Init PROVE ShelfInvariant
    OBVIOUS
  <1>1. Orderly(rows) /\ draft = rows /\ \A i \in Items : lock[i] = Free
    BY DEF Init
  <1>2. \A p \in Requests, s \in Subcategories : lock[s] # p
    BY <1>1, CatalogAssumption, ParentType
  <1> QED
    BY <1>1, <1>2 DEF Orderly, ShelfInvariant, SweptExactly


----------------------------------------------------------------------------
(***************************************************************************)
(* Every step of Catalog is a step of Shelves or none, as far as the       *)
(* committed rows go.                                                      *)
(***************************************************************************)
\* All that is known of the tables and the requests as long as RequestsApart holds.
Shelved ==
    /\ Typed /\ CatalogInvariant /\ EditsInvariant /\ OwnInvariant
    /\ RestoreInvariant /\ ReviveInvariant /\ ShelfInvariant

LEMMA ShelfOfRow ==
    ASSUME NEW r \in Row
    PROVE  /\ ShelfOf(r) \in Promise!States
           /\ ShelfOf(r) = "absent" <=> ~r.present
           /\ ShelfOf(r) = "shown" <=> Active(r)
           /\ ShelfOf(r) = "hidden" <=> r.present /\ r.archived # 0 /\ r.by = "category"
           /\ ShelfOf(r) = "archived" <=> r.present /\ r.archived # 0 /\ r.by # "category"
  BY DEF ShelfOf, Active, Promise!States

\* The row an INSERT or UPDATE commits by itself, before and after.
LEMMA AutocommitMoves ==
    ASSUME Shelved, NEW p \in Requests, AutocommitWrite(p)
    PROVE  LET i == tgt[p]
               was == ShelfOf(rows[i])
               is == ShelfOf(Written(p, rows[i]))
               underActive == i \in Subcategories => Active(rows[Parent[i]])
           IN \/ is = was
              \/ was = "absent" /\ is = "shown" /\ underActive
              \/ i \in Subcategories /\ was = "shown" /\ is = "archived"
              \/ i \in Subcategories /\ was = "archived" /\ is = "shown" /\ underActive
  <1> DEFINE i == tgt[p]
             new == Written(p, rows[i])
  <1>1. /\ i \in Items /\ rows[i] \in Row /\ i \in Addressable(p) /\ ~Cascades(p)
        /\ Selects(p, rows[i]) /\ Writing(p) /\ Dated(p) /\ now[p] # 0
        /\ kind[p] \in CategoryKinds \cup SubcategoryKinds
    BY DEF Shelved, AutocommitWrite, Writing, Dated, CatalogInvariant, RequestInvariant, ClockRead,
           Typed, TypeOK, Targeted
  <1>2. CASE Creates(p)
    <2>1. ~rows[i].present
      BY <1>1, <1>2 DEF Shelved, RestoreInvariant, IdIsNew
    <2>2. ShelfOf(rows[i]) = "absent"
      BY <2>1 DEF ShelfOf
    <2>3. new.present /\ new.archived = 0
      BY <1>2 DEF Written, Creates, Updates, Archives
    <2>4. ShelfOf(new) = "shown"
      BY <2>3 DEF ShelfOf
    <2>5. i \in Subcategories => NeedsActiveParent(p)
      BY <1>1, <1>2, CatalogAssumption
      DEF Creates, NeedsActiveParent, Addressable, IsCategoryRequest, CategoryKinds
    <2>6. i \in Subcategories => Active(rows[Parent[i]])
      BY <1>1, <2>5 DEF Shelved, ReviveInvariant, UnderActive
    <2> QED
      BY <2>2, <2>4, <2>6
  <1>3. CASE Updates(p)
    <2>1. new = [rows[i] EXCEPT !.ver = now[p], !.field = Merged(p)]
      BY <1>3 DEF Written, Creates, Updates, Archives
    <2>2. new.present = rows[i].present /\ new.by = rows[i].by /\ new.archived = rows[i].archived
      BY <1>1, <2>1 DEF Row
    <2>3. ShelfOf(new) = ShelfOf(rows[i])
      BY <2>2 DEF ShelfOf
    <2> QED
      BY <2>3
  <1>4. CASE Archives(p)
    <2>1. i \in Subcategories
      BY <1>1, <1>4
      DEF Archives, Cascades, Addressable, IsCategoryRequest, CategoryKinds
    <2>2. Active(rows[i])
      BY <1>1, <1>4 DEF Selects
    <2>3. new = [rows[i] EXCEPT !.archived = now[p], !.by = "itself", !.ver = now[p]]
      BY <1>4 DEF Written, Creates, Updates, Archives
    <2>4. new.present /\ new.archived = now[p] /\ new.by = "itself"
      BY <1>1, <2>2, <2>3 DEF Row, Active
    <2>5. ShelfOf(rows[i]) = "shown" /\ ShelfOf(new) = "archived"
      BY <1>1, <2>2, <2>4 DEF ShelfOf, Active
    <2> QED
      BY <2>1, <2>5
  <1>5. CASE ~Creates(p) /\ ~Updates(p) /\ ~Archives(p)
    <2>1. NeedsActiveParent(p) /\ i \in Subcategories /\ rows[i].present
      BY <1>1, <1>5
      DEF Creates, Updates, Archives, Cascades, CategoryKinds, SubcategoryKinds,
          NeedsActiveParent, Addressable, IsCategoryRequest, Selects
    <2>2. Active(rows[Parent[i]])
      BY <1>1, <2>1 DEF Shelved, ReviveInvariant, UnderActive
    <2>3. Together(rows[i], rows[Parent[i]])
      BY <2>1 DEF Shelved, RestoreInvariant, HiddenTogether
    <2>4. ShelfOf(rows[i]) \in {"shown", "archived"}
      BY <2>1, <2>2, <2>3 DEF ShelfOf, Together, Active
    <2>5. new = [rows[i] EXCEPT !.archived = 0, !.by = "nobody", !.ver = now[p]]
      BY <1>5 DEF Written
    <2>6. new.present /\ new.archived = 0
      BY <1>1, <2>1, <2>5 DEF Row
    <2>7. ShelfOf(new) = "shown"
      BY <2>6 DEF ShelfOf
    <2> QED
      BY <2>1, <2>2, <2>4, <2>7
  <1> QED
    BY <1>2, <1>3, <1>4, <1>5

\* A committed cascade reaches nothing but the category and its subcategories.
LEMMA CommitInCategory ==
    ASSUME Shelved, NEW p \in Requests, Commit(p)
    PROVE  /\ pc[p] = "end" /\ Transacting(p) /\ Dated(p) /\ Cascades(p)
           /\ tgt[p] \in Categories /\ tgt[p] \in Items /\ tgt[p] \notin Subcategories
           /\ rows'[tgt[p]] = draft[tgt[p]] /\ draft[tgt[p]].present
           /\ rows[tgt[p]].present
           /\ Archives(p) <=> draft[tgt[p]].archived # 0
           /\ \A i \in Items : i # tgt[p] /\ rows'[i] # rows[i] =>
                 /\ i \in Subcategories /\ Parent[i] = tgt[p]
                 /\ lock[i] = p /\ rows'[i] = draft[i]
  <1>1. /\ pc[p] = "end" /\ Transacting(p) /\ Dated(p)
        /\ \A i \in Items : rows'[i] = Visible(p, i)
    BY DEF Commit, Transacting, Dated
  <1>2. /\ Cascades(p) /\ lock[tgt[p]] = p /\ draft[tgt[p]].present
        /\ Archives(p) <=> draft[tgt[p]].archived # 0
    BY <1>1 DEF Shelved, CatalogInvariant, RequestInvariant, CategoryDrafted
  <1>3. tgt[p] \in Categories /\ tgt[p] \in Items /\ tgt[p] \notin Subcategories
    BY <1>1, <1>2, CascadeTarget DEF Shelved, Items
  <1>4. rows'[tgt[p]] = draft[tgt[p]] /\ rows[tgt[p]].present
    BY <1>1, <1>2, <1>3 DEF Visible, Shelved, RestoreInvariant
  <1>5. ASSUME NEW i \in Items, i # tgt[p], rows'[i] # rows[i]
        PROVE  /\ i \in Subcategories /\ Parent[i] = tgt[p]
               /\ lock[i] = p /\ rows'[i] = draft[i]
    BY <1>1, <1>5 DEF Visible, Shelved, CatalogInvariant, RequestInvariant, LocksOfCascade, SubcategoriesOf
  <1> QED
    BY <1>1, <1>2, <1>3, <1>4, <1>5

\* Archiving a category hides exactly the subcategories that it shows.
LEMMA ArchiveCommits ==
    ASSUME Shelved, NEW p \in Requests, Commit(p), kind[p] = "archiveCategory"
    PROVE  /\ ShelfOf(rows[tgt[p]]) = "shown" /\ ShelfOf(rows'[tgt[p]]) = "archived"
           /\ \A s \in Subcategories : Parent[s] = tgt[p] =>
                 IF ShelfOf(rows[s]) = "shown" THEN ShelfOf(rows'[s]) = "hidden"
                                               ELSE rows'[s] = rows[s]
  <1> DEFINE c == tgt[p]
  <1>1. /\ pc[p] = "end" /\ Transacting(p) /\ c \in Categories /\ c \in Items
        /\ rows'[c] = draft[c] /\ draft[c].present /\ rows[c].present
        /\ c \notin Subcategories /\ Archives(p) /\ draft[c].archived # 0
        /\ \A i \in Items : i # c /\ rows'[i] # rows[i] => lock[i] = p /\ rows'[i] = draft[i]
    BY CommitInCategory DEF Archives
  <1>2. rows[c].archived = 0 /\ draft[c].by # "category"
    BY <1>1 DEF Shelved, RestoreInvariant, FoundActive, ShelfInvariant, Labelled
  <1>3. ShelfOf(rows[c]) = "shown" /\ ShelfOf(rows'[c]) = "archived"
    BY <1>1, <1>2 DEF ShelfOf
  <1>4. ASSUME NEW s \in Subcategories, Parent[s] = c
        PROVE  IF ShelfOf(rows[s]) = "shown" THEN ShelfOf(rows'[s]) = "hidden"
                                             ELSE rows'[s] = rows[s]
    <2>1. s \in Items /\ s # c /\ rows[s] \in Row /\ s \in SubcategoriesOf(c)
      BY <1>1, <1>4, ParentType DEF Shelved, Typed, TypeOK, SubcategoriesOf
    <2>2. draft[s].present = rows[s].present
      BY <2>1 DEF Shelved, RestoreInvariant
    <2>3. lock[s] = p =>
             Active(rows[s]) /\ draft[s].archived # 0 /\ draft[s].by = "category"
      BY DEF Shelved, ShelfInvariant, SweptExactly
    <2>4. ~Active(Visible(p, s))
      BY <1>1, <2>1 DEF Shelved, ReviveInvariant, Shielded, Reached
    <2>5. ShelfOf(rows[s]) = "shown" <=> Active(rows[s])
      BY <2>1, ShelfOfRow
    <2>6. CASE lock[s] = p
      <3>1. rows'[s] = draft[s]
        BY <2>1, <2>6 DEF Commit, Visible
      <3>2. ShelfOf(rows'[s]) = "hidden"
        BY <2>2, <2>3, <2>6, <3>1 DEF ShelfOf, Active
      <3> QED
        BY <2>3, <2>5, <2>6, <3>2
    <2>7. CASE lock[s] # p
      BY <1>1, <2>1, <2>4, <2>5, <2>7 DEF Visible
    <2> QED
      BY <2>6, <2>7
  <1> QED
    BY <1>3, <1>4

\* Restoring a category brings back exactly what was hidden with it.
LEMMA RestoreCommits ==
    ASSUME Shelved, NEW p \in Requests, Commit(p), kind[p] = "restoreCategory"
    PROVE  /\ ShelfOf(rows[tgt[p]]) = "archived" /\ ShelfOf(rows'[tgt[p]]) = "shown"
           /\ \A s \in Subcategories : Parent[s] = tgt[p] =>
                 IF ShelfOf(rows[s]) = "hidden" THEN ShelfOf(rows'[s]) = "shown"
                                                ELSE ShelfOf(rows'[s]) = ShelfOf(rows[s])
  <1> DEFINE c == tgt[p]
  <1>1. /\ pc[p] = "end" /\ Dated(p) /\ c \in Categories /\ c \in Items
        /\ rows'[c] = draft[c] /\ draft[c].present /\ rows[c].present
        /\ c \notin Subcategories /\ draft[c].archived = 0
        /\ \A i \in Items : i # c /\ rows'[i] # rows[i] => lock[i] = p /\ rows'[i] = draft[i]
    BY CommitInCategory DEF Archives
  <1>2. rows[c].archived # 0 /\ rows[c].by # "category"
    BY <1>1 DEF Shelved, RestoreInvariant, SeenAsArchived, ShelfInvariant, Labelled
  <1>3. ShelfOf(rows[c]) = "archived" /\ ShelfOf(rows'[c]) = "shown"
    BY <1>1, <1>2 DEF ShelfOf
  <1>4. ASSUME NEW s \in Subcategories, Parent[s] = c
        PROVE  IF ShelfOf(rows[s]) = "hidden" THEN ShelfOf(rows'[s]) = "shown"
                                              ELSE ShelfOf(rows'[s]) = ShelfOf(rows[s])
    <2>1. s \in Items /\ s # c /\ rows[s] \in Row /\ s \in SubcategoriesOf(c)
      BY <1>1, <1>4, ParentType DEF Shelved, Typed, TypeOK, SubcategoriesOf
    <2>2. draft[s].present = rows[s].present /\ Labelled(s, rows[s])
      BY <2>1 DEF Shelved, RestoreInvariant, ShelfInvariant
    <2>3. lock[s] = p =>
             rows[s].archived # 0 /\ draft[s].archived = 0 /\ rows[s].by # "itself"
      BY CatalogAssumption DEF Shelved, ShelfInvariant, SweptExactly, OwnInvariant, OwnPassedOver
    <2>4. Together(Visible(p, s), draft[c])
      BY <1>1, <2>1 DEF Shelved, RestoreInvariant, SweptTogether
    <2>5. CASE lock[s] = p
      <3>1. rows'[s] = draft[s]
        BY <2>1, <2>5 DEF Commit, Visible
      <3>2. CASE rows[s].present
        <4>1. rows[s].by = "category"
          BY <2>1, <2>2, <2>3, <2>5, <3>2 DEF Labelled, Row
        <4> QED
          BY <2>2, <2>3, <2>5, <3>1, <3>2, <4>1 DEF ShelfOf
      <3>3. CASE ~rows[s].present
        BY <2>2, <3>1, <3>3 DEF ShelfOf
      <3> QED
        BY <3>2, <3>3
    <2>6. CASE lock[s] # p
      <3>1. rows'[s] = rows[s] /\ Together(rows[s], draft[c])
        BY <1>1, <2>1, <2>4, <2>6 DEF Visible
      <3>2. ShelfOf(rows[s]) # "hidden"
        BY <1>1, <3>1 DEF Together, ShelfOf
      <3> QED
        BY <3>1, <3>2
    <2> QED
      BY <2>5, <2>6
  <1> QED
    BY <1>3, <1>4


LEMMA RowsMove ==
    ASSUME Shelved, NEW p \in Requests, Start(p) \/ Progress(p) \/ Abort(p)
    PROVE  rows' = rows \/ AutocommitWrite(p) \/ Commit(p)
  <1>1. Typed /\ Core
    BY InvariantSplit DEF Shelved
  <1>2. CASE WriteRow(p)
    BY <1>1, <1>2, WriteRowCases DEF Quiet, LockingWrite, tables
  <1>3. CASE SelectChildren(p) \/ WriteChildren(p) \/ Commit(p) \/ Rollback(p) \/ Abort(p)
    BY <1>3 DEF SelectChildren, WriteChildren, Rollback, Abort, Discard, tables
  <1>4. CASE Start(p) \/ FindParent(p) \/ SelectRow(p)
    BY <1>1, <1>4, StartQuiet, FindParentQuiet, SelectRowQuiet DEF Quiet, tables
  <1> QED
    BY <1>2, <1>3, <1>4 DEF Progress

LEMMA ShelvedStays ==
    0 \notin ClockSteps /\ Shelved /\ RequestsApart /\ [Next]_vars => Shelved'
  <1> SUFFICES ASSUME 0 \notin ClockSteps, Shelved, RequestsApart, [Next]_vars PROVE Shelved'
    OBVIOUS
  <1>1. (Typed /\ CatalogInvariant /\ EditsInvariant /\ OwnInvariant)'
    BY InvariantStep, EditsStep, OwnStaysInvariant DEF Shelved
  <1>2. (RestoreInvariant /\ ReviveInvariant)'
    BY RestoreStays, ReviveStays DEF Shelved, RequestsApart
  <1>3. ShelfInvariant'
    <2>1. Typed' /\ Core /\ Core'
      BY <1>1, InvariantSplit DEF Shelved, CatalogInvariant, Core
    <2>2. CASE UNCHANGED vars
      BY <2>2 DEF vars, Shelved, ShelfInvariant, Labelled, SweptExactly, Active
    <2> QED
      BY <2>1, <2>2, StepShelf DEF Next, Shelved
  <1> QED
    BY <1>1, <1>2, <1>3 DEF Shelved

\* Provided that no two clock readings are the same, that no two requests restore a
\* category at the same time and that nobody archives it while one of its subcategories is
\* created or restored, clients see what Shelves promises: a category and what was shown
\* with it go and come back together, in one step, whatever else happens in between and
\* whichever requests fail.
THEOREM CatalogIsShelves ==
    ASSUME 0 \notin ClockSteps, \A table \in InitialTables : Orderly(table)
    PROVE  Spec /\ []RequestsApart => ImplementsShelves
  <1> DEFINE shelf == [i \in Items |-> ShelfOf(rows[i])]
  <1>1. Init => Shelved
    BY InvariantInit, InitEdits, InitOwn, InitRestore, InitRevive, InitShelf DEF Orderly, Shelved
  <1>2. Init => Promise!Init
    <2> SUFFICES ASSUME Init PROVE Promise!Init
      OBVIOUS
    <2>1. Shelved
      BY <1>1
    <2>2. \A i \in Items : /\ rows[i] \in Row /\ shelf[i] = ShelfOf(rows[i])
                           /\ i \in Categories => rows[i].by # "category" \/ rows[i].archived = 0
      BY <2>1 DEF Shelved, Typed, TypeOK, ShelfInvariant, Labelled
    <2>3. shelf \in [Promise!Items -> Promise!States]
      BY <2>2, ShelfOfRow DEF Promise!Items, Items
    <2>4. ASSUME NEW c \in Categories PROVE shelf[c] # "hidden"
      BY <2>2, ShelfOfRow DEF Items
    <2>5. ASSUME NEW s \in Subcategories
          PROVE  /\ shelf[s] = "shown" => shelf[Parent[s]] = "shown"
                 /\ shelf[s] = "hidden" => shelf[Parent[s]] = "archived"
      <3>1. /\ Active(rows[s]) => Active(rows[Parent[s]])
            /\ Together(rows[s], rows[Parent[s]])
        BY <2>1
        DEF Shelved, ReviveInvariant, Shielded, ArchivedHidesSubcategories, RestoreInvariant,
            HiddenTogether
      <3> QED
        BY <2>2, <3>1, ParentType, ShelfOfRow DEF Together
    <2> QED
      BY <2>3, <2>4, <2>5 DEF Promise!Init, Promise!Consistent
  <1>3. ASSUME Shelved, NEW p \in Requests, Start(p) \/ Progress(p) \/ Abort(p)
        PROVE  [Promise!Next]_shelf
    <2>1. /\ shelf' = [i \in Items |-> ShelfOf(rows'[i])]
          /\ \A i \in Items : shelf[i] = ShelfOf(rows[i]) /\ shelf'[i] = ShelfOf(rows'[i])
      OBVIOUS
    <2>2. \A i \in Items : rows[i] \in Row
      BY <1>3 DEF Shelved, Typed, TypeOK
    <2>3. Promise!Items = Items
      BY DEF Promise!Items, Items
    <2>4. CASE rows' = rows
      BY <2>4
    <2>5. CASE AutocommitWrite(p)
      <3> DEFINE i == tgt[p]
                 was == ShelfOf(rows[i])
                 is == ShelfOf(Written(p, rows[i]))
                 underActive == i \in Subcategories => Active(rows[Parent[i]])
      <3>1. /\ i \in Items
            /\ shelf[i] = was
            /\ shelf' = [shelf EXCEPT ![i] = is]
        BY <1>3, <2>5 DEF AutocommitWrite, Shelved, Typed, TypeOK
      <3>2. \/ is = was
            \/ was = "absent" /\ is = "shown" /\ underActive
            \/ i \in Subcategories /\ was = "shown" /\ is = "archived"
            \/ i \in Subcategories /\ was = "archived" /\ is = "shown" /\ underActive
        BY <1>3, <2>5, AutocommitMoves
      <3>3. underActive => Promise!UnderShown(i)
        BY <2>1, <2>2, ParentType, ShelfOfRow DEF Promise!UnderShown
      <3>4. CASE is = was
        BY <3>1, <3>4
      <3>5. CASE was = "absent" /\ is = "shown" /\ underActive
        <4>1. Promise!Add(i)
          BY <3>1, <3>3, <3>5 DEF Promise!Add
        <4> QED
          BY <2>3, <3>1, <4>1 DEF Promise!Next
      <3>6. CASE i \in Subcategories /\ was = "shown" /\ is = "archived"
        <4>1. Promise!Archive(i)
          BY <3>1, <3>6 DEF Promise!Archive
        <4> QED
          BY <3>6, <4>1 DEF Promise!Next
      <3>7. CASE i \in Subcategories /\ was = "archived" /\ is = "shown" /\ underActive
        <4>1. Promise!Restore(i)
          BY <3>1, <3>3, <3>7 DEF Promise!Restore
        <4> QED
          BY <3>7, <4>1 DEF Promise!Next
      <3> QED
        BY <3>2, <3>4, <3>5, <3>6, <3>7
    <2>6. CASE Commit(p)
      <3> DEFINE c == tgt[p]
      <3>1. /\ Cascades(p) /\ c \in Categories /\ c \in Items /\ c \notin Subcategories
            /\ \A i \in Items : i # c /\ rows'[i] # rows[i] =>
                  i \in Subcategories /\ Parent[i] = c
        BY <1>3, <2>6, CommitInCategory
      <3>2. CASE kind[p] = "archiveCategory"
        <4>1. Promise!ArchiveAll(c)
          BY <1>3, <2>1, <2>3, <2>6, <3>1, <3>2, ArchiveCommits
          DEF Promise!ArchiveAll, Promise!Together
        <4> QED
          BY <3>1, <4>1 DEF Promise!Next
      <3>3. CASE kind[p] = "restoreCategory"
        <4>1. Promise!RestoreAll(c)
          BY <1>3, <2>1, <2>3, <2>6, <3>1, <3>3, RestoreCommits
          DEF Promise!RestoreAll, Promise!Together
        <4> QED
          BY <3>1, <4>1 DEF Promise!Next
      <3> QED
        BY <3>1, <3>2, <3>3 DEF Cascades
    <2> QED
      BY <1>3, <2>4, <2>5, <2>6, RowsMove
  <1>4. Shelved /\ [Next]_vars => [Promise!Next]_shelf
    <2>1. UNCHANGED vars => shelf' = shelf
      BY DEF vars
    <2> QED
      BY <1>3, <2>1 DEF Next
  <1> QED
    BY <1>1, <1>2, <1>4, ShelvedStays, PTL DEF Spec, ImplementsShelves, Promise!Spec


\* What Shelves promises includes that its steps keep the shelves in order: no subcategory
\* is shown under a category that is not, and none stays hidden under one that is.
THEOREM ShelvesStayConsistent == ImplementsShelves => []Promise!Consistent
  <1> DEFINE shelf == [i \in Items |-> ShelfOf(rows[i])]
             InOrder(table) ==
                /\ \A c \in Categories : table[c] # "hidden"
                /\ \A s \in Subcategories :
                      /\ table[s] = "shown" => table[Parent[s]] = "shown"
                      /\ table[s] = "hidden" => table[Parent[s]] = "archived"
  <1>1. Promise!Consistent <=> InOrder(shelf)
    BY DEF Promise!Consistent
  <1>2. Promise!Consistent' <=> InOrder(shelf')
    BY DEF Promise!Consistent
  <1>3. ASSUME Promise!Consistent, Promise!Next PROVE Promise!Consistent'
    <2>1. /\ \A s \in Subcategories : s \in Items /\ s \notin Categories
          /\ \A c \in Categories : c \in Items /\ c \notin Subcategories
          /\ Promise!Items = Items
      BY CatalogAssumption DEF Items, Promise!Items
    <2>2. InOrder(shelf)
      BY <1>1, <1>3
    <2>3. ASSUME NEW i \in Items, Promise!Add(i) PROVE InOrder(shelf')
      BY <2>1, <2>2, <2>3, ParentType DEF Promise!Add, Promise!UnderShown
    <2>4. ASSUME NEW s \in Subcategories, Promise!Archive(s) PROVE InOrder(shelf')
      BY <2>1, <2>2, <2>4, ParentType DEF Promise!Archive
    <2>5. ASSUME NEW s \in Subcategories, Promise!Restore(s) PROVE InOrder(shelf')
      BY <2>1, <2>2, <2>5, ParentType DEF Promise!Restore, Promise!UnderShown
    <2>6. ASSUME NEW c \in Categories, Promise!ArchiveAll(c) PROVE InOrder(shelf')
      BY <2>1, <2>2, <2>6, ParentType DEF Promise!ArchiveAll, Promise!Together
    <2>7. ASSUME NEW c \in Categories, Promise!RestoreAll(c) PROVE InOrder(shelf')
      BY <2>1, <2>2, <2>7, ParentType DEF Promise!RestoreAll, Promise!Together
    <2> QED
      BY <1>2, <1>3, <2>1, <2>3, <2>4, <2>5, <2>6, <2>7 DEF Promise!Next
  <1>4. Promise!Consistent /\ UNCHANGED shelf => Promise!Consistent'
    BY <1>1, <1>2
  <1>5. Promise!Init => Promise!Consistent
    BY DEF Promise!Init
  <1> QED
    BY <1>3, <1>4, <1>5, PTL DEF ImplementsShelves, Promise!Spec

----------------------------------------------------------------------------
(***************************************************************************)
(* Progress.                                                               *)
(***************************************************************************)
\* A cascade holds its category, so nobody else can have a subcategory of it.
LEMMA SweepsDoNotWait ==
    ASSUME Typed, Core, NEW p \in Requests, pc[p] = "sweep", NEW s \in matched[p]
    PROVE  RowFree(p, s)
  <1>1. s \in Subcategories /\ Parent[s] = tgt[p] /\ lock[tgt[p]] = p
    BY DEF Core, RequestInvariant, MatchedInCategory, CategoryDrafted, Transacting,
           SubcategoriesOf, Typed, TypeOK
  <1>2. ASSUME NEW q \in Requests, lock[s] = q PROVE q = p
    BY <1>1, <1>2, HeldInCategory
  <1> QED
    BY <1>1, <1>2 DEF RowFree, Typed, TypeOK, Items

\* Category and subcategory requests never deadlock, with any number of them and any
\* interleaving of their cascades: who has locked something never waits (ArchiveCategory
\* and RestoreCategory take the category first, and everybody else takes one row only).
THEOREM RequestsNeverDeadlock == Spec => []WaitsAreShort
  <1>1. Typed /\ CatalogInvariant => WaitsAreShort
    <2> SUFFICES ASSUME Typed, CatalogInvariant, NEW p \in Requests, Waits(p)
                 PROVE  /\ \A i \in Items : lock[i] # p
                        /\ \E q \in Requests : /\ lock[tgt[p]] = q /\ ~Waits(q)
                                               /\ StepsLeft(q) \in 1..3
      BY DEF WaitsAreShort
    <2>1. Core
      BY InvariantSplit
    <2>2. pc[p] = "apply" /\ ~RowFree(p, tgt[p])
      BY <2>1, SweepsDoNotWait DEF Waits
    <2>3. \A i \in Items : lock[i] # p
      BY <2>1, <2>2, IdleHoldsNothing DEF Transacting
    <2>4. PICK q \in Requests : lock[tgt[p]] = q
      <3>1. tgt[p] \in Items
        BY <2>2, AddressableType DEF Typed, Targeted
      <3> QED
        BY <2>2, <3>1 DEF RowFree, Typed, TypeOK
    <2>5. Transacting(q)
      <3>1. tgt[p] \in Items
        BY <2>2, AddressableType DEF Typed, Targeted
      <3> QED
        BY <2>1, <2>4, <3>1, IdleHoldsNothing
    <2>6. ~Waits(q)
      BY <2>1, <2>5, SweepsDoNotWait DEF Waits, Transacting
    <2> QED
      BY <2>3, <2>4, <2>5, <2>6 DEF Transacting, StepsLeft
  <1>2. Spec => [](Typed /\ CatalogInvariant)
    BY InvariantInit, InvariantStep, PTL DEF Spec
  <1> QED
    BY <1>1, <1>2, PTL

\* A step of p leaves it fewer of them.
LEMMA StepShortens ==
    ASSUME Typed, NEW p \in Requests, Start(p) \/ Progress(p) \/ Abort(p)
    PROVE  StepsLeft(p)' \in 0..StepsLeft(p) - 1
  <1>1. ASSUME Return(p), pc[p] # "done" PROVE StepsLeft(p)' \in 0..StepsLeft(p) - 1
    <2>1. pc'[p] = "done"
      BY <1>1 DEF Return, Typed, TypeOK
    <2> QED
      BY <1>1, <2>1 DEF StepsLeft
  <1>2. ASSUME pc[p] = "start", NEW i, NEW fields, NEW next \in {"parent", "write"},
               Begin(p, i, fields, next)
        PROVE  StepsLeft(p)' \in 0..StepsLeft(p) - 1
    <2>1. pc'[p] = next
      BY <1>2 DEF Begin, Typed, TypeOK
    <2> QED
      BY <1>2, <2>1 DEF StepsLeft
  <1>3. CASE Start(p)
    BY <1>1, <1>2, <1>3
    DEF Start, FindForCreate, FindForUpdate, FindForArchive, FindForRestoreCategory,
        FindForRestoreSubcategory, ReturnUnchanged
  <1>4. CASE FindParent(p)
    BY <1>1, <1>4 DEF FindParent, ReturnUnchanged, StepsLeft, Typed, TypeOK
  <1>5. ASSUME pc[p] \in {"write", "apply"}, NoRowAffected(p)
        PROVE  StepsLeft(p)' \in 0..StepsLeft(p) - 1
    BY <1>1, <1>5 DEF NoRowAffected, ReturnUnchanged, StepsLeft, Typed, TypeOK
  <1>6. CASE SelectRow(p)
    BY <1>5, <1>6 DEF SelectRow, StepsLeft, Typed, TypeOK
  <1>7. CASE WriteRow(p)
    BY <1>1, <1>5, <1>7 DEF WriteRow, StepsLeft, Typed, TypeOK
  <1>8. CASE SelectChildren(p) \/ WriteChildren(p)
    BY <1>8 DEF SelectChildren, WriteChildren, StepsLeft, Typed, TypeOK
  <1>9. CASE Commit(p) \/ Rollback(p) \/ Abort(p)
    BY <1>1, <1>9 DEF Commit, Rollback, Abort, Discard
  <1> QED
    BY <1>3, <1>4, <1>6, <1>7, <1>8, <1>9 DEF Progress

\* A request takes seven steps at most, whatever the others do meanwhile: no guard on
\* updated_at or archived_at and no wait for a lock makes it begin again. Every step of
\* the system is one of these.
THEOREM RequestsAreShort == Spec => NobodyIsDelayed
  <1>1. ASSUME Typed, NEW p \in Requests, OthersKept(p), NEW q \in Requests \ {p}
        PROVE  StepsLeft(q)' = StepsLeft(q)
    BY <1>1 DEF OthersKept, StepsLeft
  <1>2. Typed /\ [Next]_vars =>
          \/ \E p \in Requests :
                /\ StepsLeft(p)' \in 0..StepsLeft(p) - 1
                /\ \A q \in Requests \ {p} : StepsLeft(q)' = StepsLeft(q)
          \/ UNCHANGED vars
    BY <1>1, StepShortens, StepKeepsOthers DEF Next
  <1> QED
    BY <1>2, InitTyped, StepTyped, PTL DEF Spec, NobodyIsDelayed

=============================================================================
