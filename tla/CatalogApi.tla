----------------------------- MODULE CatalogApi -----------------------------
(***************************************************************************)
(* The HTTP endpoints of categories and subcategories on top of Catalog:   *)
(* the status code each outcome of a service becomes, and what a client    *)
(* that got it may rely on while others go on editing, archiving and       *)
(* restoring.                                                              *)
(*                                                                         *)
(* Every step of Catalog is a step here; the module adds the answers.      *)
(***************************************************************************)
EXTENDS Catalog, Endpoints

VARIABLE answer     \* what the client got, and the write it asked for

----------------------------------------------------------------------------
(***************************************************************************)
(* Errors and status codes.                                                *)
(***************************************************************************)
\* ErrCategoryNotFound and ErrSubcategoryNotFound, and the two concurrent updates.
Errors == {"ErrNotFound", "ErrConcurrentUpdate", "ErrParentCategoryArchived"}

FailureCodes == [ErrNotFound |-> "404", ErrConcurrentUpdate |-> "409",
                 ErrParentCategoryArchived |-> "422"]

\* A statement fails for good, or on the unique index on active names. Only a category's
\* own name is known to RestoreCategory: that of a subcategory it would bring back is not.
CreateCategory == Endpoint(BeforeHandler, "201", FailureCodes, {"409", "500"})
PatchCategory == Endpoint(BeforeHandler, "200", FailureCodes, {"409", "500"})
DeleteCategory == Endpoint(BeforeHandler, "200", FailureCodes, {"500"})
RestoreCategory == Endpoint(BeforeHandler, "200", FailureCodes, {"409", "500"})
CreateSubcategory == Endpoint(BeforeHandler, "201", FailureCodes, {"409", "500"})
PatchSubcategory == Endpoint(BeforeHandler, "200", FailureCodes, {"409", "500"})
DeleteSubcategory == Endpoint(BeforeHandler, "200", FailureCodes, {"500"})

\* Here a name that is taken is a business rule.
RestoreSubcategory == Endpoint(BeforeHandler, "200", FailureCodes, {"422", "500"})

Handler(p) ==
    CASE kind[p] = "createCategory" -> CreateCategory
      [] kind[p] = "updateCategory" -> PatchCategory
      [] kind[p] = "archiveCategory" -> DeleteCategory
      [] kind[p] = "restoreCategory" -> RestoreCategory
      [] kind[p] = "createSubcategory" -> CreateSubcategory
      [] kind[p] = "updateSubcategory" -> PatchSubcategory
      [] kind[p] = "archiveSubcategory" -> DeleteSubcategory
      [] kind[p] = "restoreSubcategory" -> RestoreSubcategory

\* The code with the row, the fields and the time of the write. An answer that never
\* arrives counts as a 500: neither tells the client what became of the request.
Answer(code, i, fields, at) == [code |-> code, row |-> i, fields |-> fields, at |-> at]

NoAnswer == Answer("none", Nothing, {}, 0)

Reply(p, i, codes) ==
    \E code \in codes \cup {"500"} :
       answer' = [answer EXCEPT ![p] = Answer(code, i, edits[p], now[p])]

ReplyError(p, errors) == Reply(p, tgt[p], {Handler(p).failure[e] : e \in errors})

ApiInit == Init /\ answer = [p \in Requests |-> NoAnswer]

----------------------------------------------------------------------------
(***************************************************************************)
(* Answers without a write.                                                *)
(***************************************************************************)
\* The handler answers before it calls the service.
Refuse(p) ==
    /\ pc[p] = "start"
    /\ answer[p] = NoAnswer
    /\ Reply(p, Nothing, Handler(p).refused)
    /\ UNCHANGED vars

\* Archived or restored already: the row is answered as it is.
Settled(p, i) ==
    \/ Archives(p) /\ rows[i].present /\ ~Active(rows[i])
    \/ ~Archives(p) /\ ~Creates(p) /\ ~Updates(p) /\ Active(rows[i])

\* The row a service has to find: that of the parent if it is to create a subcategory.
Sought(p, i) == IF kind[p] = "createSubcategory" THEN Parent[i] ELSE i

FindErrors(p, i) ==
    CASE Settled(p, i) -> {}
      [] ~rows[Sought(p, i)].present -> {"ErrNotFound"}
      [] Sought(p, i) # i /\ ~Active(rows[Sought(p, i)]) -> {"ErrParentCategoryArchived"}
      [] OTHER -> {}

\* The row addressed is one with which Start ends the request here.
FoundUnfit(p) ==
    \E i \in Addressable(p) :
       /\ Creates(p) => ~rows[i].present
       /\ IF Settled(p, i)
          THEN Reply(p, i, {Handler(p).success})
          ELSE /\ FindErrors(p, i) # {}
               /\ Reply(p, i, {Handler(p).failure[e] : e \in FindErrors(p, i)})

Accept(p) ==
    /\ answer[p] = NoAnswer
    /\ Start(p)
    /\ IF pc'[p] = "done" THEN FoundUnfit(p) ELSE UNCHANGED answer

RejectParent(p) ==
    /\ FindParent(p)
    /\ IF pc'[p] = "done" THEN ReplyError(p, {"ErrParentCategoryArchived"})
                          ELSE UNCHANGED answer

\* Why a statement has affected no row. existsByID and, for a subcategory, the state of
\* its parent are read after it, when the parent may have been restored again.
NoRowErrors(p) ==
    CASE Updates(p) -> {"ErrConcurrentUpdate"}
      [] NeedsActiveParent(p) -> {"ErrParentCategoryArchived", "ErrNotFound"}
      [] OTHER -> {"ErrNotFound"}

----------------------------------------------------------------------------
(***************************************************************************)
(* The statements, and the end of the request.                             *)
(***************************************************************************)
Matches(p) == Selects(p, rows[tgt[p]])

Select(p) ==
    /\ SelectRow(p)
    /\ IF pc'[p] = "done" THEN ReplyError(p, NoRowErrors(p)) ELSE UNCHANGED answer

Write(p) ==
    /\ WriteRow(p)
    /\ CASE pc'[p] # "done" -> UNCHANGED answer
         [] pc'[p] = "done" /\ Matches(p) -> Reply(p, tgt[p], {Handler(p).success})
         [] OTHER -> ReplyError(p, NoRowErrors(p))

Cascade(p) == (SelectChildren(p) \/ WriteChildren(p)) /\ UNCHANGED answer

Complete(p) == Commit(p) /\ Reply(p, tgt[p], {Handler(p).success})

ReportError(p) == Rollback(p) /\ ReplyError(p, NoRowErrors(p))

\* The cascade's name conflicts are unknown to the handler.
Break(p) ==
    /\ Abort(p)
    /\ Reply(p, tgt[p], IF pc[p] = "apply" THEN Handler(p).broken ELSE {"500"})

Serve(p) == \/ RejectParent(p)
            \/ Select(p)
            \/ Write(p)
            \/ Cascade(p)
            \/ Complete(p)
            \/ ReportError(p)

ApiNext == \/ \E p \in Requests : Refuse(p) \/ Accept(p) \/ Serve(p) \/ Break(p)
           \/ AllDone /\ UNCHANGED <<vars, answer>>

ApiSpec == ApiInit /\ [][ApiNext]_<<vars, answer>>

\* The handler goroutines and Postgres go on with what has begun.
ApiFairness == \A p \in Requests : WF_<<vars, answer>>(Serve(p))

ApiFairSpec == ApiSpec /\ ApiFairness

----------------------------------------------------------------------------
(***************************************************************************)
(* Properties.                                                             *)
(***************************************************************************)
Succeeded(p) == answer[p].code \in Successes

Revives(p) == Creates(p) \/ kind[p] \in {"restoreCategory", "restoreSubcategory"}

\* The row a request has archived, and what is hidden with it.
Hidden(i) == {i} \cup IF i \in Categories THEN SubcategoriesOf(i) ELSE {}

\* An edit a client was told had succeeded is there for as long as nobody edits the same
\* field later: no request that read the row before the edit and writes it afterwards,
\* and no archive or restore with its cascade, takes it back (PatchCategory,
\* PatchSubcategory and what they race with).
ConfirmedEditsKept ==
    \A p \in Requests :
        Succeeded(p) => \A f \in answer[p].fields :
                            rows[answer[p].row].field[f] >= answer[p].at

\* What a client was told is archived is archived, a category with all subcategories,
\* and stays so until somebody asks to restore or to create: also when the answer
\* was given for what another request had archived, and whatever edits were on their
\* way (DeleteCategory, DeleteSubcategory).
ConfirmedArchiveHides ==
    \A p \in Requests :
        Succeeded(p) /\ Archives(p) /\ (\A q \in Requests : Revives(q) => pc[q] = "start")
        => \A i \in Hidden(answer[p].row) : ~Active(rows[i])

\* Every request that has begun is answered, in the end and once: the category is
\* locked before its subcategories, and a single row by one statement.
EveryRequestAnswered ==
    \A p \in Requests : (pc[p] # "start") ~> (pc[p] = "done" /\ answer[p] # NoAnswer)
=============================================================================
