------------------------------- MODULE Ledger -------------------------------
(***************************************************************************)
(* Concurrent HTTP requests against the accounts and transactions tables.  *)
(*                                                                         *)
(* A request runs the application services of internal/app/accounting. The *)
(* transaction requests run inside one database transaction (TxManager.    *)
(* WithinTx, READ COMMITTED); the account requests are single autocommit   *)
(* statements. One action is one SQL statement together with the Go code   *)
(* between it and the next statement, so requests interleave exactly where *)
(* Postgres lets them.                                                     *)
(*                                                                         *)
(* A row of a table is three things: its committed version, the version    *)
(* its lock holder has written but not committed (`Draft`), and its lock   *)
(* holder. A SELECT never waits and sees the reader's own draft or the     *)
(* committed version. An UPDATE or DELETE waits for the row lock and then  *)
(* evaluates its WHERE clause on the newest version.                       *)
(*                                                                         *)
(* The balance column is kept as the sum it is: `postings[t]` is what      *)
(* transaction t has added to it so far, and `balance_minor` is the opening*)
(* balance plus all of them (operator Balance). `balance + delta` for      *)
(* transaction t is an addition to coordinate t. A stale write of a balance*)
(* therefore shows as the coordinate of the transaction it wiped out.      *)
(***************************************************************************)
EXTENDS Transaction, Functions

CONSTANTS
    TxIds,          \* ids the idgen can hand out
    Requests,       \* HTTP requests, each handled once
    Free,           \* the holder of an unlocked row
    Shapes,         \* transaction bodies clients send
    InitialTables,  \* contents of the transactions table before the requests
    Kinds,          \* the endpoints called
    MaxItems,       \* transactionsBulkMaxItems (100 in the code)
    ClockSteps,     \* how far the clock may have moved between two readings
    Opening         \* initial_balance_minor of each account

BulkKinds == {"createBulk", "patchBulk"}
AccountKinds == {"updateAccount", "archiveAccount", "restoreAccount"}
ItemKinds == {"create", "duplicate", "patch", "delete", "post", "cancel"}
AllKinds == ItemKinds \cup BulkKinds \cup AccountKinds

\* Rows a finished history can have left behind.
InitialRows == {NoRow} \cup
    {Row(s, status, 0) : s \in {x \in Shapes : ValidShape(x)},
                         status \in {"planned", "posted", "cancelled"}}

ASSUME LedgerAssumption ==
    /\ Free \notin Requests
    /\ Shapes \subseteq Shape
    /\ Kinds \subseteq AllKinds
    /\ MaxItems \in Nat \ {0}
    /\ ClockSteps \subseteq Nat
    /\ Opening \in [Accounts -> Int]
    /\ InitialTables \subseteq [TxIds -> InitialRows]

VARIABLES
    \* the database
    accounts, accDraft, accLock,
    txns, txDraft, txLock,
    minted,         \* ids handed out so far
    clock,
    \* one entry per request
    kind,           \* the endpoint (never changes)
    pc,             \* the next statement
    count,          \* items finished, for a bulk request
    op,             \* the service working on the current item
    tgt,            \* the transaction it works on
    now,            \* its clock reading
    seen,           \* the transaction row it has read
    row,            \* the row it is about to write or has written
    acct,           \* the account it works on
    aseen,          \* the account row it has read
    todo,           \* accounts whose balance is still to be adjusted
    goal,           \* bulk patch: the requested status, "none" when not set
    was             \* bulk patch: the status GetByID saw

tableVars == <<accounts, accDraft, accLock, txns, txDraft, txLock>>
accTable == <<accounts, accDraft, accLock>>
txTable == <<txns, txDraft, txLock>>
itemVars == <<op, tgt, now, seen, row, acct, aseen, todo, goal, was>>
vars == <<accounts, accDraft, accLock, txns, txDraft, txLock, minted, clock,
          kind, pc, count, op, tgt, now, seen, row, acct, aseen, todo, goal, was>>

AccountRow == [postings : [TxIds -> Int], archived : BOOLEAN, ver : Nat]

\* balance_minor of an account row of account a.
Balance(accountRow, a) == Opening[a] + SumFunction(accountRow.postings)

\* What a statement of request p sees.
VisibleTx(p, t) == IF txLock[t] = p THEN txDraft[t] ELSE txns[t]
VisibleAccount(p, a) == IF accLock[a] = p THEN accDraft[a] ELSE accounts[a]

TxRowFree(p, t) == txLock[t] \in {Free, p}
AccountRowFree(p, a) == accLock[a] \in {Free, p}

Readings == {clock + d : d \in ClockSteps}

----------------------------------------------------------------------------
NoTx == "none"

NoAccountRow == [postings |-> [t \in TxIds |-> 0], archived |-> FALSE, ver |-> 0]

\* The balances a table of transactions goes with include exactly its posted rows.
InitTables(rows) ==
    /\ txns = rows
    /\ accounts = [a \in Accounts |->
                     [postings |-> [t \in TxIds |-> Posting(rows[t], a)],
                      archived |-> FALSE,
                      ver |-> 0]]
    /\ minted = {t \in TxIds : Exists(rows[t])}

InitRequests ==
    /\ kind \in [Requests -> Kinds]
    /\ pc = [p \in Requests |-> "start"]
    /\ count = [p \in Requests |-> 0]
    /\ op = [p \in Requests |-> "none"]
    /\ tgt = [p \in Requests |-> NoTx]
    /\ now = [p \in Requests |-> 0]
    /\ seen = [p \in Requests |-> NoRow]
    /\ row = [p \in Requests |-> NoRow]
    /\ acct = [p \in Requests |-> NoAccount]
    /\ aseen = [p \in Requests |-> NoAccountRow]
    /\ todo = [p \in Requests |-> {}]
    /\ goal = [p \in Requests |-> "none"]
    /\ was = [p \in Requests |-> "none"]

Init ==
    /\ \E rows \in InitialTables : InitTables(rows)
    /\ txDraft = txns
    /\ txLock = [t \in TxIds |-> Free]
    /\ accDraft = accounts
    /\ accLock = [a \in Accounts |-> Free]
    /\ clock = 1
    /\ InitRequests

----------------------------------------------------------------------------
(***************************************************************************)
(* Database transactions.                                                  *)
(***************************************************************************)
Running(p) == pc[p] \notin {"start", "done"}

\* The handler has returned: its local variables are gone.
Return(p) ==
    /\ pc' = [pc EXCEPT ![p] = "done"]
    /\ count' = [count EXCEPT ![p] = 0]
    /\ op' = [op EXCEPT ![p] = "none"]
    /\ tgt' = [tgt EXCEPT ![p] = NoTx]
    /\ now' = [now EXCEPT ![p] = 0]
    /\ seen' = [seen EXCEPT ![p] = NoRow]
    /\ row' = [row EXCEPT ![p] = NoRow]
    /\ acct' = [acct EXCEPT ![p] = NoAccount]
    /\ aseen' = [aseen EXCEPT ![p] = NoAccountRow]
    /\ todo' = [todo EXCEPT ![p] = {}]
    /\ goal' = [goal EXCEPT ![p] = "none"]
    /\ was' = [was EXCEPT ![p] = "none"]
    /\ UNCHANGED kind

Unlock(p) ==
    /\ txLock' = [t \in TxIds |-> IF txLock[t] = p THEN Free ELSE txLock[t]]
    /\ accLock' = [a \in Accounts |-> IF accLock[a] = p THEN Free ELSE accLock[a]]

\* WithinTx after a nil error: every draft of p becomes the committed version.
Commit(p) ==
    /\ pc[p] = "end"
    /\ txns' = [t \in TxIds |-> VisibleTx(p, t)]
    /\ accounts' = [a \in Accounts |-> VisibleAccount(p, a)]
    /\ Unlock(p)
    /\ Return(p)
    /\ UNCHANGED <<txDraft, accDraft, minted, clock>>

\* Every draft of p is thrown away.
Discard(p) ==
    /\ txDraft' = [t \in TxIds |-> IF txLock[t] = p THEN txns[t] ELSE txDraft[t]]
    /\ accDraft' = [a \in Accounts |-> IF accLock[a] = p THEN accounts[a]
                                                         ELSE accDraft[a]]
    /\ Unlock(p)
    /\ Return(p)
    /\ UNCHANGED <<txns, accounts, minted, clock>>

\* Variant for testing the properties: the rollback is forgotten, locks stay.
RollbackForgotten(p) ==
    /\ pc[p] = "fail"
    /\ Return(p)
    /\ UNCHANGED <<tableVars, minted, clock>>

\* WithinTx after an error of the service.
Rollback(p) == pc[p] = "fail" /\ Discard(p)

\* Any statement or the commit itself fails: the request context is cancelled,
\* the connection is lost, the process dies.
Abort(p) == Running(p) /\ pc[p] # "fail" /\ Discard(p)

(***************************************************************************)
(* Waiting for row locks. Each request waits for at most one row, so the   *)
(* requests of a set in which each waits for one of the set, and each is   *)
(* waited for, are exactly those on a cycle. Postgres ends one of them.    *)
(***************************************************************************)
WaitsFor(p, q) ==
    /\ p # q
    /\ \/ pc[p] = "write" /\ txLock[tgt[p]] = q
       \/ pc[p] \in {"adjust", "awrite"} /\ accLock[acct[p]] = q

Circle(S) == \A q \in S : /\ \E r \in S : WaitsFor(q, r)
                          /\ \E r \in S : WaitsFor(r, q)

OnCycle(p) == \E S \in SUBSET Requests : p \in S /\ Circle(S)

DeadlockVictim(p) == OnCycle(p) /\ Discard(p)

----------------------------------------------------------------------------
(***************************************************************************)
(* Starting an item. A single-item request has one, a bulk request up to   *)
(* MaxItems; the items of a request are chosen as they are reached.        *)
(***************************************************************************)
MayStart(p) ==
    \/ pc[p] = "start"
    \/ /\ pc[p] = "end"
       /\ kind[p] \in BulkKinds
       /\ count[p] < MaxItems

ReadClock(p, n) == clock' = n /\ now' = [now EXCEPT ![p] = n]

\* applyTransactionBalanceEffect is entered with the accounts in `due`.
Apply(p, due, otherwise) ==
    /\ todo' = [todo EXCEPT ![p] = due]
    /\ pc' = [pc EXCEPT ![p] = IF due = {} THEN otherwise ELSE "apply"]

\* createInTx up to the first statement.
StartCreate(p) ==
    /\ MayStart(p)
    /\ kind[p] \in {"create", "createBulk"}
    /\ \E n \in Readings, t \in TxIds \ minted, s \in Shapes,
          status \in {"planned", "posted"} :
         /\ ReadClock(p, n)
         /\ minted' = minted \cup {t}
         /\ tgt' = [tgt EXCEPT ![p] = t]
         /\ row' = [row EXCEPT ![p] = Row(s, status, n)]
         /\ IF ValidShape(s)
            THEN Apply(p, IF status = "posted" THEN Affected(s) ELSE {}, "insert")
            ELSE pc' = [pc EXCEPT ![p] = "fail"] /\ UNCHANGED todo
    /\ op' = [op EXCEPT ![p] = "create"]
    /\ count' = [count EXCEPT ![p] = @ + 1]
    /\ UNCHANGED <<tableVars, kind, seen, acct, aseen, goal, was>>

\* PostByID, CancelByID and DuplicateByID read the clock first; so do postInTx and
\* cancelInTx.
StartTimed(p) ==
    /\ MayStart(p)
    /\ kind[p] \in {"post", "cancel", "duplicate"}
    /\ \E n \in Readings : ReadClock(p, n)
    /\ \E t \in TxIds : tgt' = [tgt EXCEPT ![p] = t]
    /\ op' = [op EXCEPT ![p] = kind[p]]
    /\ pc' = [pc EXCEPT ![p] = "find"]
    /\ count' = [count EXCEPT ![p] = @ + 1]
    /\ UNCHANGED <<tableVars, minted, kind, seen, row, acct, aseen, todo, goal, was>>

\* Patch and DeleteByID.
StartUntimed(p) ==
    /\ MayStart(p)
    /\ kind[p] \in {"patch", "delete"}
    /\ \E t \in TxIds : tgt' = [tgt EXCEPT ![p] = t]
    /\ op' = [op EXCEPT ![p] = kind[p]]
    /\ pc' = [pc EXCEPT ![p] = "find"]
    /\ count' = [count EXCEPT ![p] = @ + 1]
    /\ UNCHANGED <<tableVars, minted, clock, kind, now, seen, row, acct, aseen,
                   todo, goal, was>>

\* An item of PatchBulk: GetByID, then patchWithoutStatus.
StartBulkPatch(p) ==
    /\ MayStart(p)
    /\ kind[p] = "patchBulk"
    /\ \E t \in TxIds, g \in Statuses :
         /\ tgt' = [tgt EXCEPT ![p] = t]
         /\ goal' = [goal EXCEPT ![p] = g]
         /\ was' = [was EXCEPT ![p] = VisibleTx(p, t).status]
         /\ pc' = [pc EXCEPT ![p] = IF Exists(VisibleTx(p, t)) THEN "find" ELSE "fail"]
    /\ op' = [op EXCEPT ![p] = "patch"]
    /\ count' = [count EXCEPT ![p] = @ + 1]
    /\ UNCHANGED <<tableVars, minted, clock, kind, now, seen, row, acct, aseen, todo>>

----------------------------------------------------------------------------
(***************************************************************************)
(* FindByID of the transaction and the checks and construction that follow *)
(* it. Each service has its own.                                           *)
(***************************************************************************)
Fail(p) ==
    /\ pc' = [pc EXCEPT ![p] = "fail"]
    /\ UNCHANGED <<clock, minted, now, tgt, seen, row, todo>>

Found(p, current, candidate) ==
    /\ seen' = [seen EXCEPT ![p] = current]
    /\ row' = [row EXCEPT ![p] = candidate]
    /\ pc' = [pc EXCEPT ![p] = "write"]
    /\ UNCHANGED todo

FindForPost(p) ==
    LET current == VisibleTx(p, tgt[p]) IN
    /\ pc[p] = "find"
    /\ op[p] = "post"
    /\ IF CanPost(current)
       THEN Found(p, current, Post(current, now[p])) /\ UNCHANGED <<clock, minted, now, tgt>>
       ELSE Fail(p)
    /\ UNCHANGED <<tableVars, kind, count, op, acct, aseen, goal, was>>

FindForCancel(p) ==
    LET current == VisibleTx(p, tgt[p]) IN
    /\ pc[p] = "find"
    /\ op[p] = "cancel"
    /\ IF CanCancel(current)
       THEN Found(p, current, Cancel(current, now[p])) /\ UNCHANGED <<clock, minted, now, tgt>>
       ELSE Fail(p)
    /\ UNCHANGED <<tableVars, kind, count, op, acct, aseen, goal, was>>

\* Variant for testing the properties: the posted check of patchInTx is missing.
MoneyPatchableUnlessCancelled(current) == current.status \in {"planned", "posted"}

MoneyPatchable(current) == current.status = "planned"

\* patchInTx: the input either leaves the fields a balance depends on alone, or
\* sets them; a posted row refuses the second kind, a cancelled row both.
FindForPatch(p) ==
    LET current == VisibleTx(p, tgt[p]) IN
    /\ pc[p] = "find"
    /\ op[p] = "patch"
    /\ \/ /\ current.status \in {"planned", "posted"}
          /\ \E n \in Readings :
               /\ ReadClock(p, n)
               /\ Found(p, current, [current EXCEPT !.ver = n])
          /\ UNCHANGED <<minted, tgt>>
       \/ /\ MoneyPatchable(current)
          /\ \E n \in Readings, s \in {x \in Shapes : ValidShape(x)} :
               /\ ReadClock(p, n)
               /\ Found(p, current, Row(s, current.status, n))
          /\ UNCHANGED <<minted, tgt>>
       \/ Fail(p)
    /\ UNCHANGED <<tableVars, kind, count, op, acct, aseen, goal, was>>

FindForDelete(p) ==
    LET current == VisibleTx(p, tgt[p]) IN
    /\ pc[p] = "find"
    /\ op[p] = "delete"
    /\ IF current.status \in {"planned", "cancelled"}
       THEN Found(p, current, NoRow) /\ UNCHANGED <<clock, minted, now, tgt>>
       ELSE Fail(p)
    /\ UNCHANGED <<tableVars, kind, count, op, acct, aseen, goal, was>>

\* DuplicateByID: the copy has a fresh id; it is posted only when asked for. (The
\* bound on TxIds shows as a failing request.)
FindForDuplicate(p) ==
    LET source == VisibleTx(p, tgt[p]) IN
    /\ pc[p] = "find"
    /\ op[p] = "duplicate"
    /\ IF Exists(source) /\ TxIds \ minted # {}
       THEN \E t \in TxIds \ minted, status \in {"planned", "posted"} :
              /\ minted' = minted \cup {t}
              /\ tgt' = [tgt EXCEPT ![p] = t]
              /\ row' = [row EXCEPT ![p] = Row(source, status, now[p])]
              /\ Apply(p, IF status = "posted" THEN Affected(source) ELSE {}, "insert")
              /\ UNCHANGED <<clock, now, seen>>
       ELSE Fail(p)
    /\ UNCHANGED <<tableVars, kind, count, op, acct, aseen, goal, was>>

----------------------------------------------------------------------------
\* Variant for testing the properties: UPDATE and DELETE ignore updated_at.
UnchangedIfExists(newest, read) == Exists(newest)

\* The newest version still is the one that was read, judged by updated_at.
Unchanged(newest, read) == Exists(newest) /\ newest.ver = read.ver

\* TransactionRepository.UpdateByID, and what the service does once it succeeded.
WriteTransaction(p) ==
    LET t == tgt[p]
        newest == VisibleTx(p, t)
        due == IF op[p] = "post" \/ (op[p] = "cancel" /\ seen[p].status = "posted")
               THEN Affected(row[p]) ELSE {}
        after == IF kind[p] = "patchBulk" /\ op[p] = "patch" THEN "status" ELSE "end"
    IN
    /\ pc[p] = "write"
    /\ op[p] \in {"post", "cancel", "patch"}
    /\ TxRowFree(p, t)
    /\ IF Unchanged(newest, seen[p])
       THEN /\ txDraft' = [txDraft EXCEPT ![t] = row[p]]
            /\ txLock' = [txLock EXCEPT ![t] = p]
            /\ Apply(p, due, after)
       ELSE pc' = [pc EXCEPT ![p] = "fail"] /\ UNCHANGED <<txDraft, txLock, todo>>
    /\ UNCHANGED <<accTable, txns, minted, clock, kind, count, op, tgt, now, seen,
                   row, acct, aseen, goal, was>>

\* TransactionRepository.DeleteByID: the statement itself refuses posted rows.
DeleteTransaction(p) ==
    LET t == tgt[p]
        newest == VisibleTx(p, t)
    IN
    /\ pc[p] = "write"
    /\ op[p] = "delete"
    /\ TxRowFree(p, t)
    /\ IF Unchanged(newest, seen[p]) /\ newest.status # "posted"
       THEN /\ txDraft' = [txDraft EXCEPT ![t] = NoRow]
            /\ txLock' = [txLock EXCEPT ![t] = p]
            /\ pc' = [pc EXCEPT ![p] = "end"]
       ELSE pc' = [pc EXCEPT ![p] = "fail"] /\ UNCHANGED <<txDraft, txLock>>
    /\ UNCHANGED <<accTable, txns, minted, clock, kind, count, op, tgt, now, seen,
                   row, acct, aseen, todo, goal, was>>

\* TransactionRepository.Create.
InsertTransaction(p) ==
    /\ pc[p] = "insert"
    /\ txDraft' = [txDraft EXCEPT ![tgt[p]] = row[p]]
    /\ txLock' = [txLock EXCEPT ![tgt[p]] = p]
    /\ pc' = [pc EXCEPT ![p] = "end"]
    /\ UNCHANGED <<accTable, txns, minted, clock, kind, count, op, tgt, now, seen,
                   row, acct, aseen, todo, goal, was>>

\* validateBulkPatchStatusTransition.
BulkTransition(from, to) ==
    \/ from = "planned" /\ to \in {"planned", "posted", "cancelled"}
    \/ from = "posted" /\ to = "cancelled"

\* PatchBulk after patchWithoutStatus: the transition is judged by the status
\* GetByID saw, and carried out by postInTx or cancelInTx.
BulkStatus(p) ==
    /\ pc[p] = "status"
    /\ \/ /\ goal[p] = "none" \/ (BulkTransition(was[p], goal[p]) /\ goal[p] = "planned")
          /\ pc' = [pc EXCEPT ![p] = "end"]
          /\ UNCHANGED <<op, clock, now>>
       \/ /\ goal[p] # "none"
          /\ ~BulkTransition(was[p], goal[p])
          /\ pc' = [pc EXCEPT ![p] = "fail"]
          /\ UNCHANGED <<op, clock, now>>
       \/ /\ BulkTransition(was[p], goal[p])
          /\ goal[p] \in {"posted", "cancelled"}
          /\ op' = [op EXCEPT ![p] = IF goal[p] = "posted" THEN "post" ELSE "cancel"]
          /\ \E n \in Readings : ReadClock(p, n)
          /\ pc' = [pc EXCEPT ![p] = "find"]
    /\ UNCHANGED <<tableVars, minted, kind, count, tgt, seen, row, acct, aseen,
                   todo, goal, was>>

----------------------------------------------------------------------------
(***************************************************************************)
(* applyTransactionBalanceEffect: the affected accounts in id order, each  *)
(* read and then written with the optimistic lock.                         *)
(***************************************************************************)
\* Variant for testing the properties: the ids are not sorted.
NextAccountUnsorted(p, a) == a \in todo[p]

NextAccount(p, a) == a \in todo[p] /\ \A b \in todo[p] : a <= b

ReadAccount(p) ==
    /\ pc[p] = "apply"
    /\ \E a \in todo[p] :
         /\ NextAccount(p, a)
         /\ acct' = [acct EXCEPT ![p] = a]
         /\ aseen' = [aseen EXCEPT ![p] = VisibleAccount(p, a)]
    /\ pc' = [pc EXCEPT ![p] = "adjust"]
    /\ UNCHANGED <<tableVars, minted, clock, kind, count, op, tgt, now, seen, row,
                   todo, goal, was>>

Sign(p) == IF op[p] = "cancel" THEN -1 ELSE 1

\* account.Balance() + delta: Cancel keeps the fields deltas are computed from, so
\* those of `row` and of the row that was read agree.
Adjusted(p) ==
    [aseen[p].postings EXCEPT ![tgt[p]] = @ + Sign(p) * Delta(row[p], acct[p])]

\* Variant for testing the properties: the WHERE clause forgets updated_at.
SameVersionUnchecked(newest, read) == TRUE

SameVersion(newest, read) == newest.ver = read.ver

\* AccountRepository.UpdateByID does not write archived_at.
AdjustAccount(p) ==
    LET a == acct[p]
        newest == VisibleAccount(p, a)
        left == todo[p] \ {a}
        after == IF op[p] \in {"create", "duplicate"} THEN "insert" ELSE "end"
    IN
    /\ pc[p] = "adjust"
    /\ AccountRowFree(p, a)
    /\ IF SameVersion(newest, aseen[p])
       THEN /\ accDraft' = [accDraft EXCEPT ![a] =
                              [postings |-> Adjusted(p),
                               archived |-> newest.archived,
                               ver |-> now[p]]]
            /\ accLock' = [accLock EXCEPT ![a] = p]
            /\ Apply(p, left, after)
       ELSE pc' = [pc EXCEPT ![p] = "fail"] /\ UNCHANGED <<accDraft, accLock, todo>>
    /\ UNCHANGED <<txTable, accounts, minted, clock, kind, count, op, tgt, now, seen,
                   row, acct, aseen, goal, was>>

----------------------------------------------------------------------------
(***************************************************************************)
(* Account requests run without a transaction: a SELECT, and an UPDATE that*)
(* commits at once.                                                        *)
(***************************************************************************)
FindAccount(p) ==
    /\ pc[p] = "start"
    /\ kind[p] \in AccountKinds
    /\ \E a \in Accounts, n \in Readings :
         \/ /\ \/ kind[p] = "updateAccount"
               \/ kind[p] = "archiveAccount" /\ ~accounts[a].archived
               \/ kind[p] = "restoreAccount" /\ accounts[a].archived
            /\ ReadClock(p, n)
            /\ acct' = [acct EXCEPT ![p] = a]
            /\ aseen' = [aseen EXCEPT ![p] = accounts[a]]
            /\ pc' = [pc EXCEPT ![p] = "awrite"]
            /\ UNCHANGED <<count, op, tgt, seen, row, todo, goal, was>>
         \/ /\ \/ kind[p] = "archiveAccount" /\ accounts[a].archived
               \/ kind[p] = "restoreAccount" /\ ~accounts[a].archived
            /\ Return(p)
            /\ UNCHANGED clock
    /\ UNCHANGED <<tableVars, minted, kind>>

\* Variant for testing the properties: ArchiveByID leaves updated_at alone.
AccountStatementKeepingToken(p, newest) ==
    CASE kind[p] = "updateAccount" ->
           IF SameVersion(newest, aseen[p])
           THEN [newest EXCEPT !.postings = aseen[p].postings, !.ver = now[p]]
           ELSE newest
      [] kind[p] = "archiveAccount" -> [newest EXCEPT !.archived = TRUE]
      [] OTHER -> [newest EXCEPT !.archived = FALSE, !.ver = now[p]]

\* The UPDATE statement of the request; no row matching is an error or, for archive,
\* an account somebody else archived first. Nothing changes then.
AccountStatement(p, newest) ==
    CASE kind[p] = "updateAccount" ->
           IF SameVersion(newest, aseen[p])
           THEN [newest EXCEPT !.postings = aseen[p].postings, !.ver = now[p]]
           ELSE newest
      [] kind[p] = "archiveAccount" ->
           IF newest.archived THEN newest
           ELSE [newest EXCEPT !.archived = TRUE, !.ver = now[p]]
      [] OTHER -> [newest EXCEPT !.archived = FALSE, !.ver = now[p]]

WriteAccount(p) ==
    LET a == acct[p] IN
    /\ pc[p] = "awrite"
    /\ AccountRowFree(p, a)
    /\ accounts' = [accounts EXCEPT ![a] = AccountStatement(p, @)]
    /\ accDraft' = [accDraft EXCEPT ![a] = AccountStatement(p, accounts[a])]
    /\ Return(p)
    /\ UNCHANGED <<txTable, accLock, minted, clock>>

----------------------------------------------------------------------------
Start(p) == StartCreate(p) \/ StartTimed(p) \/ StartUntimed(p) \/ StartBulkPatch(p)

Find(p) == \/ FindForPost(p)
           \/ FindForCancel(p)
           \/ FindForPatch(p)
           \/ FindForDelete(p)
           \/ FindForDuplicate(p)

Write(p) == \/ WriteTransaction(p)
            \/ DeleteTransaction(p)
            \/ InsertTransaction(p)
            \/ BulkStatus(p)
            \/ ReadAccount(p)
            \/ AdjustAccount(p)

AccountRequest(p) == FindAccount(p) \/ WriteAccount(p)

\* What the handler goroutine and Postgres carry out on their own.
Progress(p) == \/ Find(p)
               \/ Write(p)
               \/ AccountRequest(p)
               \/ Commit(p)
               \/ Rollback(p)
               \/ DeadlockVictim(p)

AllDone == \A p \in Requests : pc[p] \in {"start", "done"}

Next == \/ \E p \in Requests : Start(p) \/ Progress(p) \/ Abort(p)
        \/ AllDone /\ UNCHANGED vars

Spec == Init /\ [][Next]_vars

----------------------------------------------------------------------------
(***************************************************************************)
(* Properties.                                                             *)
(***************************************************************************)
Pcs == {"start", "find", "write", "status", "apply", "adjust", "insert", "end",
        "fail", "awrite", "done"}

\* Every variable holds a value of its type.
TypeOK ==
    /\ accounts \in [Accounts -> AccountRow]
    /\ accDraft \in [Accounts -> AccountRow]
    /\ accLock \in [Accounts -> Requests \cup {Free}]
    /\ txns \in [TxIds -> TransactionRow]
    /\ txDraft \in [TxIds -> TransactionRow]
    /\ txLock \in [TxIds -> Requests \cup {Free}]
    /\ minted \in SUBSET TxIds
    /\ clock \in Nat
    /\ kind \in [Requests -> AllKinds]
    /\ pc \in [Requests -> Pcs]
    /\ count \in [Requests -> Nat]
    /\ op \in [Requests -> ItemKinds \cup {"none"}]
    /\ tgt \in [Requests -> TxIds \cup {NoTx}]
    /\ now \in [Requests -> Nat]
    /\ seen \in [Requests -> TransactionRow]
    /\ row \in [Requests -> TransactionRow]
    /\ acct \in [Requests -> AccountRef]
    /\ aseen \in [Requests -> AccountRow]
    /\ todo \in [Requests -> SUBSET Accounts]
    /\ goal \in [Requests -> Statuses]
    /\ was \in [Requests -> Statuses]

\* Between any two commits every account balance contains exactly the posted
\* transactions, each once, with the amount and accounts its row shows now: no
\* interleaving of posting, cancelling, patching, deleting, duplicating, bulk
\* requests, account edits and aborts loses, repeats or leaves behind an effect
\* (applyTransactionBalanceEffect and the updated_at guards around it).
PostingsMatchStatus ==
    \A a \in Accounts, t \in TxIds : accounts[a].postings[t] = Posting(txns[t], a)

\* The updated_at guard detects every concurrent change of an account: whenever the
\* token of the newest version still is the one that was read, so is the version
\* (AccountRepository.UpdateByID, ErrConcurrentAccountUpdate).
ConcurrentUpdateDetected ==
    \A p \in Requests :
        LET newest == VisibleAccount(p, acct[p]) IN
        /\ pc[p] \in {"adjust", "awrite"}
        /\ AccountRowFree(p, acct[p])
        /\ newest.ver = aseen[p].ver
        => newest = aseen[p]

\* Seen from outside, the tables are a book whose entries only make lawful moves and
\* whose balances always agree with it: requests take effect one commit at a time and
\* completely. In particular a posted row keeps its type, amount and accounts until
\* it is cancelled and is never deleted, and a cancelled row is never revived, also
\* against requests that read it while it was still planned (patchInTx and DeleteByID
\* against postInTx).
Promise == INSTANCE Books WITH
    book <- [t \in TxIds |-> EntryOf(txns[t])],
    balance <- [a \in Accounts |-> Balance(accounts[a], a)]

ImplementsBooks == Promise!Spec

\* Requests for a single row never wait for each other in a circle: the transaction
\* row is locked first, then the accounts in id order. Whoever waits in a circle does
\* so because of a bulk request, which locks its rows in the order of its items.
NoDeadlock ==
    \A S \in SUBSET {p \in Requests : kind[p] \notin BulkKinds} : S # {} => ~Circle(S)

\* Every request that has begun returns, whatever rows it has to wait for (under the
\* fairness of TransactionsApi).
EveryRequestReturns ==
    \A p \in Requests : (pc[p] \notin {"start", "done"}) ~> (pc[p] = "done")
=============================================================================
