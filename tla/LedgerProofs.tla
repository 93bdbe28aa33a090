---------------------------- MODULE LedgerProofs ----------------------------
(***************************************************************************)
(* What holds of Ledger for every set of accounts, transactions, requests, *)
(* shapes, endpoints and bulk sizes.                                       *)
(***************************************************************************)
EXTENDS LedgerInvariant, TLAPS

----------------------------------------------------------------------------
(***************************************************************************)
(* Types of the operators.                                                 *)
(***************************************************************************)
LEMMA NoRowType == NoRow \in TransactionRow
  BY DEF NoRow, TransactionRow, Statuses, Types, AccountRef

LEMMA RowType ==
    ASSUME NEW s, s \in Shape \/ s \in TransactionRow,
           NEW status \in Statuses, NEW n \in Nat
    PROVE  Row(s, status, n) \in TransactionRow
  BY DEF Row, Shape, TransactionRow

LEMMA InitialRowType == InitialRows \subseteq TransactionRow
  <1>1. {"planned", "posted", "cancelled"} \subseteq Statuses
    BY DEF Statuses
  <1>2. \A s \in Shapes : s \in Shape
    BY LedgerAssumption
  <1> QED
    BY <1>1, <1>2, NoRowType, RowType DEF InitialRows

LEMMA DeltaType ==
    ASSUME NEW r, r \in Shape \/ r \in TransactionRow, NEW a
    PROVE  Delta(r, a) \in Int
  BY DEF Delta, Incoming, Outgoing, Shape, TransactionRow

LEMMA PostingType ==
    ASSUME NEW r \in TransactionRow, NEW a
    PROVE  Posting(r, a) \in Int
  BY DeltaType DEF Posting

LEMMA NoAccountRowType == NoAccountRow \in AccountRow
  BY DEF NoAccountRow, AccountRow

\* A request that works on a transaction or an account names one that can exist.
Targeted ==
    \A p \in Requests :
        /\ pc[p] \in {"find", "write", "status", "apply", "adjust", "insert"}
              => tgt[p] \in TxIds
        /\ pc[p] \in {"adjust", "awrite"} => acct[p] \in Accounts

Typed == TypeOK /\ Targeted

LEMMA VisibleTxType ==
    ASSUME TypeOK, NEW p \in Requests, NEW t \in TxIds
    PROVE  VisibleTx(p, t) \in TransactionRow
  BY DEF TypeOK, VisibleTx

LEMMA VisibleAccountType ==
    ASSUME TypeOK, NEW p \in Requests, NEW a \in Accounts
    PROVE  VisibleAccount(p, a) \in AccountRow
  BY DEF TypeOK, VisibleAccount

LEMMA ReadingType == ASSUME TypeOK PROVE Readings \subseteq Nat
  BY LedgerAssumption DEF TypeOK, Readings

----------------------------------------------------------------------------
LEMMA InitTyped == Init => Typed
  <1> SUFFICES ASSUME Init PROVE Typed
    OBVIOUS
  <1> USE DEF Init, InitRequests
  <1>1. PICK rows \in InitialTables : InitTables(rows)
    OBVIOUS
  <1>2. rows \in [TxIds -> TransactionRow]
    BY <1>1, InitialRowType, LedgerAssumption
  <1>3. txns \in [TxIds -> TransactionRow] /\ minted \in SUBSET TxIds
    BY <1>1, <1>2 DEF InitTables
  <1>4. accounts \in [Accounts -> AccountRow]
    <2>1. \A a \in Accounts : [t \in TxIds |-> Posting(rows[t], a)] \in [TxIds -> Int]
      BY <1>2, PostingType
    <2> QED
      BY <1>1, <2>1 DEF InitTables, AccountRow
  <1>5. kind \in [Requests -> AllKinds]
    BY LedgerAssumption
  <1> QED
    BY <1>3, <1>4, <1>5, NoRowType, NoAccountRowType
    DEF Typed, Targeted, TypeOK, Pcs, Statuses, ItemKinds, AccountRef

----------------------------------------------------------------------------
(***************************************************************************)
(* Every action keeps the types. One lemma per action or group of actions  *)
(* with the same effect.                                                   *)
(***************************************************************************)
LEMMA ReturnTyped ==
    ASSUME Typed, NEW p \in Requests, Return(p),
           txns' \in [TxIds -> TransactionRow], txDraft' \in [TxIds -> TransactionRow],
           accounts' \in [Accounts -> AccountRow], accDraft' \in [Accounts -> AccountRow],
           txLock' \in [TxIds -> Requests \cup {Free}],
           accLock' \in [Accounts -> Requests \cup {Free}],
           UNCHANGED minted, clock' \in Nat
    PROVE  Typed'
  BY NoRowType, NoAccountRowType
  DEF Typed, TypeOK, Targeted, Return, Pcs, Statuses, AccountRef

LEMMA CommitTyped == ASSUME Typed, NEW p \in Requests, Commit(p) PROVE Typed'
  <1>1. TypeOK
    BY DEF Typed
  <1>2. Return(p) /\ UNCHANGED <<txDraft, accDraft, minted, clock>>
    BY DEF Commit
  <1>3. txns' \in [TxIds -> TransactionRow] /\ accounts' \in [Accounts -> AccountRow]
    BY <1>1, VisibleTxType, VisibleAccountType DEF Commit
  <1>4. /\ txLock' \in [TxIds -> Requests \cup {Free}]
        /\ accLock' \in [Accounts -> Requests \cup {Free}]
    BY <1>1 DEF Commit, Unlock, TypeOK
  <1> QED
    BY <1>1, <1>2, <1>3, <1>4, ReturnTyped DEF TypeOK

LEMMA DiscardTyped == ASSUME Typed, NEW p \in Requests, Discard(p) PROVE Typed'
  <1>1. TypeOK
    BY DEF Typed
  <1>2. Return(p) /\ UNCHANGED <<txns, accounts, minted, clock>>
    BY DEF Discard
  <1>3. txDraft' \in [TxIds -> TransactionRow] /\ accDraft' \in [Accounts -> AccountRow]
    BY <1>1 DEF Discard, TypeOK
  <1>4. /\ txLock' \in [TxIds -> Requests \cup {Free}]
        /\ accLock' \in [Accounts -> Requests \cup {Free}]
    BY <1>1 DEF Discard, Unlock, TypeOK
  <1> QED
    BY <1>1, <1>2, <1>3, <1>4, ReturnTyped DEF TypeOK

LEMMA StartCreateTyped == ASSUME Typed, NEW p \in Requests, StartCreate(p) PROVE Typed'
  <1>1. PICK n \in Readings, t \in TxIds \ minted, s \in Shapes,
             status \in {"planned", "posted"} :
           /\ ReadClock(p, n)
           /\ minted' = minted \cup {t}
           /\ tgt' = [tgt EXCEPT ![p] = t]
           /\ row' = [row EXCEPT ![p] = Row(s, status, n)]
           /\ IF ValidShape(s)
              THEN Apply(p, IF status = "posted" THEN Affected(s) ELSE {}, "insert")
              ELSE pc' = [pc EXCEPT ![p] = "fail"] /\ UNCHANGED todo
    BY DEF StartCreate
  <1>2. n \in Nat /\ s \in Shape /\ status \in Statuses
    BY ReadingType, LedgerAssumption DEF Typed, Statuses
  <1>3. Row(s, status, n) \in TransactionRow
    BY <1>2, RowType
  <1>4. Affected(s) \subseteq Accounts
    BY DEF Affected
  <1>5. /\ todo' \in [Requests -> SUBSET Accounts]
        /\ pc' \in [Requests -> Pcs]
        /\ \A q \in Requests : q # p => pc'[q] = pc[q]
        /\ pc'[p] \in {"apply", "insert", "fail"}
    BY <1>1, <1>4 DEF Apply, Typed, TypeOK, Pcs
  <1>6. /\ tgt' = [tgt EXCEPT ![p] = t]
        /\ row' = [row EXCEPT ![p] = Row(s, status, n)]
        /\ now' = [now EXCEPT ![p] = n]
        /\ clock' = n
        /\ minted' = minted \cup {t}
    BY <1>1 DEF ReadClock
  <1>7. /\ op' = [op EXCEPT ![p] = "create"]
        /\ count' = [count EXCEPT ![p] = @ + 1]
        /\ UNCHANGED <<tableVars, kind, seen, acct, aseen, goal, was>>
    BY DEF StartCreate
  <1> QED
    BY <1>2, <1>3, <1>5, <1>6, <1>7 DEF Typed, TypeOK, Targeted, tableVars, ItemKinds

LEMMA StartKnownTyped ==
    ASSUME Typed, NEW p \in Requests, StartTimed(p) \/ StartUntimed(p)
    PROVE  Typed'
  <1>1. Readings \subseteq Nat
    BY ReadingType DEF Typed
  <1> QED
    BY <1>1
    DEF StartTimed, StartUntimed, ReadClock, Typed, TypeOK, Targeted, tableVars,
        ItemKinds, Pcs

LEMMA StartBulkPatchTyped ==
    ASSUME Typed, NEW p \in Requests, StartBulkPatch(p) PROVE Typed'
  <1>1. \A t \in TxIds : VisibleTx(p, t).status \in Statuses
    BY VisibleTxType DEF Typed, TransactionRow
  <1> QED
    BY <1>1
    DEF StartBulkPatch, Typed, TypeOK, Targeted, tableVars, ItemKinds, Pcs

----------------------------------------------------------------------------
\* What a Find action may leave behind.
LEMMA FindTyped == ASSUME Typed, NEW p \in Requests, Find(p) PROVE Typed'
  <1> DEFINE current == VisibleTx(p, tgt[p])
  <1>1. pc[p] = "find" /\ tgt[p] \in TxIds
    BY DEF Find, FindForPost, FindForCancel, FindForPatch, FindForDelete,
           FindForDuplicate, Typed, Targeted
  <1>2. current \in TransactionRow /\ now[p] \in Nat /\ Readings \subseteq Nat
    BY <1>1, VisibleTxType, ReadingType DEF Typed, TypeOK
  <1> HIDE DEF current
  <1>3. ASSUME NEW candidate \in TransactionRow, Found(p, current, candidate),
               UNCHANGED <<tableVars, kind, count, op, acct, aseen, goal, was, minted, tgt>>,
               \/ UNCHANGED <<clock, now>>
               \/ \E n \in Readings : ReadClock(p, n)
        PROVE  Typed'
    BY <1>2, <1>3, <1>1
    DEF Found, ReadClock, Typed, TypeOK, Targeted, tableVars, Pcs
  <1>4. ASSUME Fail(p), UNCHANGED <<tableVars, kind, count, op, acct, aseen, goal, was>>
        PROVE  Typed'
    BY <1>4 DEF Fail, Typed, TypeOK, Targeted, tableVars, Pcs
  <1>5. CASE FindForPost(p)
    <2>1. Post(current, now[p]) \in TransactionRow
      BY <1>2 DEF Post, TransactionRow, Statuses
    <2> QED
      BY <1>5, <1>3, <1>4, <2>1 DEF FindForPost, current
  <1>6. CASE FindForCancel(p)
    <2>1. Cancel(current, now[p]) \in TransactionRow
      BY <1>2 DEF Cancel, TransactionRow, Statuses
    <2> QED
      BY <1>6, <1>3, <1>4, <2>1 DEF FindForCancel, current
  <1>7. CASE FindForPatch(p)
    <2>1. \A n \in Readings : [current EXCEPT !.ver = n] \in TransactionRow
      BY <1>2 DEF TransactionRow
    <2>2. \A n \in Readings, s \in Shapes : Row(s, current.status, n) \in TransactionRow
      <3>1. current.status \in Statuses /\ \A s \in Shapes : s \in Shape
        BY <1>2, LedgerAssumption DEF TransactionRow
      <3> QED
        BY <3>1, <1>2, RowType
    <2> QED
      BY <1>7, <1>3, <1>4, <2>1, <2>2 DEF FindForPatch, current
  <1>8. CASE FindForDelete(p)
    BY <1>8, <1>3, <1>4, NoRowType DEF FindForDelete, current
  <1>9. CASE FindForDuplicate(p)
    <2>1. CASE Fail(p)
      BY <1>9, <1>4, <2>1 DEF FindForDuplicate
    <2>2. CASE ~Fail(p)
      <3>1. PICK t \in TxIds \ minted, status \in {"planned", "posted"} :
              /\ minted' = minted \cup {t}
              /\ tgt' = [tgt EXCEPT ![p] = t]
              /\ row' = [row EXCEPT ![p] = Row(current, status, now[p])]
              /\ Apply(p, IF status = "posted" THEN Affected(current) ELSE {}, "insert")
              /\ UNCHANGED <<clock, now, seen>>
        BY <1>9, <2>2 DEF FindForDuplicate, current
      <3>2. Row(current, status, now[p]) \in TransactionRow
        BY <1>2, RowType DEF Statuses
      <3>3. /\ todo' \in [Requests -> SUBSET Accounts]
            /\ pc' \in [Requests -> Pcs]
            /\ \A q \in Requests : q # p => pc'[q] = pc[q]
            /\ pc'[p] \in {"apply", "insert"}
        BY <3>1 DEF Apply, Affected, Typed, TypeOK, Pcs
      <3> QED
        BY <1>9, <3>1, <3>2, <3>3 DEF FindForDuplicate, Typed, TypeOK, Targeted, tableVars
    <2> QED
      BY <2>1, <2>2
  <1> QED
    BY <1>5, <1>6, <1>7, <1>8, <1>9 DEF Find

----------------------------------------------------------------------------
LEMMA WriteTransactionTyped ==
    ASSUME Typed, NEW p \in Requests, WriteTransaction(p) PROVE Typed'
  <1>1. pc[p] = "write" /\ tgt[p] \in TxIds
    BY DEF WriteTransaction, Typed, Targeted
  <1>2. /\ todo' \in [Requests -> SUBSET Accounts]
        /\ pc' \in [Requests -> Pcs]
        /\ \A q \in Requests : q # p => pc'[q] = pc[q]
        /\ pc'[p] \in {"apply", "status", "end", "fail"}
    BY DEF WriteTransaction, Apply, Affected, Typed, TypeOK, Pcs
  <1>3. /\ txDraft' \in [TxIds -> TransactionRow]
        /\ txLock' \in [TxIds -> Requests \cup {Free}]
    BY <1>1 DEF WriteTransaction, Typed, TypeOK
  <1> QED
    BY <1>1, <1>2, <1>3 DEF WriteTransaction, Typed, TypeOK, Targeted, accTable

LEMMA DeleteTransactionTyped ==
    ASSUME Typed, NEW p \in Requests, DeleteTransaction(p) PROVE Typed'
  <1>1. pc[p] = "write" /\ tgt[p] \in TxIds
    BY DEF DeleteTransaction, Typed, Targeted
  <1> QED
    BY <1>1, NoRowType DEF DeleteTransaction, Typed, TypeOK, Targeted, accTable, Pcs

LEMMA InsertTransactionTyped ==
    ASSUME Typed, NEW p \in Requests, InsertTransaction(p) PROVE Typed'
  <1>1. pc[p] = "insert" /\ tgt[p] \in TxIds
    BY DEF InsertTransaction, Typed, Targeted
  <1> QED
    BY <1>1 DEF InsertTransaction, Typed, TypeOK, Targeted, accTable, Pcs

LEMMA BulkStatusTyped ==
    ASSUME Typed, NEW p \in Requests, BulkStatus(p) PROVE Typed'
  <1>1. pc[p] = "status" /\ tgt[p] \in TxIds /\ Readings \subseteq Nat
    BY ReadingType DEF BulkStatus, Typed, Targeted
  <1> QED
    BY <1>1
    DEF BulkStatus, ReadClock, Typed, TypeOK, Targeted, tableVars, Pcs, ItemKinds

LEMMA ReadAccountTyped ==
    ASSUME Typed, NEW p \in Requests, ReadAccount(p) PROVE Typed'
  <1>1. PICK a \in todo[p] :
          /\ acct' = [acct EXCEPT ![p] = a]
          /\ aseen' = [aseen EXCEPT ![p] = VisibleAccount(p, a)]
    BY DEF ReadAccount
  <1>2. a \in Accounts /\ VisibleAccount(p, a) \in AccountRow
    BY VisibleAccountType DEF Typed, TypeOK
  <1> QED
    BY <1>1, <1>2
    DEF ReadAccount, Typed, TypeOK, Targeted, tableVars, Pcs, AccountRef

LEMMA AdjustAccountTyped ==
    ASSUME Typed, NEW p \in Requests, AdjustAccount(p) PROVE Typed'
  <1> DEFINE a == acct[p]
             adjusted == [postings |-> Adjusted(p),
                          archived |-> VisibleAccount(p, a).archived,
                          ver |-> now[p]]
  <1>1. pc[p] = "adjust" /\ a \in Accounts /\ tgt[p] \in TxIds
    BY DEF AdjustAccount, Typed, Targeted
  <1>2. adjusted \in AccountRow
    <2>1. Delta(row[p], a) \in Int /\ Sign(p) \in Int
      BY DeltaType DEF Typed, TypeOK, Sign
    <2>2. aseen[p].postings \in [TxIds -> Int]
      BY DEF Typed, TypeOK, AccountRow
    <2>3. Adjusted(p) \in [TxIds -> Int]
      BY <1>1, <2>1, <2>2 DEF Adjusted
    <2>4. VisibleAccount(p, a) \in AccountRow
      BY <1>1, VisibleAccountType DEF Typed
    <2> QED
      BY <2>3, <2>4 DEF AccountRow, Typed, TypeOK
  <1>3. /\ accDraft' \in [Accounts -> AccountRow]
        /\ accLock' \in [Accounts -> Requests \cup {Free}]
    BY <1>1, <1>2 DEF AdjustAccount, Typed, TypeOK
  <1>4. /\ todo' \in [Requests -> SUBSET Accounts]
        /\ pc' \in [Requests -> Pcs]
        /\ \A q \in Requests : q # p => pc'[q] = pc[q]
        /\ pc'[p] \in {"apply", "insert", "end", "fail"}
    BY DEF AdjustAccount, Apply, Typed, TypeOK, Pcs
  <1> QED
    BY <1>1, <1>3, <1>4 DEF AdjustAccount, Typed, TypeOK, Targeted, txTable

----------------------------------------------------------------------------
LEMMA FindAccountTyped ==
    ASSUME Typed, NEW p \in Requests, FindAccount(p) PROVE Typed'
  <1>1. Readings \subseteq Nat
    BY ReadingType DEF Typed
  <1>2. PICK a \in Accounts, n \in Readings :
          \/ /\ ReadClock(p, n)
             /\ acct' = [acct EXCEPT ![p] = a]
             /\ aseen' = [aseen EXCEPT ![p] = accounts[a]]
             /\ pc' = [pc EXCEPT ![p] = "awrite"]
             /\ UNCHANGED <<count, op, tgt, seen, row, todo, goal, was>>
          \/ Return(p) /\ UNCHANGED clock
    BY DEF FindAccount
  <1>3. UNCHANGED <<tableVars, minted, kind>>
    BY DEF FindAccount
  <1>4. CASE Return(p) /\ UNCHANGED clock
    BY <1>3, <1>4, ReturnTyped DEF tableVars, Typed, TypeOK
  <1>5. CASE ~(Return(p) /\ UNCHANGED clock)
    <2>1. /\ clock' = n /\ now' = [now EXCEPT ![p] = n]
          /\ acct' = [acct EXCEPT ![p] = a]
          /\ aseen' = [aseen EXCEPT ![p] = accounts[a]]
          /\ pc' = [pc EXCEPT ![p] = "awrite"]
          /\ UNCHANGED <<count, op, tgt, seen, row, todo, goal, was>>
      BY <1>2, <1>5 DEF ReadClock
    <2> QED
      BY <1>1, <1>3, <2>1 DEF tableVars, Typed, TypeOK, Targeted, Pcs, AccountRef
  <1> QED
    BY <1>4, <1>5

LEMMA AccountStatementType ==
    ASSUME Typed, NEW p \in Requests, NEW newest \in AccountRow
    PROVE  AccountStatement(p, newest) \in AccountRow
  <1>1. aseen[p] \in AccountRow /\ now[p] \in Nat
    BY DEF Typed, TypeOK
  <1>2. /\ [newest EXCEPT !.postings = aseen[p].postings, !.ver = now[p]] \in AccountRow
        /\ [newest EXCEPT !.archived = TRUE, !.ver = now[p]] \in AccountRow
        /\ [newest EXCEPT !.archived = FALSE, !.ver = now[p]] \in AccountRow
    BY <1>1 DEF AccountRow
  <1> QED
    BY <1>2 DEF AccountStatement

LEMMA WriteAccountTyped ==
    ASSUME Typed, NEW p \in Requests, WriteAccount(p) PROVE Typed'
  <1>1. pc[p] = "awrite" /\ acct[p] \in Accounts
    BY DEF WriteAccount, Typed, Targeted
  <1>2. AccountStatement(p, accounts[acct[p]]) \in AccountRow
    BY <1>1, AccountStatementType DEF Typed, TypeOK
  <1>3. /\ accounts' \in [Accounts -> AccountRow]
        /\ accDraft' \in [Accounts -> AccountRow]
    BY <1>1, <1>2 DEF WriteAccount, Typed, TypeOK
  <1>4. Return(p) /\ UNCHANGED <<txTable, accLock, minted, clock>>
    BY DEF WriteAccount
  <1> QED
    BY <1>3, <1>4, ReturnTyped DEF txTable, Typed, TypeOK

----------------------------------------------------------------------------
LEMMA StepTyped == Typed /\ [Next]_vars => Typed'
  <1> SUFFICES ASSUME Typed, [Next]_vars PROVE Typed'
    OBVIOUS
  <1>1. CASE UNCHANGED vars
    BY <1>1 DEF vars, Typed, TypeOK, Targeted
  <1>2. ASSUME NEW p \in Requests, Start(p) PROVE Typed'
    BY <1>2, StartCreateTyped, StartKnownTyped, StartBulkPatchTyped DEF Start
  <1>3. ASSUME NEW p \in Requests, Progress(p) PROVE Typed'
    <2>1. CASE Find(p)
      BY <2>1, FindTyped
    <2>2. CASE Write(p)
      BY <2>2, WriteTransactionTyped, DeleteTransactionTyped, InsertTransactionTyped,
         BulkStatusTyped, ReadAccountTyped, AdjustAccountTyped DEF Write
    <2>3. CASE AccountRequest(p)
      BY <2>3, FindAccountTyped, WriteAccountTyped DEF AccountRequest
    <2>4. CASE Commit(p)
      BY <2>4, CommitTyped
    <2>5. CASE Rollback(p) \/ DeadlockVictim(p)
      BY <2>5, DiscardTyped DEF Rollback, DeadlockVictim
    <2> QED
      BY <1>3, <2>1, <2>2, <2>3, <2>4, <2>5 DEF Progress
  <1>4. ASSUME NEW p \in Requests, Abort(p) PROVE Typed'
    BY <1>4, DiscardTyped DEF Abort
  <1> QED
    BY <1>1, <1>2, <1>3, <1>4 DEF Next

\* Every reachable state is well typed, for all values of the constants: no handler
\* leaves a table or a request in a shape the schema or the service does not have.
THEOREM TypeCorrect == Spec => []TypeOK
  <1>1. Typed => TypeOK
    BY DEF Typed
  <1> QED
    BY <1>1, InitTyped, StepTyped, PTL DEF Spec
=============================================================================
