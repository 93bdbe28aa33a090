---------------------------- MODULE AtomicProofs ----------------------------
(***************************************************************************)
(* TransactionsApi implements AtomicRequests: whatever is interleaved, lost*)
(* or cut off, each request takes effect at the moment of its answer, as   *)
(* asked and completely, or not at all.                                    *)
(*                                                                         *)
(* LedgerInvariant, BooksInvariant and LocksInOrder (together Accounted)   *)
(* say that the row a write starts from is the newest one. What is added   *)
(* here follows the drafts of one request until its commit: each is what   *)
(* the endpoint makes of the committed row, and each belongs to one of the *)
(* items of the request.                                                   *)
(***************************************************************************)
EXTENDS LedgerSafety

\* Every row there is, committed, drafted, or about to be written, is a valid one.
ValidRow(r) == Exists(r) => ValidShape(r)

RowsAreValid ==
    /\ \A t \in TxIds : ValidRow(txns[t]) /\ ValidRow(txDraft[t])
    /\ \A p \in Requests :
          /\ pc[p] = "write" => ValidRow(seen[p])
          /\ (pc[p] = "write" /\ op[p] = "patch") \/ Creating(p) => ValidShape(row[p])

\* A row that p has written is what its endpoint makes of the committed one, however
\* often p has written it; and the row of a finished item is written.
WrittenAsAsked(p) ==
    /\ \A t \in TxIds :
          txLock[t] = p => Promised!Asked(kind[p], EntryOf(txns[t]), EntryOf(txDraft[t]))
    /\ pc[p] \in {"status", "end"} => tgt[p] \in TxIds /\ txLock[tgt[p]] = p

\* Request p has written rows of the items it has started only, the last one for tgt.
Itemized(p, items) ==
    /\ items \in [1..count[p] -> TxIds]
    /\ \A t \in TxIds : txLock[t] = p => \E i \in 1..count[p] : items[i] = t
    /\ count[p] # 0 => items[count[p]] = tgt[p]

ItemsInBounds(p) ==
    /\ \E items \in [1..count[p] -> TxIds] : Itemized(p, items)
    /\ count[p] <= (IF kind[p] \in BulkKinds THEN MaxItems ELSE 1)
    /\ pc[p] = "start" => count[p] = 0
    /\ pc[p] \notin {"start", "awrite", "done"} => count[p] # 0

AnsweredOnce(p) == pc[p] \notin {"start", "done"} => answer[p] = NoAnswer

RequestsInvariant ==
    /\ RowsAreValid
    /\ \A p \in Requests : WrittenAsAsked(p) /\ ItemsInBounds(p) /\ AnsweredOnce(p)

----------------------------------------------------------------------------
(***************************************************************************)
(* What the services make of an entry is what their endpoint is asked for, *)
(* also after earlier items of the same request.                           *)
(***************************************************************************)
LEMMA EntryShape ==
    ASSUME NEW r \in TransactionRow
    PROVE  Promised!ValidShape(EntryOf(r)) <=> ValidShape(r)
  BY DEF ValidShape, Promised!ValidShape, EntryOf

LEMMA SameShape ==
    ASSUME NEW r, NEW s, r.type = s.type, r.from = s.from, r.to = s.to
    PROVE  ValidShape(r) <=> ValidShape(s)
  BY DEF ValidShape

LEMMA EntryType == ASSUME NEW r \in TransactionRow PROVE EntryOf(r) \in Promised!Entry
  BY DEF TransactionRow, EntryOf, Promised!Entry, Promised!Statuses, Promised!Types,
         Promised!AccountRef, Statuses, Types, AccountRef

\* A bulk edit that leaves an entry planned has found it planned; one that leaves it
\* posted has posted it, or found it as it is.
LEMMA EditedBefore ==
    ASSUME NEW e \in Promised!Entry, NEW f \in Promised!Entry,
           Promised!Asked("patchBulk", e, f)
    PROVE  /\ f.status = "planned" => e.status = "planned"
           /\ f.status = "posted" => e.status = "planned" \/ e = f
  <1>1. /\ \/ Promised!Edited(e, f)
           \/ Promised!Posted(e, f) \/ Promised!Dropped(e, f)
           \/ Promised!Reversed(e, f)
    BY DEF Promised!Asked, Promised!Creating
  <1>2. Promised!Reversed(e, f) => f.status = "cancelled"
    BY DEF Promised!Reversed, Promised!Entry
  <1> QED
    BY <1>1, <1>2 DEF Promised!Edited, Promised!Amended, Promised!Posted, Promised!Dropped

\* What p finds in the row: the committed one, or what p has made of it so far.
SoFar(k, r, s) == r = s \/ (k = "patchBulk" /\ Promised!Asked(k, EntryOf(r), EntryOf(s)))

LEMMA AskedInsert ==
    ASSUME NEW k \in Creators, NEW new \in TransactionRow,
           new.status \in {"planned", "posted"}, ValidShape(new)
    PROVE  Promised!Asked(k, EntryOf(NoRow), EntryOf(new))
  <1>1. Promised!ValidShape(EntryOf(new))
    BY EntryShape
  <1>2. Promised!Recorded(EntryOf(NoRow), EntryOf(new))
    BY DEF Promised!Recorded, EntryOf, NoRow
  <1> QED
    BY <1>1, <1>2 DEF Promised!Asked, Promised!Creating, Creators

LEMMA AskedDelete ==
    ASSUME NEW r \in TransactionRow, r.status \in {"planned", "cancelled"}
    PROVE  Promised!Asked("delete", EntryOf(r), EntryOf(NoRow))
  BY DEF Promised!Asked, Promised!Removed, EntryOf, NoRow

LEMMA AskedPost ==
    ASSUME NEW k \in {"post", "patchBulk"}, NEW r \in TransactionRow, NEW s \in TransactionRow,
           NEW n \in Nat, SoFar(k, r, s), s.status = "planned", ValidShape(s)
    PROVE  Promised!Asked(k, EntryOf(r), EntryOf(Post(s, n)))
  <1>1. /\ Post(s, n) \in TransactionRow
        /\ EntryOf(Post(s, n)) = [EntryOf(s) EXCEPT !.status = "posted"]
        /\ EntryOf(Post(s, n)).status = "posted"
    <2>1. Post(s, n) \in TransactionRow
      BY DEF Post, TransactionRow, Statuses
    <2>2. /\ Post(s, n).status = "posted" /\ Post(s, n).type = s.type
          /\ Post(s, n).amount = s.amount /\ Post(s, n).from = s.from /\ Post(s, n).to = s.to
      BY DEF Post, TransactionRow
    <2> QED
      BY <2>1, <2>2 DEF EntryOf
  <1>2. Promised!ValidShape(EntryOf(Post(s, n)))
    <2>1. ValidShape(Post(s, n))
      BY SameShape DEF Post, TransactionRow
    <2> QED
      BY <1>1, <2>1, EntryShape
  <1>3. EntryOf(s).status = "planned"
    BY DEF EntryOf
  <1>4. CASE k = "post"
    BY <1>1, <1>3, <1>4 DEF SoFar, Promised!Asked, Promised!CanPost
  <1>5. CASE k = "patchBulk"
    <2>1. EntryOf(r).status = "planned"
      BY <1>3, <1>5, EntryType, EditedBefore DEF SoFar
    <2> QED
      BY <1>1, <1>2, <1>5, <2>1 DEF Promised!Asked, Promised!Posted
  <1> QED
    BY <1>4, <1>5

LEMMA AskedCancel ==
    ASSUME NEW k \in {"cancel", "patchBulk"}, NEW r \in TransactionRow, NEW s \in TransactionRow,
           NEW n \in Nat, SoFar(k, r, s), CanCancel(s), ValidShape(s)
    PROVE  Promised!Asked(k, EntryOf(r), EntryOf(Cancel(s, n)))
  <1>1. /\ Cancel(s, n) \in TransactionRow
        /\ EntryOf(Cancel(s, n)) = [EntryOf(s) EXCEPT !.status = "cancelled"]
        /\ EntryOf(Cancel(s, n)).status = "cancelled"
    <2>1. Cancel(s, n) \in TransactionRow
      BY DEF Cancel, TransactionRow, Statuses
    <2>2. /\ Cancel(s, n).status = "cancelled" /\ Cancel(s, n).type = s.type
          /\ Cancel(s, n).amount = s.amount /\ Cancel(s, n).from = s.from /\ Cancel(s, n).to = s.to
      BY DEF Cancel, TransactionRow
    <2> QED
      BY <2>1, <2>2 DEF EntryOf
  <1>2. Promised!ValidShape(EntryOf(Cancel(s, n)))
    <2>1. ValidShape(Cancel(s, n))
      BY SameShape DEF Cancel, TransactionRow
    <2> QED
      BY <1>1, <2>1, EntryShape
  <1>3. EntryOf(s).status \in {"planned", "posted"}
    BY DEF EntryOf, CanCancel
  <1>4. CASE k = "cancel"
    BY <1>1, <1>3, <1>4 DEF SoFar, Promised!Asked, Promised!CanCancel
  <1>5. CASE k = "patchBulk"
    <2>1. \/ EntryOf(r).status = "planned"
          \/ EntryOf(r).status = "posted" /\ EntryOf(r) = EntryOf(s)
      BY <1>3, <1>5, EntryType, EditedBefore DEF SoFar
    <2> QED
      BY <1>1, <1>2, <1>5, <2>1 DEF Promised!Asked, Promised!Dropped, Promised!Reversed
  <1> QED
    BY <1>4, <1>5

LEMMA AskedPatch ==
    ASSUME NEW k \in {"patch", "patchBulk"}, NEW r \in TransactionRow, NEW s \in TransactionRow,
           NEW new \in TransactionRow, SoFar(k, r, s), ValidShape(new),
           s.status \in {"planned", "posted"}, new.status = s.status,
           s.status = "posted" => EntryOf(new) = EntryOf(s)
    PROVE  Promised!Asked(k, EntryOf(r), EntryOf(new))
  <1>1. Promised!ValidShape(EntryOf(new))
    BY EntryShape
  <1>2. EntryOf(s).status = s.status /\ EntryOf(new).status = s.status
    BY DEF EntryOf
  <1>3. \/ EntryOf(r).status = "planned"
        \/ EntryOf(r).status = "posted" /\ EntryOf(r) = EntryOf(s)
    BY <1>2, EntryType, EditedBefore DEF SoFar
  <1>4. CASE s.status = "planned"
    <2>1. EntryOf(r).status = "planned"
      BY <1>2, <1>3, <1>4
    <2> QED
      BY <1>1, <1>2, <1>4, <2>1 DEF Promised!Asked, Promised!Edited, Promised!Amended
  <1>5. CASE s.status = "posted"
    <2>1. k = "patch" => EntryOf(r) = EntryOf(new)
      BY <1>5 DEF SoFar
    <2> QED
      BY <1>1, <1>2, <1>3, <1>5, <2>1
      DEF Promised!Asked, Promised!Edited, Promised!Posted
  <1> QED
    BY <1>4, <1>5

----------------------------------------------------------------------------
(***************************************************************************)
(* Rows stay valid.                                                        *)
(***************************************************************************)
\* The statement of p that writes row t.
Writes(p, t) ==
    /\ tgt[p] = t
    /\ txns'[t] = txns[t]
    /\ txLock'[t] = p
    /\ \/ pc[p] = "insert" /\ txDraft'[t] = row[p]
       \/ /\ pc[p] = "write"
          /\ TxRowFree(p, t)
          /\ Unchanged(VisibleTx(p, t), seen[p])
          /\ \/ op[p] \in {"post", "cancel", "patch"} /\ txDraft'[t] = row[p]
             \/ /\ op[p] = "delete"
                /\ VisibleTx(p, t).status # "posted"
                /\ txDraft'[t] = NoRow

LEMMA DraftOfStep ==
    ASSUME Typed, NEW p \in Requests, Start(p) \/ Progress(p) \/ Abort(p), NEW t \in TxIds
    PROVE  \/ txns'[t] = txns[t] /\ txDraft'[t] = txDraft[t] /\ txLock'[t] = txLock[t]
           \/ Writes(p, t)
           \/ /\ pc'[p] = "done" /\ txLock[t] = p /\ txLock'[t] = Free
              /\ txns'[t] \in {txns[t], txDraft[t]} /\ txDraft'[t] = txns'[t]
  <1>1. CASE Start(p) \/ Find(p)
    BY <1>1 DEF Start, StartCreate, StartTimed, StartUntimed, StartBulkPatch, Find,
                FindForPost, FindForCancel, FindForPatch, FindForDelete, FindForDuplicate,
                tableVars
  <1>2. CASE WriteTransaction(p)
    BY <1>2 DEF WriteTransaction, Typed, TypeOK, Writes
  <1>3. CASE DeleteTransaction(p)
    BY <1>3 DEF DeleteTransaction, Typed, TypeOK, Writes
  <1>4. CASE InsertTransaction(p)
    BY <1>4 DEF InsertTransaction, Typed, TypeOK, Writes
  <1>5. CASE BulkStatus(p) \/ ReadAccount(p) \/ AdjustAccount(p) \/ AccountRequest(p)
    BY <1>5 DEF BulkStatus, ReadAccount, AdjustAccount, AccountRequest, FindAccount,
                WriteAccount, tableVars, txTable
  <1>6. CASE Commit(p) \/ Discard(p)
    BY <1>6 DEF Commit, Discard, Return, Unlock, VisibleTx, Typed, TypeOK
  <1> QED
    BY <1>1, <1>2, <1>3, <1>4, <1>5, <1>6
    DEF Progress, Write, Rollback, DeadlockVictim, Abort

\* A written row has the shape of the body or of the row that was read.
LEMMA WritesValid ==
    ASSUME Accounted, RowsAreValid, NEW p \in Requests, NEW t \in TxIds, Writes(p, t)
    PROVE  ValidRow(txDraft'[t])
  <1>1. Prepared(p) /\ Adjusts(p) /\ seen[p] \in TransactionRow
    BY DEF Accounted, IInv, LedgerInvariant, Typed, TypeOK
  <1>2. CASE pc[p] = "insert"
    <2>1. Creating(p)
      BY <1>1, <1>2 DEF Adjusts, Applying, Creating
    <2> QED
      BY <1>2, <2>1 DEF Writes, RowsAreValid, ValidRow
  <1>3. CASE pc[p] = "write" /\ op[p] \in {"post", "cancel"} /\ txDraft'[t] = row[p]
    <2>1. ValidShape(seen[p])
      BY <1>1, <1>3 DEF Prepared, RowsAreValid, ValidRow
    <2>2. row[p].type = seen[p].type /\ row[p].from = seen[p].from /\ row[p].to = seen[p].to
      BY <1>1, <1>3 DEF Prepared, Post, Cancel, TransactionRow
    <2> QED
      BY <1>3, <2>1, <2>2, SameShape DEF ValidRow
  <1>4. CASE pc[p] = "write" /\ op[p] = "patch" /\ txDraft'[t] = row[p]
    BY <1>4 DEF RowsAreValid, ValidRow
  <1>5. CASE txDraft'[t] = NoRow
    BY <1>5 DEF ValidRow, Exists, NoRow
  <1> QED
    BY <1>2, <1>3, <1>4, <1>5 DEF Writes

\* What a request reads and proposes is valid.
LEMMA ProposedValid ==
    ASSUME Typed, RowsAreValid, NEW p \in Requests, Start(p) \/ Progress(p) \/ Abort(p)
    PROVE  /\ pc'[p] = "write" /\ op'[p] = "patch" => ValidShape(row'[p])
           /\ Creating(p)' => ValidShape(row'[p])
  <1>1. CASE StartCreate(p)
    <2>1. PICK s \in Shapes : /\ row'[p].type = s.type
                              /\ row'[p].from = s.from
                              /\ row'[p].to = s.to
                              /\ ValidShape(s) \/ pc'[p] = "fail"
      BY <1>1 DEF StartCreate, Row, Typed, TypeOK
    <2>2. op'[p] = "create"
      BY <1>1 DEF StartCreate, Typed, TypeOK
    <2> QED
      BY <2>1, <2>2, SameShape DEF Creating, Applying
  <1>2. CASE StartTimed(p) \/ StartUntimed(p) \/ StartBulkPatch(p)
    BY <1>2 DEF StartTimed, StartUntimed, StartBulkPatch, Creating, Applying, Typed, TypeOK
  <1>3. CASE FindForPatch(p)
    <2> DEFINE current == VisibleTx(p, tgt[p])
    <2>1. tgt[p] \in TxIds /\ current \in TransactionRow /\ ValidRow(current)
      BY <1>3, VisibleTxType DEF FindForPatch, Typed, Targeted, RowsAreValid, VisibleTx
    <2> HIDE DEF current
    <2>2. \/ pc'[p] = "fail"
          \/ /\ pc'[p] = "write" /\ current.status \in {"planned", "posted"}
             /\ \E n \in Readings : row'[p] = [current EXCEPT !.ver = n]
          \/ /\ pc'[p] = "write"
             /\ \E n \in Readings, s \in {x \in Shapes : ValidShape(x)} :
                   row'[p] = Row(s, current.status, n)
      BY <1>3 DEF FindForPatch, Found, Fail, Typed, TypeOK, current
    <2>3. CASE \E n \in Readings : row'[p] = [current EXCEPT !.ver = n]
      <3>1. row'[p].type = current.type /\ row'[p].from = current.from /\ row'[p].to = current.to
        BY <2>1, <2>3 DEF TransactionRow
      <3> QED
        BY <2>1, <2>2, <3>1, SameShape DEF ValidRow, Exists, Creating, Applying, Row
    <2>4. CASE \E n \in Readings, s \in {x \in Shapes : ValidShape(x)} :
                   row'[p] = Row(s, current.status, n)
      BY <2>2, <2>4, SameShape DEF Row, Creating, Applying
    <2> QED
      BY <2>2, <2>3, <2>4 DEF Creating, Applying
  <1>4. CASE FindForDuplicate(p)
    <2> DEFINE source == VisibleTx(p, tgt[p])
    <2>1. tgt[p] \in TxIds /\ ValidRow(source)
      BY <1>4 DEF FindForDuplicate, Typed, Targeted, RowsAreValid, VisibleTx
    <2>2. \/ pc'[p] = "fail"
          \/ /\ Exists(source) /\ pc'[p] # "write"
             /\ row'[p].type = source.type /\ row'[p].from = source.from /\ row'[p].to = source.to
      BY <1>4 DEF FindForDuplicate, Fail, Apply, Row, Typed, TypeOK
    <2> QED
      BY <2>1, <2>2, SameShape DEF ValidRow, Creating, Applying
  <1>5. CASE FindForPost(p) \/ FindForCancel(p) \/ FindForDelete(p)
    BY <1>5 DEF FindForPost, FindForCancel, FindForDelete, Found, Fail, Creating, Applying,
                Typed, TypeOK
  <1>6. CASE Write(p)
    BY <1>6 DEF Write, WriteTransaction, DeleteTransaction, InsertTransaction, BulkStatus,
                ReadAccount, AdjustAccount, Apply, Creating, Applying, RowsAreValid, Typed, TypeOK
  <1>7. CASE AccountRequest(p)
    BY <1>7 DEF AccountRequest, FindAccount, WriteAccount, Return, Creating, Applying,
                Typed, TypeOK
  <1>8. CASE Commit(p) \/ Discard(p)
    BY <1>8 DEF Commit, Discard, Return, Creating, Applying, Typed, TypeOK
  <1> QED
    BY <1>1, <1>2, <1>3, <1>4, <1>5, <1>6, <1>7, <1>8
    DEF Start, Progress, Find, Rollback, DeadlockVictim, Abort

LEMMA RowsStayValid ==
    ASSUME Accounted, Accounted', RowsAreValid, NEW p \in Requests,
           Start(p) \/ Progress(p) \/ Abort(p)
    PROVE  RowsAreValid'
  <1>1. Typed /\ OnlyLocalsOf(p)
    BY CreatorsOfStep DEF Accounted, IInv
  <1>2. ASSUME NEW t \in TxIds PROVE ValidRow(txns'[t]) /\ ValidRow(txDraft'[t])
    <2>1. ValidRow(txns[t]) /\ ValidRow(txDraft[t])
      BY DEF RowsAreValid
    <2>2. CASE Writes(p, t)
      BY <2>1, <2>2, WritesValid DEF Writes
    <2>3. CASE ~Writes(p, t)
      <3>1. txns'[t] \in {txns[t], txDraft[t]} /\ txDraft'[t] \in {txns[t], txDraft[t]}
        BY <1>1, <2>3, DraftOfStep
      <3> QED
        BY <2>1, <3>1
    <2> QED
      BY <2>2, <2>3
  <1>3. ASSUME NEW q \in Requests
        PROVE  /\ pc'[q] = "write" => ValidRow(seen'[q])
               /\ (pc'[q] = "write" /\ op'[q] = "patch") \/ Creating(q)' => ValidShape(row'[q])
    <2>1. CASE q = p
      <3>1. pc'[p] = "write" => ValidRow(seen'[p])
        <4> SUFFICES ASSUME pc'[p] = "write" PROVE ValidRow(seen'[p])
          OBVIOUS
        <4>1. seen'[p] = VisibleTx(p, tgt[p]) /\ tgt'[p] = tgt[p]
          BY <1>1, ReadersOfStep
        <4>2. tgt[p] \in TxIds
          BY <4>1 DEF Accounted, IInv, Typed, Targeted
        <4> QED
          BY <4>1, <4>2 DEF VisibleTx, RowsAreValid
      <3> QED
        BY <1>1, <2>1, <3>1, ProposedValid
    <2>2. CASE q # p
      <3>1. /\ pc'[q] = pc[q] /\ op'[q] = op[q] /\ seen'[q] = seen[q] /\ row'[q] = row[q]
            /\ Creating(q)' <=> Creating(q)
        BY <1>1, <2>2, OthersStay DEF OnlyLocalsOf
      <3> QED
        BY <3>1 DEF RowsAreValid
    <2> QED
      BY <2>1, <2>2
  <1> QED
    BY <1>2, <1>3 DEF RowsAreValid, ValidRow, ValidShape, Exists

----------------------------------------------------------------------------
(***************************************************************************)
(* Each write of a request is what was asked of its endpoint.              *)
(***************************************************************************)
\* What the services start from: the committed row, or in a bulk patch also what its
\* own earlier items have made of it.
LEMMA ReadSoFar ==
    ASSUME Accounted, NEW p \in Requests, WrittenAsAsked(p), NEW t \in TxIds,
           pc[p] = "write", Writes(p, t)
    PROVE  /\ seen[p] = txDraft[t]
           /\ SoFar(kind[p], txns[t], seen[p])
           /\ kind[p] = op[p] \/ (kind[p] = "patchBulk" /\ op[p] \in {"patch", "post", "cancel"})
  <1>1. IInv /\ Prepared(p) /\ ServiceOfKind(p) /\ LocksInOrder(p) /\ DraftsAreLocked
    BY DEF Accounted, IInv, LedgerInvariant, BooksInvariant
  <1>2. /\ tgt[p] = t /\ TxRowFree(p, t) /\ Unchanged(VisibleTx(p, t), seen[p])
    BY DEF Writes
  <1>3. seen[p] = txDraft[t]
    BY <1>1, <1>2, UnchangedTx
  <1>4. kind[p] = op[p] \/ (kind[p] = "patchBulk" /\ op[p] \in {"patch", "post", "cancel"})
    BY <1>1 DEF Prepared, ServiceOfKind
  <1>5. txLock[t] = Free => txns[t] = seen[p]
    BY <1>1, <1>3 DEF DraftsAreLocked
  <1>6. CASE txLock[t] = Free
    BY <1>3, <1>4, <1>5, <1>6 DEF SoFar
  <1>7. CASE txLock[t] = p
    <2>1. kind[p] = "patchBulk"
      BY <1>1, <1>4, <1>7 DEF LocksInOrder, HoldsNothing, Prepared, BulkKinds
    <2>2. Promised!Asked(kind[p], EntryOf(txns[t]), EntryOf(txDraft[t]))
      BY <1>7 DEF WrittenAsAsked
    <2> QED
      BY <1>3, <1>4, <2>1, <2>2 DEF SoFar
  <1> QED
    BY <1>2, <1>6, <1>7 DEF TxRowFree

LEMMA WriteIsAsked ==
    ASSUME Accounted, RowsAreValid, NEW p \in Requests, WrittenAsAsked(p), NEW t \in TxIds,
           Writes(p, t)
    PROVE  Promised!Asked(kind[p], EntryOf(txns[t]), EntryOf(txDraft'[t]))
  <1>1. /\ Prepared(p) /\ Adjusts(p) /\ ServiceOfKind(p) /\ Proposed(p) /\ IdsAreFresh
        /\ seen[p] \in TransactionRow /\ row[p] \in TransactionRow /\ now[p] \in Nat
        /\ txns[t] \in TransactionRow
    BY DEF Accounted, IInv, LedgerInvariant, BooksInvariant, Typed, TypeOK
  <1>2. CASE pc[p] = "insert"
    <2>1. Creating(p) /\ txDraft'[t] = row[p] /\ tgt[p] = t
      BY <1>1, <1>2 DEF Adjusts, Applying, Creating, Writes
    <2>2. txns[t] = NoRow /\ row[p].status \in {"planned", "posted"} /\ ValidShape(row[p])
      BY <1>1, <2>1 DEF IdsAreFresh, Unused, Proposed, RowsAreValid
    <2>3. kind[p] \in Creators
      BY <1>1, <2>1 DEF ServiceOfKind, Creating, Creators
    <2> QED
      BY <1>1, <2>1, <2>2, <2>3, AskedInsert
  <1>3. CASE pc[p] = "write"
    <2>1. /\ SoFar(kind[p], txns[t], seen[p])
          /\ kind[p] = op[p] \/ (kind[p] = "patchBulk" /\ op[p] \in {"patch", "post", "cancel"})
          /\ ValidRow(seen[p])
      BY <1>3, ReadSoFar DEF RowsAreValid
    <2>2. CASE op[p] = "post" /\ txDraft'[t] = row[p]
      <3>1. row[p] = Post(seen[p], now[p]) /\ seen[p].status = "planned" /\ ValidShape(seen[p])
        BY <1>1, <1>3, <2>1, <2>2 DEF Prepared, ValidRow
      <3> QED
        BY <1>1, <2>1, <2>2, <3>1, AskedPost
    <2>3. CASE op[p] = "cancel" /\ txDraft'[t] = row[p]
      <3>1. row[p] = Cancel(seen[p], now[p]) /\ CanCancel(seen[p]) /\ ValidShape(seen[p])
        BY <1>1, <1>3, <2>1, <2>3 DEF Prepared, ValidRow
      <3> QED
        BY <1>1, <2>1, <2>3, <3>1, AskedCancel
    <2>4. CASE op[p] = "patch" /\ txDraft'[t] = row[p]
      <3>1. /\ seen[p].status \in {"planned", "posted"} /\ row[p].status = seen[p].status
            /\ seen[p].status = "posted" => EntryOf(row[p]) = EntryOf(seen[p])
            /\ ValidShape(row[p])
        BY <1>1, <1>3, <2>4 DEF Prepared, Proposed, RowsAreValid
      <3> QED
        BY <1>1, <2>1, <2>4, <3>1, AskedPatch
    <2>5. CASE op[p] = "delete" /\ txDraft'[t] = NoRow
      <3>1. kind[p] = "delete" /\ txns[t] = seen[p]
        BY <2>1, <2>5 DEF SoFar
      <3>2. seen[p].status \in {"planned", "cancelled"}
        BY <1>1, <1>3, <2>5 DEF Prepared, Exists, TransactionRow, Statuses
      <3> QED
        BY <1>1, <2>5, <3>1, <3>2, AskedDelete
    <2> QED
      BY <1>3, <2>2, <2>3, <2>4, <2>5 DEF Writes
  <1> QED
    BY <1>2, <1>3 DEF Writes

\* An item is finished by a write of its row.
LEMMA FinishedIsWritten ==
    ASSUME Accounted, NEW p \in Requests, WrittenAsAsked(p), Start(p) \/ Progress(p) \/ Abort(p),
           pc'[p] \in {"status", "end"}
    PROVE  tgt'[p] \in TxIds /\ txLock'[tgt'[p]] = p
  <1>1. Typed /\ Prepared(p) /\ Adjusts(p) /\ ServiceOfKind(p)
    BY DEF Accounted, IInv, LedgerInvariant, BooksInvariant
  <1>2. CASE WriteTransaction(p)
    BY <1>1, <1>2 DEF WriteTransaction, Prepared, Typed, TypeOK
  <1>3. CASE DeleteTransaction(p)
    BY <1>1, <1>3 DEF DeleteTransaction, Prepared, Typed, TypeOK
  <1>4. CASE InsertTransaction(p)
    BY <1>1, <1>4 DEF InsertTransaction, Adjusts, Applying, Typed, TypeOK
  <1>5. CASE BulkStatus(p)
    BY <1>1, <1>5 DEF BulkStatus, WrittenAsAsked, tableVars, Typed, TypeOK
  <1>6. CASE AdjustAccount(p)
    <2>1. pc[p] = "adjust" /\ tgt' = tgt /\ txLock' = txLock
      BY <1>6 DEF AdjustAccount, txTable
    <2>2. op[p] \notin {"create", "duplicate"}
      BY <1>1, <1>6 DEF AdjustAccount, Apply, Typed, TypeOK
    <2> QED
      BY <1>1, <2>1, <2>2 DEF Adjusts, Applying
  <1>7. CASE ReadAccount(p) \/ Find(p) \/ Start(p)
    BY <1>1, <1>7 DEF ReadAccount, Find, FindForPost, FindForCancel, FindForPatch, FindForDelete,
                FindForDuplicate, Fail, Found, Apply, Start, StartCreate, StartTimed,
                StartUntimed, StartBulkPatch, Typed, TypeOK
  <1>8. CASE AccountRequest(p) \/ Commit(p) \/ Discard(p)
    BY <1>1, <1>8 DEF AccountRequest, FindAccount, WriteAccount, Commit, Discard, Return,
                      Typed, TypeOK
  <1> QED
    BY <1>2, <1>3, <1>4, <1>5, <1>6, <1>7, <1>8
    DEF Progress, Write, Rollback, DeadlockVictim, Abort

LEMMA WrittenStays ==
    ASSUME Accounted, RowsAreValid, NEW p \in Requests, Start(p) \/ Progress(p) \/ Abort(p),
           NEW q \in Requests, WrittenAsAsked(q)
    PROVE  WrittenAsAsked(q)'
  <1>1. /\ Typed /\ OnlyLocalsOf(p) /\ kind' = kind
        /\ Adjusts(p) /\ IdsAreFresh
    BY CreatorsOfStep DEF Accounted, IInv, LedgerInvariant
  <1>2. ASSUME NEW t \in TxIds, Writes(p, t) PROVE txLock[t] \in {Free, p}
    <2>1. CASE pc[p] = "insert"
      BY <1>1, <1>2, <2>1 DEF Writes, Adjusts, Applying, Creating, IdsAreFresh, Unused
    <2> QED
      BY <1>2, <2>1 DEF Writes, TxRowFree
  <1>3. ASSUME NEW t \in TxIds, txLock'[t] = q
        PROVE  Promised!Asked(kind[q], EntryOf(txns'[t]), EntryOf(txDraft'[t]))
    <2>1. CASE txns'[t] = txns[t] /\ txDraft'[t] = txDraft[t] /\ txLock'[t] = txLock[t]
      BY <1>3, <2>1 DEF WrittenAsAsked
    <2>2. CASE Writes(p, t)
      BY <1>3, <2>2, WriteIsAsked DEF Writes
    <2> QED
      BY <1>1, <1>3, <2>1, <2>2, DraftOfStep, LedgerAssumption
  <1>4. ASSUME pc'[q] \in {"status", "end"} PROVE tgt'[q] \in TxIds /\ txLock'[tgt'[q]] = q
    <2>1. CASE q = p
      BY <1>4, <2>1, FinishedIsWritten
    <2>2. CASE q # p
      <3>1. pc'[q] = pc[q] /\ tgt'[q] = tgt[q] /\ tgt[q] \in TxIds /\ txLock[tgt[q]] = q
        BY <1>1, <1>4, <2>2 DEF OnlyLocalsOf, WrittenAsAsked
      <3>2. txLock'[tgt[q]] = q
        BY <1>1, <1>2, <2>2, <3>1, DraftOfStep, LedgerAssumption
      <3> QED
        BY <3>1, <3>2
    <2> QED
      BY <2>1, <2>2
  <1>5. \A t \in TxIds : txLock'[t] = q =>
           Promised!Asked(kind[q], EntryOf(txns'[t]), EntryOf(txDraft'[t]))
    BY <1>3
  <1> QED
    BY <1>1, <1>4, <1>5 DEF WrittenAsAsked

----------------------------------------------------------------------------
(***************************************************************************)
(* What a request has written belongs to its items.                        *)
(***************************************************************************)
\* Items begin one at a time; a duplication then turns to the row of the copy.
LEMMA ItemsOfStep ==
    ASSUME Typed, BooksInvariant, NEW p \in Requests, Start(p) \/ Progress(p) \/ Abort(p)
    PROVE  /\ \A q \in Requests : q # p => count'[q] = count[q]
           /\ \/ /\ MayStart(p) /\ UNCHANGED txLock
                 /\ count'[p] = count[p] + 1 /\ tgt'[p] \in TxIds /\ pc'[p] # "start"
              \/ pc'[p] = "done" /\ count'[p] = 0
              \/ /\ count'[p] = count[p] /\ tgt'[p] = tgt[p]
                 /\ pc'[p] # "start" /\ (pc[p] \in {"start", "awrite"} => pc'[p] = "awrite")
              \/ /\ pc[p] = "find" /\ kind[p] = "duplicate" /\ UNCHANGED txLock
                 /\ count'[p] = count[p] /\ tgt'[p] \in TxIds /\ pc'[p] # "start"
  <1>1. CASE Start(p)
    BY <1>1 DEF Start, StartCreate, StartTimed, StartUntimed, StartBulkPatch, Apply,
                tableVars, Typed, TypeOK
  <1>2. CASE Find(p)
    <2>1. CASE FindForDuplicate(p)
      BY <2>1 DEF FindForDuplicate, Fail, Apply, tableVars, BooksInvariant, ServiceOfKind,
                  Typed, TypeOK
    <2>2. CASE FindForPost(p) \/ FindForCancel(p) \/ FindForPatch(p) \/ FindForDelete(p)
      BY <2>2 DEF FindForPost, FindForCancel, FindForPatch, FindForDelete, Fail, Found,
                  Typed, TypeOK
    <2> QED
      BY <1>2, <2>1, <2>2 DEF Find
  <1>3. CASE WriteTransaction(p) \/ DeleteTransaction(p) \/ InsertTransaction(p) \/ BulkStatus(p)
    BY <1>3 DEF WriteTransaction, DeleteTransaction, InsertTransaction, BulkStatus, Apply,
                Typed, TypeOK
  <1>4. CASE ReadAccount(p) \/ AdjustAccount(p)
    BY <1>4 DEF ReadAccount, AdjustAccount, Apply, Typed, TypeOK
  <1>5. CASE AccountRequest(p)
    BY <1>5 DEF AccountRequest, FindAccount, WriteAccount, Return, tableVars, txTable,
                Typed, TypeOK
  <1>6. CASE Commit(p) \/ Discard(p)
    BY <1>6, LedgerAssumption DEF Commit, Discard, Return, Unlock, Typed, TypeOK
  <1> QED
    BY <1>1, <1>2, <1>3, <1>4, <1>5, <1>6
    DEF Progress, Write, Rollback, DeadlockVictim, Abort

LEMMA EmptyItems == \E nothing \in [1..0 -> TxIds] : TRUE
  <1>1. 1..0 = {}
    OBVIOUS
  <1>2. [i \in 1..0 |-> i] \in [1..0 -> TxIds]
    BY <1>1
  <1> QED
    BY <1>2

LEMMA ItemsStay ==
    ASSUME Accounted, Accounted', NEW p \in Requests, Start(p) \/ Progress(p) \/ Abort(p),
           NEW q \in Requests, ItemsInBounds(q)
    PROVE  ItemsInBounds(q)'
  <1>1. /\ Typed /\ OnlyLocalsOf(p) /\ kind' = kind /\ BooksInvariant
        /\ count[q] \in Nat /\ LocksInOrder(p) /\ DraftsAreLocked /\ MaxItems \in Nat \ {0}
    BY CreatorsOfStep, LedgerAssumption DEF Accounted, IInv, LedgerInvariant, Typed, TypeOK
  <1>2. PICK items \in [1..count[q] -> TxIds] : Itemized(q, items)
    BY DEF ItemsInBounds
  <1>3. CASE q # p
    <2>1. /\ count'[q] = count[q] /\ tgt'[q] = tgt[q] /\ pc'[q] = pc[q] /\ kind'[q] = kind[q]
      BY <1>1, <1>3, ItemsOfStep DEF OnlyLocalsOf
    <2>2. ASSUME NEW t \in TxIds, txLock'[t] = q PROVE txLock[t] = q
      BY <1>1, <1>3, <2>2, DraftOfStep, LedgerAssumption DEF Writes
    <2>3. Itemized(q, items)'
      BY <1>2, <2>1, <2>2 DEF Itemized
    <2>4. items \in [1..count'[q] -> TxIds]
      BY <2>1
    <2> QED
      BY <2>1, <2>3, <2>4 DEF ItemsInBounds
  <1>4. CASE q = p
    <2>1. CASE /\ MayStart(p) /\ UNCHANGED txLock
               /\ count'[p] = count[p] + 1 /\ tgt'[p] \in TxIds /\ pc'[p] # "start"
      <3>1. PICK more \in [1..count[p] + 1 -> TxIds] :
               /\ more[count[p] + 1] = tgt'[p]
               /\ \A i \in 1..count[p] : more[i] = items[i]
        <4> DEFINE longer == [i \in 1..count[p] + 1 |-> IF i = count[p] + 1 THEN tgt'[p]
                                                                       ELSE items[i]]
        <4>1. longer \in [1..count[p] + 1 -> TxIds]
          BY <1>1, <1>2, <1>4, <2>1
        <4>2. longer[count[p] + 1] = tgt'[p] /\ \A i \in 1..count[p] : longer[i] = items[i]
          BY <1>1, <1>4
        <4> QED
          BY <4>1, <4>2
      <3>2. \A t \in TxIds : txLock[t] = p => \E i \in 1..count[p] + 1 : more[i] = t
        <4>1. \A i \in 1..count[p] : i \in 1..count[p] + 1
          BY <1>1, <1>4
        <4> QED
          BY <1>2, <1>4, <3>1, <4>1 DEF Itemized
      <3>3. Itemized(p, more)'
        BY <2>1, <3>1, <3>2 DEF Itemized
      <3>4. count[p] + 1 <= IF kind[p] \in BulkKinds THEN MaxItems ELSE 1
        BY <1>1, <1>4, <2>1 DEF ItemsInBounds, MayStart
      <3>5. count[p] + 1 # 0 /\ more \in [1..count'[p] -> TxIds]
        BY <1>1, <1>4, <2>1
      <3> QED
        BY <1>1, <1>4, <2>1, <3>3, <3>4, <3>5 DEF ItemsInBounds
    <2>2. CASE pc'[p] = "done" /\ count'[p] = 0
      <3>1. PICK nothing \in [1..0 -> TxIds] : TRUE
        BY EmptyItems
      <3>2. \A t \in TxIds : txLock'[t] # p
        BY <2>2 DEF Accounted, IInv, LedgerInvariant, DraftsAreLocked
      <3>3. Itemized(p, nothing)' /\ nothing \in [1..count'[p] -> TxIds]
        BY <2>2, <3>1, <3>2 DEF Itemized
      <3>4. count'[p] <= IF kind[p] \in BulkKinds THEN MaxItems ELSE 1
        BY <1>1, <2>2
      <3> QED
        BY <1>1, <1>4, <2>2, <3>3, <3>4 DEF ItemsInBounds
    <2>3. CASE /\ count'[p] = count[p] /\ tgt'[p] = tgt[p]
               /\ pc'[p] # "start" /\ (pc[p] \in {"start", "awrite"} => pc'[p] = "awrite")
      <3>1. \A t \in TxIds : txLock'[t] = p => txLock[t] = p \/ (tgt[p] = t /\ pc[p] \in {"insert", "write"})
        BY <1>1, DraftOfStep, LedgerAssumption DEF Writes
      <3>2. pc[p] \in {"insert", "write"} => count[p] \in 1..count[p] /\ items[count[p]] = tgt[p]
        BY <1>1, <1>2, <1>4 DEF ItemsInBounds, Itemized
      <3>3. Itemized(p, items)'
        BY <1>2, <1>4, <2>3, <3>1, <3>2 DEF Itemized
      <3>4. items \in [1..count'[p] -> TxIds] /\ pc[p] # "done"
        BY <1>1, <1>2, <1>4, <2>3, CreatorsOfStep
      <3> QED
        BY <1>1, <1>4, <2>3, <3>3, <3>4 DEF ItemsInBounds
    <2>4. CASE /\ pc[p] = "find" /\ kind[p] = "duplicate" /\ UNCHANGED txLock
               /\ count'[p] = count[p] /\ tgt'[p] \in TxIds /\ pc'[p] # "start"
      <3>1. PICK copy \in [1..count'[p] -> TxIds] : copy[count'[p]] = tgt'[p]
        <4>1. count'[p] \in Nat \ {0}
          BY <1>1, <1>4, <2>4 DEF ItemsInBounds
        <4> DEFINE same == [i \in 1..count'[p] |-> tgt'[p]]
        <4>2. same \in [1..count'[p] -> TxIds]
          BY <2>4
        <4>3. same[count'[p]] = tgt'[p]
          BY <4>1
        <4> QED
          BY <4>2, <4>3
      <3>2. \A t \in TxIds : txLock'[t] # p
        BY <1>1, <2>4 DEF LocksInOrder, HoldsNothing, BulkKinds
      <3>3. Itemized(p, copy)'
        BY <2>4, <3>1, <3>2 DEF Itemized
      <3> QED
        BY <1>1, <1>4, <2>4, <3>1, <3>3 DEF ItemsInBounds
    <2> QED
      BY <1>1, <1>4, <2>1, <2>2, <2>3, <2>4, ItemsOfStep
  <1> QED
    BY <1>3, <1>4

----------------------------------------------------------------------------
(***************************************************************************)
(* The commit does everything that was asked.                              *)
(***************************************************************************)
LEMMA CommitTakesEffect ==
    ASSUME Accounted, NEW p \in Requests, WrittenAsAsked(p), ItemsInBounds(p), Commit(p)
    PROVE  tgt[p] \in TxIds /\ Promised!TakesEffect(kind[p], tgt[p])
  <1> DEFINE book == [t \in TxIds |-> EntryOf(txns[t])]
             asked(t) == Promised!Asked(kind[p], book[t], book'[t])
  <1>1. /\ pc[p] = "end" /\ count[p] \in Nat \ {0} /\ MaxItems \in Nat \ {0}
        /\ tgt[p] \in TxIds /\ txLock[tgt[p]] = p
    BY LedgerAssumption
    DEF Commit, WrittenAsAsked, ItemsInBounds, Accounted, IInv, Typed, TypeOK
  <1>2. ASSUME NEW t \in TxIds
        PROVE  IF txLock[t] = p THEN asked(t) ELSE book'[t] = book[t]
    <2>1. txns'[t] = IF txLock[t] = p THEN txDraft[t] ELSE txns[t]
      BY DEF Commit, VisibleTx
    <2>2. book[t] = EntryOf(txns[t]) /\ book'[t] = EntryOf(txns'[t])
      BY DEF EntryOf
    <2> QED
      BY <2>1, <2>2 DEF WrittenAsAsked
  <1>3. PICK items \in [1..count[p] -> TxIds] : Itemized(p, items)
    BY DEF ItemsInBounds
  <1> HIDE DEF book
  <1>4. CASE kind[p] \notin BulkKinds
    <2>1. count[p] = 1
      BY <1>1, <1>4 DEF ItemsInBounds
    <2>2. \A t \in TxIds : txLock[t] = p => t = tgt[p]
      BY <1>3, <2>1 DEF Itemized
    <2>3. asked(tgt[p]) /\ \A t \in TxIds \ {tgt[p]} : book'[t] = book[t]
      BY <1>1, <1>2, <2>2
    <2>4. kind[p] \in Promised!Single
      BY <1>4, <2>3 DEF Promised!Asked, Promised!Single, Promised!Creating, BulkKinds
    <2> QED
      BY <1>1, <2>3, <2>4 DEF Promised!TakesEffect, Promised!One, book
  <1>5. CASE kind[p] \in BulkKinds
    <2>1. count[p] <= MaxItems /\ items[count[p]] = tgt[p]
      BY <1>1, <1>3, <1>5 DEF ItemsInBounds, Itemized
    <2>2. PICK all \in [1..MaxItems -> TxIds] : \A i \in 1..count[p] : all[i] = items[i]
      <3> DEFINE filled == [i \in 1..MaxItems |-> IF i <= count[p] THEN items[i] ELSE tgt[p]]
      <3>1. filled \in [1..MaxItems -> TxIds]
        BY <1>1, <1>3
      <3>2. \A i \in 1..count[p] : filled[i] = items[i]
        BY <1>1, <2>1
      <3> QED
        BY <3>1, <3>2
    <2>3. 1..count[p] \subseteq 1..MaxItems /\ count[p] \in 1..count[p]
      BY <1>1, <2>1
    <2>4. \A t \in TxIds : \/ book'[t] = book[t]
                           \/ asked(t) /\ \E i \in 1..MaxItems : all[i] = t
      BY <1>2, <1>3, <2>2, <2>3 DEF Itemized
    <2>5. ASSUME kind[p] = "createBulk" PROVE \E i \in 1..MaxItems : book'[all[i]] # book[all[i]]
      <3>1. all[count[p]] = tgt[p]
        BY <2>1, <2>2, <2>3
      <3>2. asked(tgt[p])
        BY <1>1, <1>2
      <3>3. book'[tgt[p]] # book[tgt[p]]
        BY <2>5, <3>2 DEF Promised!Asked, Promised!Creating, Promised!Recorded
      <3> QED
        BY <2>3, <3>1, <3>3
    <2> QED
      BY <1>1, <1>5, <2>4, <2>5
      DEF Promised!TakesEffect, Promised!Several, Promised!Bulk, BulkKinds, book
  <1> QED
    BY <1>4, <1>5

\* Requests answer once, at their end, and what they answer they have done.
LEMMA AnswersAreTrue ==
    ASSUME Accounted, ClientInvariant, RequestsInvariant, NEW p \in Requests, ApiStep(p)
    PROVE  /\ AnsweredOnce(p)'
           /\ \/ UNCHANGED <<answer, txns>>
              \/ /\ answer[p] = NoAnswer
                 /\ \E code \in Successes \cup Refusals \cup {"500"} :
                      /\ answer' = [answer EXCEPT ![p] = [code |-> code, tx |-> tgt[p]]]
                      /\ \/ Commit(p) /\ code \notin Refusals
                         \/ UNCHANGED txns /\ kind[p] \in AccountKinds
                         \/ UNCHANGED txns /\ code \notin Successes
  <1>1. /\ AnsweredOnce(p) /\ ApiShape /\ Reported(p) /\ ServiceOfKind(p)
        /\ Typed /\ kind[p] \in AllKinds
    BY DEF RequestsInvariant, ClientInvariant, Accounted, IInv, BooksInvariant, Typed, TypeOK
  <1>2. CASE Refuse(p)
    BY <1>1, <1>2, HandlerCodes DEF Refuse, Reply, AnsweredOnce, vars
  <1>3. CASE Accept(p) \/ Proceed(p)
    <2>1. UNCHANGED <<answer, txns>>
      BY <1>3 DEF Accept, Start, StartCreate, StartTimed, StartUntimed, StartBulkPatch, Proceed,
                  Find, FindForPost, FindForCancel, FindForPatch, FindForDelete,
                  FindForDuplicate, Write, WriteTransaction, DeleteTransaction,
                  InsertTransaction, BulkStatus, ReadAccount, AdjustAccount, Statement,
                  tableVars, txTable
    <2>2. pc[p] = "start" => answer[p] = NoAnswer
      BY <1>3 DEF Accept, Proceed, Find, FindForPost, FindForCancel, FindForPatch, FindForDelete,
                  FindForDuplicate, Write, WriteTransaction, DeleteTransaction,
                  InsertTransaction, BulkStatus, ReadAccount, AdjustAccount
    <2>3. Start(p) \/ Progress(p)
      BY <1>3 DEF Accept, Proceed, Progress
    <2>4. pc[p] # "done"
      BY <1>1, <2>3, CreatorsOfStep DEF Accounted
    <2> QED
      BY <1>1, <2>1, <2>2, <2>4 DEF AnsweredOnce
  <1>4. CASE Complete(p)
    <2>1. pc[p] = "end" /\ pc'[p] = "done"
      BY <1>1, <1>4 DEF Complete, Commit, Return, Typed, TypeOK
    <2> QED
      BY <1>1, <1>4, <2>1, HandlerCodes DEF Complete, Reply, AnsweredOnce, Refusals
  <1>5. CASE Break(p)
    <2>1. pc'[p] = "done" /\ UNCHANGED txns
      BY <1>1, <1>5 DEF Break, Abort, DeadlockVictim, Discard, Return, Typed, TypeOK
    <2>2. OnCycle(p) => pc[p] \notin {"start", "done"}
      BY DEF OnCycle, Circle, WaitsFor
    <2>3. pc[p] \notin {"start", "done"}
      BY <1>5, <2>2 DEF Break, Abort, Running, DeadlockVictim
    <2> QED
      BY <1>1, <1>5, <2>1, <2>3, HandlerCodes DEF Break, Reply, AnsweredOnce
  <1>6. CASE ReportError(p)
    <2>1. pc[p] = "fail" /\ pc'[p] = "done" /\ UNCHANGED txns
      BY <1>1, <1>6 DEF ReportError, Rollback, Discard, Return, Typed, TypeOK
    <2>2. Reason(p) \in Errors
      BY DEF Reason, Errors, Conflicts
    <2>3. err[p] # "no row" => err[p] \in Errors
      BY <1>1, <2>1 DEF Reported
    <2> DEFINE reported == Handler(p).failure[IF err[p] = "no row" THEN Reason(p) ELSE err[p]]
    <2>4. reported \in Refusals \cup {"500"} /\ reported \notin Successes
      BY <1>1, <2>2, <2>3, HandlerCodes
    <2>5. \E code \in {reported, "500"} :
             answer' = [answer EXCEPT ![p] = [code |-> code, tx |-> tgt[p]]]
      BY <1>6 DEF ReportError, Reply
    <2> HIDE DEF reported
    <2> QED
      BY <1>1, <2>1, <2>4, <2>5 DEF AnsweredOnce, Successes
  <1>7. CASE ReadAccountRow(p)
    <2>1. answer[p] = NoAnswer /\ kind[p] \in AccountKinds /\ UNCHANGED txns
      BY <1>7 DEF ReadAccountRow, FindAccount, tableVars
    <2> QED
      BY <1>1, <1>7, <2>1 DEF ReadAccountRow, Reply, AnsweredOnce, Successes
  <1>8. CASE WriteAccountRow(p)
    <2>1. /\ pc[p] = "awrite" /\ pc'[p] = "done" /\ UNCHANGED txns
          /\ answer[p] = NoAnswer /\ kind[p] \in AccountKinds
      BY <1>1, <1>8 DEF WriteAccountRow, WriteAccount, Return, txTable, AnsweredOnce,
                        ServiceOfKind, Typed, TypeOK
    <2>2. AccountCodes(p) \subseteq Successes \cup Refusals \cup {"500"}
      BY <1>1, HandlerCodes DEF AccountCodes, Errors, Unknown, Successes, Refusals
    <2> QED
      BY <1>1, <1>8, <2>1, <2>2 DEF WriteAccountRow, Reply, AnsweredOnce
  <1> QED
    BY <1>2, <1>3, <1>4, <1>5, <1>6, <1>7, <1>8 DEF ApiStep, Serve, PoolClosed

LEMMA UnchangedRequests ==
    ASSUME UNCHANGED vars
    PROVE  /\ RowsAreValid => RowsAreValid'
           /\ \A q \in Requests : WrittenAsAsked(q) => WrittenAsAsked(q)'
           /\ \A q \in Requests : ItemsInBounds(q) => ItemsInBounds(q)'
  <1>1. UNCHANGED <<txns, txDraft, txLock, kind, pc, count, op, tgt, seen, row>>
    BY DEF vars
  <1> QED
    BY <1>1 DEF RowsAreValid, ValidRow, Creating, Applying, WrittenAsAsked, ItemsInBounds, Itemized

LEMMA RequestsStay ==
    ASSUME Accounted, Accounted', ClientInvariant, RequestsInvariant, NEW p \in Requests,
           ApiStep(p)
    PROVE  RequestsInvariant'
  <1>1. AnsweredOnce(p)'
    BY AnswersAreTrue
  <1>2. /\ \A q \in Requests : q # p => answer'[q] = answer[q]
        /\ \/ Start(p) \/ Progress(p) \/ Abort(p)
           \/ Refuse(p) /\ UNCHANGED <<vars, made, err>>
    BY LedgerOfStep DEF ClientInvariant
  <1>3. CASE Start(p) \/ Progress(p) \/ Abort(p)
    <2>1. RowsAreValid'
      BY <1>3, RowsStayValid DEF RequestsInvariant
    <2>2. \A q \in Requests : WrittenAsAsked(q)' /\ ItemsInBounds(q)'
      BY <1>3, WrittenStays, ItemsStay DEF RequestsInvariant
    <2>3. OnlyLocalsOf(p)
      BY <1>3, CreatorsOfStep DEF Accounted, IInv
    <2>4. \A q \in Requests : q # p => AnsweredOnce(q)'
      BY <1>2, <2>3 DEF RequestsInvariant, AnsweredOnce, OnlyLocalsOf
    <2> QED
      BY <1>1, <2>1, <2>2, <2>4 DEF RequestsInvariant
  <1>4. CASE UNCHANGED vars
    <2>1. RowsAreValid' /\ \A q \in Requests : WrittenAsAsked(q)' /\ ItemsInBounds(q)'
      BY <1>4, UnchangedRequests DEF RequestsInvariant
    <2>2. \A q \in Requests : q # p => AnsweredOnce(q)'
      BY <1>2, <1>4 DEF RequestsInvariant, AnsweredOnce, vars
    <2> QED
      BY <1>1, <2>1, <2>2 DEF RequestsInvariant
  <1> QED
    BY <1>2, <1>3, <1>4

LEMMA InitRequestsInvariant == ApiInit => RequestsInvariant
  <1> SUFFICES ASSUME ApiInit PROVE RequestsInvariant
    OBVIOUS
  <1>1. /\ \A p \in Requests : pc[p] = "start" /\ count[p] = 0 /\ p # Free
        /\ txLock = [t \in TxIds |-> Free] /\ txDraft = txns /\ MaxItems \in Nat
    BY LedgerAssumption DEF ApiInit, Init, InitRequests
  <1>2. ASSUME NEW t \in TxIds PROVE ValidRow(txns[t])
    <2>1. PICK rows \in InitialTables : txns = rows
      BY DEF ApiInit, Init, InitTables
    <2>2. txns[t] \in InitialRows
      BY <2>1, LedgerAssumption
    <2>3. CASE txns[t] = NoRow
      BY <2>3 DEF ValidRow, Exists, NoRow
    <2>4. CASE txns[t] # NoRow
      <3>1. PICK s \in {x \in Shapes : ValidShape(x)}, status \in {"planned", "posted", "cancelled"} :
               txns[t] = Row(s, status, 0)
        BY <2>2, <2>4 DEF InitialRows
      <3> QED
        BY <3>1, SameShape DEF Row, ValidRow
    <2> QED
      BY <2>3, <2>4
  <1>3. RowsAreValid
    BY <1>1, <1>2 DEF RowsAreValid, Creating, Applying
  <1>4. ASSUME NEW p \in Requests PROVE WrittenAsAsked(p) /\ AnsweredOnce(p)
    BY <1>1 DEF WrittenAsAsked, AnsweredOnce
  <1>5. ASSUME NEW p \in Requests PROVE ItemsInBounds(p)
    <2>1. PICK nothing \in [1..0 -> TxIds] : TRUE
      BY EmptyItems
    <2>2. Itemized(p, nothing) /\ nothing \in [1..count[p] -> TxIds]
      BY <1>1, <2>1 DEF Itemized
    <2>3. count[p] <= IF kind[p] \in BulkKinds THEN MaxItems ELSE 1
      BY <1>1
    <2> QED
      BY <1>1, <2>2, <2>3 DEF ItemsInBounds
  <1> QED
    BY <1>3, <1>4, <1>5 DEF RequestsInvariant

\* The two abstract specifications mean the same by a balance.
LEMMA SameBooks ==
    ASSUME NEW entries, NEW a
    PROVE  Promised!Shown(entries, a) = Promise!Shown(entries, a)
  <1> DEFINE amounts == [t \in TxIds |-> Promise!Posting(entries[t], a)]
  <1>1. [t \in TxIds |-> Promised!Posting(entries[t], a)] = amounts
    BY DEF Promise!Posting, Promise!Delta, Promise!Incoming, Promise!Outgoing,
           Promised!Posting, Promised!Delta, Promised!Incoming, Promised!Outgoing
  <1>2. Promised!SumFunction(amounts) = Promise!SumFunction(amounts)
    BY DEF Promise!SumFunction, Promised!SumFunction,
           Promise!SumFunctionOnSet, Promised!SumFunctionOnSet,
           Promise!FoldFunctionOnSet, Promised!FoldFunctionOnSet,
           Promise!FoldFunction, Promised!FoldFunction,
           Promise!MapThenFoldSet, Promised!MapThenFoldSet
  <1> QED
    BY <1>1, <1>2 DEF Promise!Shown, Promised!Shown

\* Provided no two clock readings are the same, each request of each endpoint takes effect
\* at the moment of its answer, completely and as asked of the entry as it then is, or not
\* at all, whatever other requests, lost answers and a shutdown come between.
THEOREM RequestsAreAtomic ==
    ASSUME ClockAdvances
    PROVE  ApiSpec => ImplementsAtomicRequests
  <1> DEFINE book == [t \in TxIds |-> EntryOf(txns[t])]
             balance == [a \in Accounts |-> Balance(accounts[a], a)]
             Agree == /\ book \in [TxIds -> Promised!Entry]
                      /\ balance = [a \in Accounts |-> Promised!Shown(book, a)]
             Inv == Accounted /\ ClientInvariant /\ RequestsInvariant
  <1>1. IInv => Agree
    <2> SUFFICES ASSUME IInv PROVE Agree
      OBVIOUS
    <2>1. \A t \in TxIds : EntryOf(txns[t]) \in Promised!Entry
      BY EntryType DEF IInv, Typed, TypeOK
    <2> QED
      BY <2>1, BalancesShown, SameBooks DEF IInv, LedgerInvariant
  <1>2. IInv' => Agree'
    BY <1>1, PTL
  <1>3. ApiInit => Inv /\ Promised!RequestsInit
    <2> SUFFICES ASSUME ApiInit PROVE Inv /\ Promised!RequestsInit
      OBVIOUS
    <2>1. Inv
      BY AccountedStays, InitClient, InitRequestsInvariant DEF ApiInit
    <2>2. Promised!Init
      BY <1>1, <2>1 DEF Accounted, Promised!Init
    <2> QED
      BY <2>1, <2>2 DEF ApiInit, NoAnswer, Promised!RequestsInit, Promised!Unanswered
  <1>4. Inv /\ [ApiNext]_<<vars, apiVars>> =>
           Inv' /\ [Promised!RequestsNext]_<<book, balance, kind, answer>>
    <2> SUFFICES ASSUME Inv, [ApiNext]_<<vars, apiVars>>
                 PROVE  Inv' /\ [Promised!RequestsNext]_<<book, balance, kind, answer>>
      OBVIOUS
    <2>1. Accounted'
      BY AccountedStays, ApiStepsAreSteps
    <2>2. /\ balance = [a \in Accounts |-> Promised!Shown(book, a)]
          /\ balance' = [a \in Accounts |-> Promised!Shown(book, a)]'
          /\ book' \in [TxIds -> Promised!Entry]
      BY <1>1, <1>2, <2>1 DEF Accounted
    <2>3. txns' = txns => book' = book /\ balance' = balance
      <3>1. txns' = txns => book' = book
        BY DEF EntryOf
      <3> QED
        BY <2>2, <3>1
    <2>4. CASE UNCHANGED <<vars, made, err, answer>>
      <3>1. ClientInvariant' /\ RequestsInvariant'
        BY <2>4, UnchangedClient, UnchangedRequests DEF RequestsInvariant, AnsweredOnce, vars
      <3> QED
        BY <2>1, <2>3, <2>4, <3>1 DEF vars
    <2>5. CASE \E p \in Requests : ApiStep(p)
      <3>1. PICK p \in Requests : ApiStep(p)
        BY <2>5
      <3>2. ClientInvariant' /\ RequestsInvariant' /\ kind' = kind
        <4>1. kind' = kind
          BY <3>1, LedgerOfStep, CreatorsOfStep DEF Accounted, IInv, ClientInvariant, vars
        <4> QED
          BY <2>1, <3>1, <4>1, ClientsStay, RequestsStay
      <3>3. CASE UNCHANGED <<answer, txns>>
        BY <2>1, <2>3, <3>2, <3>3
      <3>4. CASE /\ answer[p] = NoAnswer
                 /\ \E code \in Successes \cup Refusals \cup {"500"} :
                      /\ answer' = [answer EXCEPT ![p] = [code |-> code, tx |-> tgt[p]]]
                      /\ \/ Commit(p) /\ code \notin Refusals
                         \/ UNCHANGED txns /\ kind[p] \in AccountKinds
                         \/ UNCHANGED txns /\ code \notin Successes
        <4>1. PICK code \in Successes \cup Refusals \cup {"500"} :
                 /\ answer' = [answer EXCEPT ![p] = [code |-> code, tx |-> tgt[p]]]
                 /\ \/ Commit(p) /\ code \notin Refusals
                    \/ UNCHANGED txns /\ kind[p] \in AccountKinds
                    \/ UNCHANGED txns /\ code \notin Successes
          BY <3>4
        <4>2. /\ code \in Promised!Codes
              /\ code \in Promised!Refusals <=> code \in Refusals
              /\ code \in Promised!Successes <=> code \in Successes
              /\ ~(code \in Successes /\ code \in Refusals)
          BY <4>1 DEF Promised!Codes, Promised!Refusals, Promised!Successes, Refusals, Successes
        <4>3. tgt[p] \in TxIds \cup {NoTx} /\ answer[p] = Promised!Unanswered
          BY <3>4 DEF Accounted, IInv, Typed, TypeOK, NoAnswer, Promised!Unanswered
        <4>4. \/ code \notin Refusals /\ Promised!TakesEffect(kind[p], tgt[p])
              \/ code \notin Successes /\ book' = book
          <5>1. CASE Commit(p) /\ code \notin Refusals
            BY <5>1, CommitTakesEffect DEF RequestsInvariant
          <5>2. CASE UNCHANGED txns /\ code \notin Successes
            BY <2>3, <5>2
          <5>3. CASE UNCHANGED txns /\ kind[p] \in AccountKinds
            <6>1. kind[p] \notin Promised!Single \cup Promised!Bulk
              BY <5>3 DEF AccountKinds, Promised!Single, Promised!Creating, Promised!Bulk
            <6>2. Promised!TakesEffect(kind[p], tgt[p])
              BY <2>3, <5>3, <6>1 DEF Promised!TakesEffect
            <6> QED
              BY <2>3, <4>2, <5>3, <6>2
          <5> QED
            BY <4>1, <5>1, <5>2, <5>3
        <4> HIDE DEF book, balance
        <4>5. Promised!Answer(p)
          BY <2>2, <3>2, <4>1, <4>2, <4>3, <4>4 DEF Promised!Answer, book, balance
        <4>6. Promised!RequestsNext
          BY <4>5 DEF Promised!RequestsNext
        <4> QED
          BY <2>1, <3>2, <4>6
      <3> QED
        BY <2>1, <3>1, <3>2, <3>3, <3>4, AnswersAreTrue
    <2> QED
      BY <2>4, <2>5 DEF ApiNext, ApiStep, apiVars, Signal, Stop, Drained, DrainTimeout, Exit, Idle
  <1> QED
    BY <1>3, <1>4, PTL DEF ApiSpec, ImplementsAtomicRequests, Promised!RequestsSpec

\* What is asked of an entry moves it lawfully, or leaves it.
LEMMA AskedMoves ==
    ASSUME NEW k, NEW e \in Promised!Entry, NEW f, Promised!Asked(k, e, f)
    PROVE  e = f \/ Promised!Move(e, f)
  <1>1. CASE Promised!Edited(e, f)
    BY <1>1 DEF Promised!Edited, Promised!Move
  <1>2. CASE \/ Promised!Recorded(e, f) \/ Promised!Posted(e, f) \/ Promised!Dropped(e, f)
             \/ Promised!Reversed(e, f) \/ Promised!Removed(e, f)
    BY <1>2 DEF Promised!Move
  <1>3. ASSUME Promised!CanPost(e), f = [e EXCEPT !.status = "posted"]
        PROVE  Promised!Posted(e, f)
    BY <1>3 DEF Promised!CanPost, Promised!Posted, Promised!Entry
  <1>4. ASSUME Promised!CanCancel(e), f = [e EXCEPT !.status = "cancelled"]
        PROVE  Promised!Dropped(e, f) \/ Promised!Reversed(e, f)
    BY <1>4 DEF Promised!CanCancel, Promised!Dropped, Promised!Reversed, Promised!Entry
  <1> QED
    BY <1>1, <1>2, <1>3, <1>4 DEF Promised!Asked

\* Who keeps this promise keeps that of Books: requests that take effect one at a time
\* and as asked only make lawful moves.
THEOREM AtomicRequestsAreBooks == ImplementsAtomicRequests => Promised!Spec
  <1> DEFINE book == [t \in TxIds |-> EntryOf(txns[t])]
             balance == [a \in Accounts |-> Balance(accounts[a], a)]
  <1>1. Promised!RequestsInit => Promised!Init /\ book \in [TxIds -> Promised!Entry]
    BY DEF Promised!RequestsInit, Promised!Init
  <1>2. ASSUME book \in [TxIds -> Promised!Entry],
               [Promised!RequestsNext]_<<book, balance, kind, answer>>
        PROVE  [Promised!Settle]_<<book, balance>> /\ (book \in [TxIds -> Promised!Entry])'
    <2>1. ASSUME NEW k, NEW t, Promised!TakesEffect(k, t), NEW u \in TxIds
          PROVE  book'[u] = book[u] \/ Promised!Move(book[u], book'[u])
      <3>1. book'[u] = book[u] \/ Promised!Asked(k, book[u], book'[u])
        BY <2>1 DEF Promised!TakesEffect, Promised!One, Promised!Several
      <3>2. book[u] \in Promised!Entry
        BY <1>2, <2>1
      <3> HIDE DEF book
      <3> QED
        BY <3>1, <3>2, AskedMoves
    <2>2. ASSUME NEW p \in Requests, Promised!Answer(p)
          PROVE  Promised!Settle /\ (book \in [TxIds -> Promised!Entry])'
      BY <2>1, <2>2 DEF Promised!Answer, Promised!Settle
    <2> QED
      BY <1>2, <2>2 DEF Promised!RequestsNext
  <1> QED
    BY <1>1, <1>2, PTL DEF ImplementsAtomicRequests, Promised!RequestsSpec, Promised!Spec

=============================================================================
