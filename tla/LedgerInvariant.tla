--------------------------- MODULE LedgerInvariant ---------------------------
(***************************************************************************)
(* The inductive invariants of Ledger: LedgerInvariant, behind             *)
(* PostingsMatchStatus and ConcurrentUpdateDetected, LocksInOrder, behind  *)
(* NoDeadlock, and BooksInvariant, with it behind ImplementsBooks. The     *)
(* last section is what EveryRequestReturns rests on: that somebody can    *)
(* always move, and that nobody moves for ever.                            *)
(*                                                                         *)
(* The first two properties are not inductive: they speak of committed     *)
(* rows and of the moment of a write, while their cause is what a request  *)
(* has read, written and not yet committed. The parts of LedgerInvariant   *)
(* say, in this order: who holds drafts; which tokens are new; what an     *)
(* equal token proves; where a freshly minted id can be; what a request is *)
(* about to write; and what each request sees of the balances.             *)
(***************************************************************************)
EXTENDS Ledger, FiniteSets

\* A draft belongs to a lock, and a lock to a request inside a database transaction.
DraftsAreLocked ==
    /\ \A t \in TxIds : txLock[t] = Free => txDraft[t] = txns[t]
    /\ \A a \in Accounts : accLock[a] = Free => accDraft[a] = accounts[a]
    /\ \A p \in Requests : pc[p] \in {"start", "awrite", "done"} =>
          /\ \A t \in TxIds : txLock[t] # p
          /\ \A a \in Accounts : accLock[a] # p

----------------------------------------------------------------------------
ReadsTx(p, t) == pc[p] = "write" /\ tgt[p] = t
ReadsAccount(p, a) == pc[p] \in {"adjust", "awrite"} /\ acct[p] = a

\* No token is ahead of the clock, and no two requests share a clock reading.
TokensArePast ==
    /\ \A t \in TxIds : txns[t].ver <= clock /\ txDraft[t].ver <= clock
    /\ \A a \in Accounts : accounts[a].ver <= clock /\ accDraft[a].ver <= clock
    /\ \A p \in Requests : now[p] <= clock
    /\ \A p \in Requests, t \in TxIds : ReadsTx(p, t) => seen[p].ver <= clock
    /\ \A p \in Requests, a \in Accounts : ReadsAccount(p, a) => aseen[p].ver <= clock
    /\ \A p, q \in Requests : p # q /\ now[p] = now[q] => now[p] = 0

\* The rows request p will still write with the token now[p].
WillWriteTx(p, t) ==
    /\ tgt[p] = t
    /\ \/ pc[p] = "find" /\ op[p] \in {"post", "cancel"}
       \/ pc[p] = "write" /\ op[p] \in {"post", "cancel", "patch"}

WillWriteAccount(p, a) ==
    \/ pc[p] = "find" /\ op[p] \in {"post", "cancel", "duplicate"}
    \/ pc[p] = "write" /\ op[p] \in {"post", "cancel"}
    \/ pc[p] \in {"apply", "adjust"} /\ a \in todo[p]
    \/ pc[p] = "awrite" /\ acct[p] = a

\* A row that is still to be written with a token carries it in no copy yet.
TokensAreFresh ==
    /\ \A p \in Requests, t \in TxIds : WillWriteTx(p, t) =>
          /\ now[p] # 0
          /\ txns[t].ver # now[p]
          /\ txDraft[t].ver # now[p]
          /\ \A q \in Requests : ReadsTx(q, t) => seen[q].ver # now[p]
    /\ \A p \in Requests, a \in Accounts : WillWriteAccount(p, a) =>
          /\ now[p] # 0
          /\ accounts[a].ver # now[p]
          /\ accDraft[a].ver # now[p]
          /\ \A q \in Requests : ReadsAccount(q, a) => aseen[q].ver # now[p]

----------------------------------------------------------------------------
SameIfSameToken(r, s) == r.ver = s.ver => r = s

\* A deleted or not yet inserted row has no token.
SameRowIfSameToken(r, s) == Exists(r) /\ Exists(s) => SameIfSameToken(r, s)

\* Copies of a row with the same token are the same.
TokensIdentifyRows ==
    /\ \A t \in TxIds :
          /\ SameRowIfSameToken(txns[t], txDraft[t])
          /\ \A p \in Requests : ReadsTx(p, t) =>
                /\ SameRowIfSameToken(seen[p], txns[t])
                /\ SameRowIfSameToken(seen[p], txDraft[t])
    /\ \A a \in Accounts :
          /\ SameIfSameToken(accounts[a], accDraft[a])
          /\ \A p \in Requests : ReadsAccount(p, a) =>
                /\ SameIfSameToken(aseen[p], accounts[a])
                /\ SameIfSameToken(aseen[p], accDraft[a])

----------------------------------------------------------------------------
Applying(p) == pc[p] \in {"apply", "adjust", "insert"}
Creating(p) == Applying(p) /\ op[p] \in {"create", "duplicate"}

Unused(t) ==
    /\ txns[t] = NoRow
    /\ txDraft[t] = NoRow
    /\ txLock[t] = Free
    /\ \A q \in Requests : ~ReadsTx(q, t)

\* An id nobody has inserted a row for is unknown to everybody but its creator.
IdsAreFresh ==
    /\ \A t \in TxIds \ minted : Unused(t)
    /\ \A p \in Requests : Creating(p) => tgt[p] \in minted /\ Unused(tgt[p])
    /\ \A p, q \in Requests :
          p # q /\ Creating(p) /\ Creating(q) => tgt[p] # tgt[q]

\* What a request is about to write, from what it has read.
Prepared(p) ==
    pc[p] = "write" =>
        /\ tgt[p] \in TxIds
        /\ Exists(seen[p])
        /\ op[p] \in {"post", "cancel", "patch", "delete"}
        /\ op[p] = "post" => seen[p].status = "planned" /\ row[p] = Post(seen[p], now[p])
        /\ op[p] = "cancel" => CanCancel(seen[p]) /\ row[p] = Cancel(seen[p], now[p])
        /\ op[p] = "patch" =>
              /\ row[p].ver = now[p]
              /\ row[p].status = seen[p].status
              /\ \A a \in Accounts : Posting(row[p], a) = Posting(seen[p], a)
        /\ op[p] = "delete" => seen[p].status # "posted"

\* Where a request stands that is adjusting balances.
Adjusts(p) ==
    /\ Applying(p) =>
          /\ tgt[p] \in TxIds
          /\ row[p].ver = now[p]
          /\ op[p] \in {"create", "duplicate", "post", "cancel"}
    /\ Applying(p) /\ op[p] \in {"post", "cancel"} =>
          /\ pc[p] # "insert"
          /\ txLock[tgt[p]] = p
          /\ txDraft[tgt[p]] = row[p]
    /\ pc[p] = "insert" => todo[p] = {}
    /\ pc[p] = "adjust" => acct[p] \in todo[p]

----------------------------------------------------------------------------
\* What p has still to add to its view of the balance of account a.
Due(p, a) == IF a \in todo[p] THEN Sign(p) * Delta(row[p], a) ELSE 0

\* A request that has not failed sees balances that agree with the rows it sees; the
\* one transaction it is applying agrees once the outstanding amounts are added.
ViewAgrees(p) ==
    pc[p] # "fail" =>
        \A a \in Accounts, t \in TxIds :
            IF Applying(p) /\ t = tgt[p]
            THEN VisibleAccount(p, a).postings[t] + Due(p, a) = Posting(row[p], a)
            ELSE VisibleAccount(p, a).postings[t] = Posting(VisibleTx(p, t), a)

\* The invariant that every step of Ledger preserves while the clock always moves: it
\* relates the tables, the drafts behind their locks and what every request has read
\* (WithinTx, FindByID and UpdateByID of both repositories).
LedgerInvariant ==
    /\ DraftsAreLocked
    /\ TokensArePast
    /\ TokensAreFresh
    /\ TokensIdentifyRows
    /\ IdsAreFresh
    /\ \A p \in Requests : Prepared(p) /\ Adjusts(p) /\ ViewAgrees(p)
    /\ PostingsMatchStatus

----------------------------------------------------------------------------
(***************************************************************************)
(* What NoDeadlock rests on: in which order locks are taken.               *)
(***************************************************************************)
HoldsNothing(p) ==
    /\ \A t \in TxIds : txLock[t] # p
    /\ \A a \in Accounts : accLock[a] # p

\* A request for a single row waits for that row with empty hands, and for an account
\* with locks on earlier accounts only.
LocksInOrder(p) ==
    kind[p] \notin BulkKinds =>
        /\ pc[p] # "status"
        /\ pc[p] \in {"start", "find", "write", "awrite", "done"} => HoldsNothing(p)
        /\ pc[p] \in {"apply", "adjust"} =>
              \A a \in Accounts, b \in todo[p] : accLock[a] = p => a < b
        /\ pc[p] = "adjust" => NextAccount(p, acct[p])

----------------------------------------------------------------------------
(***************************************************************************)
(* What ImplementsBooks rests on: a draft is at any time one move of the   *)
(* book away from the row it is to replace, however many items of a bulk   *)
(* request it comes from.                                                  *)
(***************************************************************************)
Lawful(r, s) == EntryOf(r) = EntryOf(s) \/ Promise!Move(EntryOf(r), EntryOf(s))

Creators == {"create", "createBulk", "duplicate"}

\* Only who creates rows has drafts of rows that do not exist yet.
DraftsAreLawful ==
    \A t \in TxIds :
        /\ Lawful(txns[t], txDraft[t])
        /\ Exists(txDraft[t]) /\ ~Exists(txns[t]) => kind[txLock[t]] \in Creators

\* The service at work is one the endpoint calls.
ServiceOfKind(p) ==
    /\ \/ op[p] \in {"none", kind[p]}
       \/ kind[p] = "createBulk" /\ op[p] = "create"
       \/ kind[p] = "patchBulk" /\ op[p] \in {"patch", "post", "cancel"}
    /\ pc[p] = "status" => kind[p] = "patchBulk"
    /\ pc[p] = "awrite" => kind[p] \in AccountKinds

\* What a request is about to insert, and what its edit leaves of a posted row.
Proposed(p) ==
    /\ Creating(p) => row[p].status \in {"planned", "posted"}
    /\ pc[p] = "write" /\ op[p] = "patch" =>
          /\ seen[p].status \in {"planned", "posted"}
          /\ seen[p].status = "posted" => EntryOf(row[p]) = EntryOf(seen[p])

BooksInvariant ==
    /\ DraftsAreLawful
    /\ \A p \in Requests : ServiceOfKind(p) /\ Proposed(p)
----------------------------------------------------------------------------
(***************************************************************************)
(* What EveryRequestReturns rests on: there is always somebody to carry    *)
(* on, and nobody carries on for ever.                                     *)
(***************************************************************************)
Waits(p) == \E q \in Requests : WaitsFor(p, q)

\* As long as a request runs, one of them need not wait, or is on a circle that
\* Postgres breaks.
SomebodyMayMove ==
    (\E p \in Requests : Running(p)) =>
        \E p \in Requests : Running(p) /\ (Waits(p) => OnCycle(p))

\* The steps an item takes at most: an item of a bulk patch that posts a transfer.
LongestItem == 11

\* The steps of the current item that request p has still to take at most.
StepsOfItem(p) ==
    CASE pc[p] = "start" -> 2
      [] pc[p] = "find" -> IF op[p] = "patch" THEN 11 ELSE 8
      [] pc[p] = "write" -> IF op[p] = "patch" THEN 10 ELSE 7
      [] pc[p] = "status" -> 9
      [] pc[p] = "apply" -> 2 * Cardinality(todo[p]) + 2
      [] pc[p] = "adjust" -> 2 * Cardinality(todo[p]) + 1
      [] pc[p] = "insert" -> 2
      [] OTHER -> 1

StepsLeft(p) ==
    IF pc[p] = "done" THEN 0 ELSE LongestItem * (MaxItems - count[p]) + StepsOfItem(p)

\* Every step takes one request nearer to its end and leaves the others where they are.
NobodyIsDelayed ==
    [][\E p \in Requests :
          /\ StepsLeft(p)' \in 0..StepsLeft(p) - 1
          /\ \A q \in Requests \ {p} : StepsLeft(q)' = StepsLeft(q)]_vars

\* What counting steps rests on: what there is of accounts to adjust is of the body at
\* hand, and is used up before the next item.
ItemsCounted(p) ==
    /\ count[p] <= MaxItems
    /\ pc[p] = "start" => count[p] = 0
    /\ pc[p] \in {"apply", "adjust"} => todo[p] \subseteq {row[p].from, row[p].to}
    /\ pc[p] = "adjust" => acct[p] \in todo[p]

\* Who has not begun a database transaction or has ended it holds no lock.
HoldersRun(p) == pc[p] \in {"start", "awrite", "done"} => HoldsNothing(p)
=============================================================================
