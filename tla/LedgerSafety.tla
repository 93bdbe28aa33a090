---------------------------- MODULE LedgerSafety ----------------------------
(***************************************************************************)
(* LedgerInvariant is inductive when the clock moves between any two of    *)
(* its readings, and so the balances always match the posted transactions: *)
(* under the requests of Ledger, and under the handlers and the shutdown   *)
(* of TransactionsApi, which implements it. With BooksInvariant the same   *)
(* holds of the rows themselves: the tables implement Books.               *)
(*                                                                         *)
(* NoDeadlock needs no clock: LocksInOrder is inductive by itself, and in  *)
(* a circle of requests that keep it somebody would wait for an account    *)
(* below the least one waited for.                                         *)
(*                                                                         *)
(* ClientInvariant follows a row until its request is answered and then    *)
(* for good: a row that was changed or deleted is never inserted again, and*)
(* what a request that fails has inserted was never seen by anybody else.  *)
(*                                                                         *)
(* The last section proves of EveryRequestReturns what is not about        *)
(* fairness: a request makes a bounded number of steps, and among requests *)
(* that wait for each other somebody can always make one.                  *)
(***************************************************************************)
EXTENDS LedgerProofs, TransactionsApi, FiniteSetTheorems, WellFoundedInduction

\* Every reading of the clock is a new one: the optimistic lock is sound.
ClockAdvances == 0 \notin ClockSteps

IInv == Typed /\ LedgerInvariant

LEMMA LaterReading ==
    ASSUME ClockAdvances, TypeOK, NEW n \in Readings
    PROVE  n \in Nat /\ n > clock
  BY LedgerAssumption DEF ClockAdvances, TypeOK, Readings

----------------------------------------------------------------------------
(***************************************************************************)
(* The rest of the world while request p takes a step.                     *)
(***************************************************************************)
\* p changes its own local variables only.
OnlyLocalsOf(p) ==
    \A q \in Requests : q # p =>
        /\ pc'[q] = pc[q]
        /\ op'[q] = op[q]
        /\ tgt'[q] = tgt[q]
        /\ now'[q] = now[q]
        /\ seen'[q] = seen[q]
        /\ row'[q] = row[q]
        /\ acct'[q] = acct[q]
        /\ aseen'[q] = aseen[q]
        /\ todo'[q] = todo[q]

LEMMA OthersStay ==
    ASSUME NEW p \in Requests, OnlyLocalsOf(p), NEW q \in Requests, q # p
    PROVE  /\ \A t \in TxIds : ReadsTx(q, t)' <=> ReadsTx(q, t)
           /\ \A a \in Accounts : ReadsAccount(q, a)' <=> ReadsAccount(q, a)
           /\ \A t \in TxIds : WillWriteTx(q, t)' <=> WillWriteTx(q, t)
           /\ \A a \in Accounts : WillWriteAccount(q, a)' <=> WillWriteAccount(q, a)
           /\ Applying(q)' <=> Applying(q)
           /\ Creating(q)' <=> Creating(q)
           /\ Prepared(q)' <=> Prepared(q)
           /\ \A a \in Accounts : Due(q, a)' = Due(q, a)
  BY DEF OnlyLocalsOf, ReadsTx, ReadsAccount, WillWriteTx, WillWriteAccount,
         Applying, Creating, Prepared, Due, Sign

\* What p sees is one of the two newest versions.
LEMMA SeesAVersion ==
    ASSUME NEW p \in Requests
    PROVE  /\ \A t \in TxIds : VisibleTx(p, t) \in {txns[t], txDraft[t]}
           /\ \A a \in Accounts : VisibleAccount(p, a) \in {accounts[a], accDraft[a]}
  BY DEF VisibleTx, VisibleAccount

----------------------------------------------------------------------------
(***************************************************************************)
(* Steps that touch no table: what such a step of p has to respect.        *)
(***************************************************************************)
\* A row p has just read is one it sees.
ReadsWhatItSees(p) ==
    /\ \A t \in TxIds : ReadsTx(p, t)' =>
          seen'[p] = VisibleTx(p, t) /\ Exists(VisibleTx(p, t))
    /\ \A a \in Accounts : ReadsAccount(p, a)' => aseen'[p] = VisibleAccount(p, a)

\* A token p intends to use is a new reading, or it intended to use it before.
KeepsIntentions(p) ==
    /\ now'[p] \in Nat
    /\ now'[p] <= clock'
    /\ now'[p] > clock \/ now'[p] \in {0, now[p]}
    /\ \A t \in TxIds : WillWriteTx(p, t)' =>
          now'[p] > clock \/ (now'[p] = now[p] /\ WillWriteTx(p, t))
    /\ \A a \in Accounts : WillWriteAccount(p, a)' =>
          now'[p] > clock \/ (now'[p] = now[p] /\ WillWriteAccount(p, a))

\* An id p creates a row for is newly minted, or was p's before.
CreatesFreshId(p) ==
    Creating(p)' => \/ tgt'[p] \in minted' \ minted
                    \/ Creating(p) /\ tgt'[p] = tgt[p]

LocalStep(p) ==
    /\ OnlyLocalsOf(p)
    /\ UNCHANGED tableVars
    /\ minted \subseteq minted'
    /\ clock <= clock'
    /\ pc'[p] \in {"start", "awrite", "done"} => pc[p] = "start"
    /\ ReadsWhatItSees(p)
    /\ KeepsIntentions(p)
    /\ CreatesFreshId(p)

LEMMA LocalTokensArePast ==
    ASSUME IInv, NEW p \in Requests, LocalStep(p), Typed'
    PROVE  TokensArePast'
  <1> USE DEF LocalStep
  <1>1. \A q \in Requests : now[q] \in Nat /\ now[q] <= clock
    BY DEF IInv, LedgerInvariant, TokensArePast, Typed, TypeOK
  <1>2. clock \in Nat /\ clock' \in Nat /\ clock <= clock'
    BY DEF IInv, Typed, TypeOK
  <1>3. /\ \A t \in TxIds : txns[t].ver \in Nat /\ txDraft[t].ver \in Nat
        /\ \A a \in Accounts : accounts[a].ver \in Nat /\ accDraft[a].ver \in Nat
    BY DEF IInv, Typed, TypeOK, TransactionRow, AccountRow
  <1>4. /\ \A t \in TxIds : txns[t].ver <= clock' /\ txDraft[t].ver <= clock'
        /\ \A a \in Accounts : accounts[a].ver <= clock' /\ accDraft[a].ver <= clock'
    BY <1>2, <1>3 DEF IInv, LedgerInvariant, TokensArePast
  <1>5. \A q \in Requests : now'[q] <= clock'
    BY <1>1, <1>2 DEF OnlyLocalsOf, KeepsIntentions
  <1>6. ASSUME NEW q \in Requests, NEW t \in TxIds, ReadsTx(q, t)'
        PROVE  seen'[q].ver <= clock'
    <2>1. CASE q = p
      BY <1>4, <1>6, <2>1, SeesAVersion DEF ReadsWhatItSees
    <2>2. CASE q # p
      <3>1. ReadsTx(q, t) /\ seen'[q] = seen[q]
        BY <1>6, <2>2, OthersStay DEF OnlyLocalsOf
      <3>2. seen[q].ver <= clock /\ seen[q].ver \in Nat
        BY <3>1 DEF IInv, LedgerInvariant, TokensArePast, Typed, TypeOK, TransactionRow
      <3> QED
        BY <1>2, <3>1, <3>2
    <2> QED
      BY <2>1, <2>2
  <1>7. ASSUME NEW q \in Requests, NEW a \in Accounts, ReadsAccount(q, a)'
        PROVE  aseen'[q].ver <= clock'
    <2>1. CASE q = p
      BY <1>4, <1>7, <2>1, SeesAVersion DEF ReadsWhatItSees
    <2>2. CASE q # p
      <3>1. ReadsAccount(q, a) /\ aseen'[q] = aseen[q]
        BY <1>7, <2>2, OthersStay DEF OnlyLocalsOf
      <3>2. aseen[q].ver <= clock /\ aseen[q].ver \in Nat
        BY <3>1 DEF IInv, LedgerInvariant, TokensArePast, Typed, TypeOK, AccountRow
      <3> QED
        BY <1>2, <3>1, <3>2
    <2> QED
      BY <2>1, <2>2
  <1>8. ASSUME NEW q \in Requests, NEW r \in Requests, q # r, now'[q] = now'[r]
        PROVE  now'[q] = 0
    <2>1. q # p => now'[q] = now[q]
      BY DEF OnlyLocalsOf
    <2>2. r # p => now'[r] = now[r]
      BY DEF OnlyLocalsOf
    <2>3. now[q] = now[r] => now[q] = 0
      BY <1>8 DEF IInv, LedgerInvariant, TokensArePast
    <2> QED
      BY <1>1, <1>2, <1>8, <2>1, <2>2, <2>3 DEF KeepsIntentions
  <1> QED
    BY <1>4, <1>5, <1>6, <1>7, <1>8 DEF TokensArePast, tableVars

LEMMA LocalTokensAreFresh ==
    ASSUME IInv, NEW p \in Requests, LocalStep(p), Typed'
    PROVE  TokensAreFresh'
  <1> USE DEF LocalStep
  <1>1. /\ \A t \in TxIds : /\ txns[t].ver \in Nat /\ txns[t].ver <= clock
                            /\ txDraft[t].ver \in Nat /\ txDraft[t].ver <= clock
        /\ \A a \in Accounts : /\ accounts[a].ver \in Nat /\ accounts[a].ver <= clock
                               /\ accDraft[a].ver \in Nat /\ accDraft[a].ver <= clock
    BY DEF IInv, LedgerInvariant, TokensArePast, Typed, TypeOK, TransactionRow, AccountRow
  <1>2. \A q \in Requests, t \in TxIds : ReadsTx(q, t) =>
          seen[q].ver \in Nat /\ seen[q].ver <= clock
    BY DEF IInv, LedgerInvariant, TokensArePast, Typed, TypeOK, TransactionRow
  <1>3. \A q \in Requests, a \in Accounts : ReadsAccount(q, a) =>
          aseen[q].ver \in Nat /\ aseen[q].ver <= clock
    BY DEF IInv, LedgerInvariant, TokensArePast, Typed, TypeOK, AccountRow
  <1>4. clock \in Nat
    BY DEF IInv, Typed, TypeOK
  <1>5. ASSUME NEW t \in TxIds, NEW n \in Nat, n # 0,
               n > clock \/ (/\ txns[t].ver # n
                             /\ txDraft[t].ver # n
                             /\ \A q \in Requests : ReadsTx(q, t) => seen[q].ver # n)
        PROVE  /\ txns[t].ver # n
               /\ txDraft[t].ver # n
               /\ \A q \in Requests : ReadsTx(q, t)' => seen'[q].ver # n
    <2>1. txns[t].ver # n /\ txDraft[t].ver # n
      BY <1>1, <1>4, <1>5
    <2>2. ASSUME NEW q \in Requests, ReadsTx(q, t)' PROVE seen'[q].ver # n
      <3>1. CASE q = p
        BY <2>1, <2>2, <3>1, SeesAVersion DEF ReadsWhatItSees
      <3>2. CASE q # p
        <4>1. ReadsTx(q, t) /\ seen'[q] = seen[q]
          BY <2>2, <3>2, OthersStay DEF OnlyLocalsOf
        <4> QED
          BY <1>2, <1>4, <1>5, <4>1
      <3> QED
        BY <3>1, <3>2
    <2> QED
      BY <2>1, <2>2
  <1>6. ASSUME NEW a \in Accounts, NEW n \in Nat, n # 0,
               n > clock \/ (/\ accounts[a].ver # n
                             /\ accDraft[a].ver # n
                             /\ \A q \in Requests : ReadsAccount(q, a) => aseen[q].ver # n)
        PROVE  /\ accounts[a].ver # n
               /\ accDraft[a].ver # n
               /\ \A q \in Requests : ReadsAccount(q, a)' => aseen'[q].ver # n
    <2>1. accounts[a].ver # n /\ accDraft[a].ver # n
      BY <1>1, <1>4, <1>6
    <2>2. ASSUME NEW q \in Requests, ReadsAccount(q, a)' PROVE aseen'[q].ver # n
      <3>1. CASE q = p
        BY <2>1, <2>2, <3>1, SeesAVersion DEF ReadsWhatItSees
      <3>2. CASE q # p
        <4>1. ReadsAccount(q, a) /\ aseen'[q] = aseen[q]
          BY <2>2, <3>2, OthersStay DEF OnlyLocalsOf
        <4> QED
          BY <1>3, <1>4, <1>6, <4>1
      <3> QED
        BY <3>1, <3>2
    <2> QED
      BY <2>1, <2>2
  <1>7. ASSUME NEW q \in Requests, NEW t \in TxIds, WillWriteTx(q, t)'
        PROVE  now'[q] # 0 /\ (now'[q] > clock \/ (now'[q] = now[q] /\ WillWriteTx(q, t)))
    <2>1. now'[q] > clock \/ (now'[q] = now[q] /\ WillWriteTx(q, t))
      BY <1>7, OthersStay DEF KeepsIntentions, OnlyLocalsOf
    <2> QED
      BY <1>4, <2>1 DEF IInv, LedgerInvariant, TokensAreFresh
  <1>8. ASSUME NEW q \in Requests, NEW a \in Accounts, WillWriteAccount(q, a)'
        PROVE  /\ now'[q] # 0
               /\ now'[q] > clock \/ (now'[q] = now[q] /\ WillWriteAccount(q, a))
    <2>1. now'[q] > clock \/ (now'[q] = now[q] /\ WillWriteAccount(q, a))
      BY <1>8, OthersStay DEF KeepsIntentions, OnlyLocalsOf
    <2> QED
      BY <1>4, <2>1 DEF IInv, LedgerInvariant, TokensAreFresh
  <1>9. \A q \in Requests : now'[q] \in Nat
    BY DEF Typed, TypeOK
  <1>10. ASSUME NEW q \in Requests, NEW t \in TxIds, WillWriteTx(q, t)'
         PROVE  /\ txns[t].ver # now'[q]
                /\ txDraft[t].ver # now'[q]
                /\ \A r \in Requests : ReadsTx(r, t)' => seen'[r].ver # now'[q]
    <2>1. now'[q] > clock \/ (/\ txns[t].ver # now'[q]
                              /\ txDraft[t].ver # now'[q]
                              /\ \A r \in Requests : ReadsTx(r, t) => seen[r].ver # now'[q])
      BY <1>7, <1>10 DEF IInv, LedgerInvariant, TokensAreFresh
    <2> QED
      BY <1>5, <1>7, <1>9, <1>10, <2>1
  <1>11. ASSUME NEW q \in Requests, NEW a \in Accounts, WillWriteAccount(q, a)'
         PROVE  /\ accounts[a].ver # now'[q]
                /\ accDraft[a].ver # now'[q]
                /\ \A r \in Requests : ReadsAccount(r, a)' => aseen'[r].ver # now'[q]
    <2>1. now'[q] > clock \/ (/\ accounts[a].ver # now'[q]
                              /\ accDraft[a].ver # now'[q]
                              /\ \A r \in Requests : ReadsAccount(r, a) =>
                                    aseen[r].ver # now'[q])
      BY <1>8, <1>11 DEF IInv, LedgerInvariant, TokensAreFresh
    <2> QED
      BY <1>6, <1>8, <1>9, <1>11, <2>1
  <1> QED
    BY <1>7, <1>8, <1>10, <1>11 DEF TokensAreFresh, tableVars

LEMMA LocalTokensIdentifyRows ==
    ASSUME IInv, NEW p \in Requests, LocalStep(p)
    PROVE  TokensIdentifyRows'
  <1> USE DEF LocalStep
  <1>1. ASSUME NEW t \in TxIds, NEW q \in Requests, ReadsTx(q, t)'
        PROVE  /\ SameRowIfSameToken(seen'[q], txns[t])
               /\ SameRowIfSameToken(seen'[q], txDraft[t])
    <2>1. CASE q = p
      <3>1. seen'[q] \in {txns[t], txDraft[t]}
        BY <1>1, <2>1, SeesAVersion DEF ReadsWhatItSees
      <3>2. SameRowIfSameToken(txns[t], txDraft[t])
        BY DEF IInv, LedgerInvariant, TokensIdentifyRows
      <3> QED
        BY <3>1, <3>2 DEF SameRowIfSameToken, SameIfSameToken
    <2>2. CASE q # p
      BY <1>1, <2>2, OthersStay
      DEF OnlyLocalsOf, IInv, LedgerInvariant, TokensIdentifyRows
    <2> QED
      BY <2>1, <2>2
  <1>2. ASSUME NEW a \in Accounts, NEW q \in Requests, ReadsAccount(q, a)'
        PROVE  /\ SameIfSameToken(aseen'[q], accounts[a])
               /\ SameIfSameToken(aseen'[q], accDraft[a])
    <2>1. CASE q = p
      <3>1. aseen'[q] \in {accounts[a], accDraft[a]}
        BY <1>2, <2>1, SeesAVersion DEF ReadsWhatItSees
      <3>2. SameIfSameToken(accounts[a], accDraft[a])
        BY DEF IInv, LedgerInvariant, TokensIdentifyRows
      <3> QED
        BY <3>1, <3>2 DEF SameIfSameToken
    <2>2. CASE q # p
      BY <1>2, <2>2, OthersStay
      DEF OnlyLocalsOf, IInv, LedgerInvariant, TokensIdentifyRows
    <2> QED
      BY <2>1, <2>2
  <1>3. /\ \A t \in TxIds : SameRowIfSameToken(txns[t], txDraft[t])
        /\ \A a \in Accounts : SameIfSameToken(accounts[a], accDraft[a])
    BY DEF IInv, LedgerInvariant, TokensIdentifyRows
  <1>4. UNCHANGED <<txns, txDraft, accounts, accDraft>>
    BY DEF tableVars
  <1> QED
    BY <1>1, <1>2, <1>3, <1>4 DEF TokensIdentifyRows, SameRowIfSameToken, SameIfSameToken

LEMMA LocalIdsAreFresh ==
    ASSUME IInv, NEW p \in Requests, LocalStep(p), Typed'
    PROVE  IdsAreFresh'
  <1> USE DEF LocalStep
  <1>1. ASSUME NEW t \in TxIds, Unused(t) PROVE Unused(t)'
    <2>1. ~Exists(VisibleTx(p, t))
      BY <1>1, SeesAVersion DEF Unused, NoRow, Exists
    <2>2. \A q \in Requests : ~ReadsTx(q, t)'
      BY <1>1, <2>1, OthersStay DEF ReadsWhatItSees, Unused
    <2> QED
      BY <1>1, <2>2 DEF Unused, tableVars
  <1>2. \A t \in TxIds \ minted' : Unused(t)'
    BY <1>1 DEF IInv, LedgerInvariant, IdsAreFresh
  <1>3. ASSUME NEW q \in Requests, Creating(q)'
        PROVE  \/ Creating(q) /\ tgt'[q] = tgt[q]
               \/ q = p /\ tgt'[q] \in minted' \ minted
    BY <1>3, OthersStay DEF CreatesFreshId, OnlyLocalsOf
  <1>4. ASSUME NEW q \in Requests, Creating(q)'
        PROVE  (tgt[q] \in minted /\ Unused(tgt[q]))'
    <2>1. minted' \subseteq TxIds
      BY DEF Typed, TypeOK
    <2>2. tgt'[q] \in minted' /\ Unused(tgt'[q])
      BY <1>3, <1>4, <2>1 DEF IInv, LedgerInvariant, IdsAreFresh
    <2> QED
      BY <1>1, <2>1, <2>2 DEF Unused
  <1>5. ASSUME NEW q \in Requests, NEW r \in Requests, q # r, Creating(q)', Creating(r)'
        PROVE  tgt'[q] # tgt'[r]
    BY <1>3, <1>5 DEF IInv, LedgerInvariant, IdsAreFresh
  <1> QED
    BY <1>2, <1>4, <1>5 DEF IdsAreFresh

\* With its own locals in order, a step that touches no table keeps the invariant.
LEMMA LocalStepKeepsInvariant ==
    ASSUME IInv, NEW p \in Requests, LocalStep(p), Typed',
           Prepared(p)', Adjusts(p)', ViewAgrees(p)'
    PROVE  IInv'
  <1> USE DEF LocalStep
  <1>1. UNCHANGED <<accounts, accDraft, accLock, txns, txDraft, txLock>>
    BY DEF tableVars
  <1>2. DraftsAreLocked'
    <2>1. \A q \in Requests : pc'[q] \in {"start", "awrite", "done"} =>
            pc[q] \in {"start", "awrite", "done"}
      BY DEF OnlyLocalsOf
    <2> QED
      BY <1>1, <2>1 DEF IInv, LedgerInvariant, DraftsAreLocked
  <1>3. ASSUME NEW q \in Requests, q # p
        PROVE  Prepared(q)' /\ Adjusts(q)' /\ ViewAgrees(q)'
    <2>1. Prepared(q) /\ Adjusts(q) /\ ViewAgrees(q)
      BY DEF IInv, LedgerInvariant
    <2>2. Adjusts(q)'
      BY <1>1, <1>3, <2>1, OthersStay DEF Adjusts, OnlyLocalsOf
    <2>3. /\ \A a \in Accounts : VisibleAccount(q, a)' = VisibleAccount(q, a)
          /\ \A t \in TxIds : VisibleTx(q, t)' = VisibleTx(q, t)
      BY <1>1 DEF VisibleAccount, VisibleTx
    <2>4. /\ pc'[q] = pc[q] /\ tgt'[q] = tgt[q] /\ row'[q] = row[q]
          /\ Applying(q)' <=> Applying(q)
          /\ \A a \in Accounts : Due(q, a)' = Due(q, a)
      BY <1>3, OthersStay DEF OnlyLocalsOf
    <2>5. ViewAgrees(q)'
      BY <2>1, <2>3, <2>4 DEF ViewAgrees
    <2> QED
      BY <1>3, <2>1, <2>2, <2>5, OthersStay
  <1>4. PostingsMatchStatus'
    BY <1>1 DEF IInv, LedgerInvariant, PostingsMatchStatus
  <1> QED
    BY <1>2, <1>3, <1>4, LocalTokensArePast, LocalTokensAreFresh,
       LocalTokensIdentifyRows, LocalIdsAreFresh DEF IInv, LedgerInvariant

----------------------------------------------------------------------------
(***************************************************************************)
(* The actions that touch no table.                                        *)
(***************************************************************************)
LEMMA SameView ==
    ASSUME IInv, NEW p \in Requests, UNCHANGED tableVars,
           pc'[p] # "fail" => ~Applying(p) /\ pc[p] # "fail",
           ~Applying(p)'
    PROVE  ViewAgrees(p)'
  <1>1. CASE pc'[p] = "fail"
    BY <1>1 DEF ViewAgrees
  <1>2. CASE pc'[p] # "fail"
    <2>1. /\ \A a \in Accounts : VisibleAccount(p, a)' = VisibleAccount(p, a)
          /\ \A t \in TxIds : VisibleTx(p, t)' = VisibleTx(p, t)
      BY DEF VisibleAccount, VisibleTx, tableVars
    <2>2. \A a \in Accounts, t \in TxIds :
            VisibleAccount(p, a).postings[t] = Posting(VisibleTx(p, t), a)
      BY <1>2 DEF IInv, LedgerInvariant, ViewAgrees
    <2> QED
      BY <2>1, <2>2 DEF ViewAgrees
  <1> QED
    BY <1>1, <1>2

\* A step that neither reads nor prepares anything, and intends to write only with
\* a token it has just read.
LEMMA QuietStep ==
    ASSUME IInv, Typed', NEW p \in Requests,
           OnlyLocalsOf(p), UNCHANGED tableVars, minted \subseteq minted',
           clock <= clock', now'[p] <= clock',
           pc'[p] \in {"find", "status", "end", "fail", "done"},
           pc'[p] = "done" => pc[p] = "start",
           pc'[p] # "fail" => ~Applying(p) /\ pc[p] # "fail",
           \/ now'[p] > clock
           \/ /\ now'[p] \in {0, now[p]}
              /\ pc'[p] = "find" => op'[p] \in {"patch", "delete"}
    PROVE  IInv'
  <1>1. /\ ~Applying(p)' /\ ~Creating(p)'
        /\ \A t \in TxIds : ~ReadsTx(p, t)'
        /\ \A a \in Accounts : ~ReadsAccount(p, a)'
    BY DEF Applying, Creating, ReadsTx, ReadsAccount
  <1>2. LocalStep(p)
    <2>1. KeepsIntentions(p)
      BY DEF KeepsIntentions, WillWriteTx, WillWriteAccount, Typed, TypeOK
    <2> QED
      BY <1>1, <2>1 DEF LocalStep, ReadsWhatItSees, CreatesFreshId
  <1>3. Prepared(p)' /\ Adjusts(p)'
    BY <1>1 DEF Prepared, Adjusts, Applying
  <1>4. ViewAgrees(p)'
    BY <1>1, SameView
  <1> QED
    BY <1>2, <1>3, <1>4, LocalStepKeepsInvariant

LEMMA StartKnownSafe ==
    ASSUME ClockAdvances, IInv, NEW p \in Requests,
           StartTimed(p) \/ StartUntimed(p) \/ StartBulkPatch(p)
    PROVE  IInv'
  <1>1. Typed'
    BY StartKnownTyped, StartBulkPatchTyped DEF IInv
  <1>2. /\ OnlyLocalsOf(p)
        /\ UNCHANGED tableVars
        /\ minted' = minted
    BY DEF StartTimed, StartUntimed, StartBulkPatch, ReadClock, OnlyLocalsOf, IInv,
           Typed, TypeOK
  <1>3. pc[p] \in {"start", "end"} /\ pc'[p] \in {"find", "fail"}
    BY DEF StartTimed, StartUntimed, StartBulkPatch, MayStart, IInv, Typed, TypeOK
  <1>4. \/ now'[p] > clock /\ clock' = now'[p]
        \/ now' = now /\ clock' = clock /\ op'[p] \in {"patch", "delete"}
    <2>1. CASE StartTimed(p)
      BY <2>1, LaterReading DEF StartTimed, ReadClock, IInv, Typed, TypeOK
    <2>2. CASE StartUntimed(p)
      BY <2>2 DEF StartUntimed, IInv, Typed, TypeOK
    <2>3. CASE StartBulkPatch(p)
      BY <2>3 DEF StartBulkPatch, IInv, Typed, TypeOK
    <2> QED
      BY <2>1, <2>2, <2>3
  <1>5. clock \in Nat /\ now[p] \in Nat /\ now[p] <= clock /\ now'[p] \in Nat
    BY <1>1 DEF IInv, LedgerInvariant, TokensArePast, Typed, TypeOK
  <1>6. ~Applying(p)
    BY <1>3 DEF Applying
  <1> QED
    BY <1>1, <1>2, <1>3, <1>4, <1>5, <1>6, QuietStep

LEMMA BulkStatusSafe ==
    ASSUME ClockAdvances, IInv, NEW p \in Requests, BulkStatus(p)
    PROVE  IInv'
  <1>1. Typed'
    BY BulkStatusTyped DEF IInv
  <1>2. /\ OnlyLocalsOf(p)
        /\ UNCHANGED tableVars
        /\ minted' = minted
    BY DEF BulkStatus, ReadClock, OnlyLocalsOf, IInv, Typed, TypeOK
  <1>3. pc[p] = "status" /\ pc'[p] \in {"find", "end", "fail"}
    BY DEF BulkStatus, IInv, Typed, TypeOK
  <1>4. \/ now'[p] > clock /\ clock' = now'[p]
        \/ now' = now /\ clock' = clock /\ pc'[p] # "find"
    BY LaterReading DEF BulkStatus, ReadClock, IInv, Typed, TypeOK
  <1>5. clock \in Nat /\ now[p] \in Nat /\ now[p] <= clock /\ now'[p] \in Nat
    BY <1>1 DEF IInv, LedgerInvariant, TokensArePast, Typed, TypeOK
  <1>6. ~Applying(p)
    BY <1>3 DEF Applying
  <1> QED
    BY <1>1, <1>2, <1>3, <1>4, <1>5, <1>6, QuietStep

LEMMA FailSafe ==
    ASSUME IInv, Typed', NEW p \in Requests, pc' = [pc EXCEPT ![p] = "fail"],
           UNCHANGED <<tableVars, minted, clock, op, tgt, now, seen, row, acct,
                       aseen, todo>>
    PROVE  IInv'
  <1>1. OnlyLocalsOf(p) /\ pc'[p] = "fail"
    BY DEF OnlyLocalsOf, IInv, Typed, TypeOK
  <1>2. now[p] \in Nat /\ now[p] <= clock /\ clock \in Nat
    BY DEF IInv, LedgerInvariant, TokensArePast, Typed, TypeOK
  <1> QED
    BY <1>1, <1>2, QuietStep

----------------------------------------------------------------------------
LEMMA DeltaOfRow ==
    ASSUME NEW s, NEW status, NEW n, NEW a
    PROVE  Delta(Row(s, status, n), a) = Delta(s, a)
  BY DEF Delta, Incoming, Outgoing, Row

LEMMA NoRowPosting == \A a \in Accounts : Posting(NoRow, a) = 0
  BY DEF Posting, NoRow

\* A transaction that is only being created has not touched any balance.
LEMMA CreationSafe ==
    ASSUME IInv, Typed', NEW p \in Requests, OnlyLocalsOf(p), UNCHANGED tableVars,
           ~Applying(p), pc[p] # "fail",
           NEW t \in TxIds \ minted, minted' = minted \cup {t}, tgt'[p] = t,
           NEW s, s \in Shape \/ s \in TransactionRow,
           NEW status \in {"planned", "posted"},
           row'[p] = Row(s, status, now'[p]),
           todo'[p] = IF status = "posted" THEN Affected(s) ELSE {},
           pc'[p] = IF todo'[p] = {} THEN "insert" ELSE "apply",
           op'[p] \in {"create", "duplicate"},
           clock <= clock', now'[p] <= clock',
           \/ now'[p] > clock
           \/ now'[p] = now[p] /\ \A a \in Accounts : WillWriteAccount(p, a)
    PROVE  IInv'
  <1>1. pc'[p] \in {"apply", "insert"} /\ now'[p] \in Nat
    BY DEF Typed, TypeOK
  <1>2. LocalStep(p)
    <2>1. KeepsIntentions(p)
      BY <1>1 DEF KeepsIntentions, WillWriteTx
    <2>2. CreatesFreshId(p)
      BY DEF CreatesFreshId
    <2>3. ReadsWhatItSees(p)
      BY <1>1 DEF ReadsWhatItSees, ReadsTx, ReadsAccount
    <2> QED
      BY <1>1, <2>1, <2>2, <2>3 DEF LocalStep
  <1>3. Prepared(p)'
    BY <1>1 DEF Prepared
  <1>4. Adjusts(p)'
    BY <1>1 DEF Adjusts, Row
  <1>5. ViewAgrees(p)'
    <2>1. /\ \A a \in Accounts : VisibleAccount(p, a)' = VisibleAccount(p, a)
          /\ \A u \in TxIds : VisibleTx(p, u)' = VisibleTx(p, u)
      BY DEF VisibleAccount, VisibleTx, tableVars
    <2>2. \A a \in Accounts, u \in TxIds :
            VisibleAccount(p, a).postings[u] = Posting(VisibleTx(p, u), a)
      BY DEF IInv, LedgerInvariant, ViewAgrees
    <2>3. VisibleTx(p, t) = NoRow
      BY SeesAVersion DEF IInv, LedgerInvariant, IdsAreFresh, Unused
    <2>4. \A a \in Accounts : VisibleAccount(p, a).postings[t] = 0
      BY <2>2, <2>3, NoRowPosting
    <2>5. ASSUME NEW a \in Accounts PROVE Due(p, a)' = Posting(row'[p], a)
      <3>1. Delta(row'[p], a) = Delta(s, a) /\ Delta(s, a) \in Int
        BY DeltaOfRow, DeltaType
      <3>2. row'[p].status = status
        BY DEF Row
      <3>3. Sign(p)' = 1
        BY DEF Sign
      <3> QED
        BY <3>1, <3>2, <3>3 DEF Due, Posting, Affected
    <2>6. \A a \in Accounts : Posting(row'[p], a) \in Int
      BY PostingType DEF Typed, TypeOK
    <2> QED
      BY <1>1, <2>1, <2>2, <2>4, <2>5, <2>6 DEF ViewAgrees, Applying
  <1> QED
    BY <1>2, <1>3, <1>4, <1>5, LocalStepKeepsInvariant

LEMMA StartCreateSafe ==
    ASSUME ClockAdvances, IInv, NEW p \in Requests, StartCreate(p)
    PROVE  IInv'
  <1>1. Typed'
    BY StartCreateTyped DEF IInv
  <1>2. PICK n \in Readings, t \in TxIds \ minted, s \in Shapes,
             status \in {"planned", "posted"} :
           /\ ReadClock(p, n)
           /\ minted' = minted \cup {t}
           /\ tgt' = [tgt EXCEPT ![p] = t]
           /\ row' = [row EXCEPT ![p] = Row(s, status, n)]
           /\ IF ValidShape(s)
              THEN Apply(p, IF status = "posted" THEN Affected(s) ELSE {}, "insert")
              ELSE pc' = [pc EXCEPT ![p] = "fail"] /\ UNCHANGED todo
    BY DEF StartCreate
  <1>3. /\ pc[p] \in {"start", "end"}
        /\ op' = [op EXCEPT ![p] = "create"]
        /\ UNCHANGED <<tableVars, kind, seen, acct, aseen, goal, was>>
    BY DEF StartCreate, MayStart
  <1>4. n \in Nat /\ n > clock /\ clock' = n /\ now' = [now EXCEPT ![p] = n]
    BY <1>2, LaterReading DEF ReadClock, IInv, Typed
  <1>5. s \in Shape
    BY LedgerAssumption
  <1>6. TypeOK /\ clock \in Nat
    BY DEF IInv, Typed, TypeOK
  <1>7. OnlyLocalsOf(p)
    BY <1>2, <1>3, <1>4, <1>6 DEF OnlyLocalsOf, Apply, TypeOK
  <1>8. /\ now'[p] = n /\ tgt'[p] = t /\ op'[p] = "create"
        /\ row'[p] = Row(s, status, now'[p])
    BY <1>2, <1>3, <1>4, <1>6 DEF TypeOK
  <1>9. ~Applying(p)
    BY <1>3 DEF Applying
  <1>10. CASE ValidShape(s)
    <2>1. /\ todo'[p] = IF status = "posted" THEN Affected(s) ELSE {}
          /\ pc'[p] = IF todo'[p] = {} THEN "insert" ELSE "apply"
      BY <1>2, <1>6, <1>10 DEF Apply, TypeOK
    <2> QED
      BY <1>1, <1>2, <1>3, <1>4, <1>5, <1>6, <1>7, <1>8, <1>9, <2>1, CreationSafe
  <1>11. CASE ~ValidShape(s)
    <2>1. pc'[p] = "fail"
      BY <1>2, <1>6, <1>11 DEF TypeOK
    <2> QED
      BY <1>1, <1>2, <1>3, <1>4, <1>6, <1>7, <1>8, <2>1, QuietStep
  <1> QED
    BY <1>10, <1>11

----------------------------------------------------------------------------
LEMMA FoundSafe ==
    ASSUME IInv, Typed', NEW p \in Requests, OnlyLocalsOf(p), UNCHANGED tableVars,
           minted' = minted, clock <= clock', now'[p] <= clock',
           pc[p] = "find", pc'[p] = "write", tgt'[p] = tgt[p], op'[p] = op[p],
           seen'[p] = VisibleTx(p, tgt[p]), Exists(seen'[p]),
           \/ now'[p] > clock
           \/ now'[p] = now[p] /\ op[p] \in {"post", "cancel", "delete"},
           Prepared(p)'
    PROVE  IInv'
  <1>1. ReadsWhatItSees(p)
    BY DEF ReadsWhatItSees, ReadsTx, ReadsAccount
  <1>2. KeepsIntentions(p)
    BY DEF KeepsIntentions, WillWriteTx, WillWriteAccount, Typed, TypeOK
  <1>3. ~Applying(p) /\ ~Applying(p)' /\ ~Creating(p)'
    BY DEF Applying, Creating
  <1>4. LocalStep(p)
    BY <1>1, <1>2, <1>3 DEF LocalStep, CreatesFreshId
  <1>5. Adjusts(p)'
    BY <1>3 DEF Adjusts, Applying
  <1>6. ViewAgrees(p)'
    BY <1>3, SameView
  <1> QED
    BY <1>4, <1>5, <1>6, LocalStepKeepsInvariant

LEMMA PatchPosting ==
    ASSUME NEW r \in TransactionRow, NEW n
    PROVE  LET patched == [r EXCEPT !.ver = n] IN
           /\ patched.ver = n
           /\ patched.status = r.status
           /\ \A a \in Accounts : Posting(patched, a) = Posting(r, a)
  BY DEF TransactionRow, Posting, Delta, Incoming, Outgoing

LEMMA FindSafe ==
    ASSUME ClockAdvances, IInv, NEW p \in Requests, Find(p)
    PROVE  IInv'
  <1> DEFINE current == VisibleTx(p, tgt[p])
  <1>1. Typed'
    BY FindTyped DEF IInv
  <1>2. pc[p] = "find" /\ UNCHANGED <<tableVars, kind, count, op, acct, aseen, goal, was>>
    BY DEF Find, FindForPost, FindForCancel, FindForPatch, FindForDelete, FindForDuplicate
  <1>3. tgt[p] \in TxIds /\ current \in TransactionRow /\ TypeOK
    BY <1>2, VisibleTxType DEF IInv, Typed, Targeted
  <1>4. clock \in Nat /\ now[p] \in Nat /\ now[p] <= clock
    BY DEF IInv, LedgerInvariant, TokensArePast, Typed, TypeOK
  <1> HIDE DEF current
  <1>5. CASE Fail(p)
    BY <1>1, <1>2, <1>5, FailSafe DEF Fail
  \* The reading services: what they found and what they prepare.
  <1>6. ASSUME NEW candidate, Found(p, current, candidate), Exists(current),
               UNCHANGED <<minted, tgt>>,
               \/ UNCHANGED <<clock, now>> /\ op[p] \in {"post", "cancel", "delete"}
               \/ \E n \in Readings : ReadClock(p, n),
               Prepared(p)'
        PROVE  IInv'
    <2>1. /\ seen'[p] = current
          /\ pc'[p] = "write" /\ tgt'[p] = tgt[p] /\ op'[p] = op[p]
      BY <1>2, <1>3, <1>6 DEF Found, TypeOK
    <2>2. OnlyLocalsOf(p)
      BY <1>2, <1>3, <1>6 DEF Found, ReadClock, OnlyLocalsOf, TypeOK
    <2>3. \/ now'[p] > clock /\ clock' = now'[p]
          \/ now'[p] = now[p] /\ clock' = clock /\ op[p] \in {"post", "cancel", "delete"}
      BY <1>3, <1>6, LaterReading DEF ReadClock, TypeOK
    <2>4. now'[p] \in Nat
      BY <1>1 DEF Typed, TypeOK
    <2> QED
      BY <1>1, <1>2, <1>4, <1>6, <2>1, <2>2, <2>3, <2>4, FoundSafe DEF current
  <1>7. ASSUME NEW candidate, Found(p, current, candidate), UNCHANGED tgt
        PROVE  /\ pc'[p] = "write" /\ seen'[p] = current /\ row'[p] = candidate
               /\ tgt'[p] \in TxIds /\ op'[p] = op[p]
    BY <1>2, <1>3, <1>7 DEF Found, TypeOK
  <1>8. CASE FindForPost(p) /\ ~Fail(p)
    <2>1. Found(p, current, Post(current, now[p])) /\ UNCHANGED <<clock, minted, now, tgt>>
      BY <1>8 DEF FindForPost, current
    <2>2. op[p] = "post" /\ CanPost(current)
      BY <1>8 DEF FindForPost, current
    <2>3. Prepared(p)' /\ Exists(current)
      BY <1>7, <2>1, <2>2 DEF Prepared, CanPost, Exists
    <2> QED
      BY <1>6, <2>1, <2>2, <2>3
  <1>9. CASE FindForCancel(p) /\ ~Fail(p)
    <2>1. Found(p, current, Cancel(current, now[p])) /\ UNCHANGED <<clock, minted, now, tgt>>
      BY <1>9 DEF FindForCancel, current
    <2>2. op[p] = "cancel" /\ CanCancel(current)
      BY <1>9 DEF FindForCancel, current
    <2>3. Prepared(p)' /\ Exists(current)
      BY <1>7, <2>1, <2>2 DEF Prepared, CanCancel, Exists
    <2> QED
      BY <1>6, <2>1, <2>2, <2>3
  <1>10. CASE FindForPatch(p) /\ ~Fail(p)
    <2>0. PICK n \in Readings :
            /\ ReadClock(p, n)
            /\ \E candidate :
                 /\ Found(p, current, candidate)
                 /\ UNCHANGED <<minted, tgt>>
                 /\ current.status \in {"planned", "posted"}
                 /\ \/ candidate = [current EXCEPT !.ver = n]
                    \/ /\ current.status = "planned"
                       /\ \E s \in Shapes : candidate = Row(s, current.status, n)
      BY <1>10 DEF FindForPatch, MoneyPatchable, current
    <2>1. PICK candidate :
            /\ ReadClock(p, n)
            /\ Found(p, current, candidate)
            /\ UNCHANGED <<minted, tgt>>
            /\ current.status \in {"planned", "posted"}
            /\ \/ candidate = [current EXCEPT !.ver = n]
               \/ /\ current.status = "planned"
                  /\ \E s \in Shapes : candidate = Row(s, current.status, n)
      BY <2>0
    <2>2. /\ candidate.ver = n
          /\ candidate.status = current.status
          /\ \A a \in Accounts : Posting(candidate, a) = Posting(current, a)
      <3>1. CASE candidate = [current EXCEPT !.ver = n]
        BY <1>3, <3>1, PatchPosting
      <3>2. CASE /\ current.status = "planned"
                 /\ \E s \in Shapes : candidate = Row(s, current.status, n)
        BY <3>2 DEF Row, Posting
      <3> QED
        BY <2>1, <3>1, <3>2
    <2>3. op[p] = "patch" /\ now'[p] = n
      BY <1>3, <1>10, <2>1 DEF FindForPatch, ReadClock, TypeOK
    <2>4. Prepared(p)' /\ Exists(current)
      BY <1>7, <2>1, <2>2, <2>3 DEF Prepared, Exists
    <2> QED
      BY <1>6, <2>1, <2>4
  <1>11. CASE FindForDelete(p) /\ ~Fail(p)
    <2>1. Found(p, current, NoRow) /\ UNCHANGED <<clock, minted, now, tgt>>
      BY <1>11 DEF FindForDelete, current
    <2>2. op[p] = "delete" /\ current.status \in {"planned", "cancelled"}
      BY <1>11 DEF FindForDelete, current
    <2>3. Prepared(p)' /\ Exists(current)
      BY <1>7, <2>1, <2>2 DEF Prepared, Exists
    <2> QED
      BY <1>6, <2>1, <2>2, <2>3
  <1>12. CASE FindForDuplicate(p) /\ ~Fail(p)
    <2>1. PICK t \in TxIds \ minted, status \in {"planned", "posted"} :
            /\ minted' = minted \cup {t}
            /\ tgt' = [tgt EXCEPT ![p] = t]
            /\ row' = [row EXCEPT ![p] = Row(current, status, now[p])]
            /\ Apply(p, IF status = "posted" THEN Affected(current) ELSE {}, "insert")
            /\ UNCHANGED <<clock, now, seen>>
      BY <1>12 DEF FindForDuplicate, current
    <2>2. op[p] = "duplicate"
      BY <1>12 DEF FindForDuplicate
    <2>3. /\ tgt'[p] = t /\ now'[p] = now[p] /\ op'[p] = "duplicate"
          /\ row'[p] = Row(current, status, now'[p])
          /\ todo'[p] = IF status = "posted" THEN Affected(current) ELSE {}
          /\ pc'[p] = IF todo'[p] = {} THEN "insert" ELSE "apply"
      BY <1>2, <1>3, <2>1, <2>2 DEF Apply, TypeOK
    <2>4. OnlyLocalsOf(p)
      BY <1>2, <1>3, <2>1 DEF OnlyLocalsOf, Apply, TypeOK
    <2>5. ~Applying(p) /\ \A a \in Accounts : WillWriteAccount(p, a)
      BY <1>2, <2>2 DEF Applying, WillWriteAccount
    <2> QED
      BY <1>1, <1>2, <1>3, <1>4, <2>1, <2>2, <2>3, <2>4, <2>5, CreationSafe
  <1> QED
    BY <1>5, <1>8, <1>9, <1>10, <1>11, <1>12 DEF Find

----------------------------------------------------------------------------
LEMMA ReadAccountSafe ==
    ASSUME IInv, NEW p \in Requests, ReadAccount(p)
    PROVE  IInv'
  <1>1. Typed'
    BY ReadAccountTyped DEF IInv
  <1>2. PICK a \in todo[p] :
          /\ acct' = [acct EXCEPT ![p] = a]
          /\ aseen' = [aseen EXCEPT ![p] = VisibleAccount(p, a)]
    BY DEF ReadAccount
  <1>3. /\ pc[p] = "apply"
        /\ pc' = [pc EXCEPT ![p] = "adjust"]
        /\ UNCHANGED <<tableVars, minted, clock, kind, count, op, tgt, now, seen, row,
                       todo, goal, was>>
    BY DEF ReadAccount
  <1>4. /\ OnlyLocalsOf(p)
        /\ pc'[p] = "adjust" /\ acct'[p] = a /\ aseen'[p] = VisibleAccount(p, a)
    BY <1>2, <1>3 DEF OnlyLocalsOf, IInv, Typed, TypeOK
  <1>5. LocalStep(p)
    <2>1. KeepsIntentions(p)
      BY <1>3, <1>4
      DEF KeepsIntentions, WillWriteTx, WillWriteAccount, IInv, LedgerInvariant,
          TokensArePast, Typed, TypeOK
    <2>2. ReadsWhatItSees(p)
      BY <1>4 DEF ReadsWhatItSees, ReadsTx, ReadsAccount
    <2>3. CreatesFreshId(p)
      BY <1>3, <1>4 DEF CreatesFreshId, Creating, Applying
    <2> QED
      BY <1>3, <1>4, <2>1, <2>2, <2>3 DEF LocalStep, IInv, Typed, TypeOK
  <1>6. Prepared(p)'
    BY <1>4 DEF Prepared
  <1>7. Adjusts(p)'
    BY <1>2, <1>3, <1>4 DEF Adjusts, Applying, IInv, LedgerInvariant, tableVars
  <1>8. ViewAgrees(p)'
    <2>1. /\ \A b \in Accounts : VisibleAccount(p, b)' = VisibleAccount(p, b)
          /\ \A t \in TxIds : VisibleTx(p, t)' = VisibleTx(p, t)
          /\ \A b \in Accounts : Due(p, b)' = Due(p, b)
      BY <1>3 DEF VisibleAccount, VisibleTx, tableVars, Due, Sign
    <2>2. Applying(p) /\ Applying(p)' /\ pc[p] # "fail"
      BY <1>3, <1>4 DEF Applying
    <2> QED
      BY <1>3, <2>1, <2>2 DEF ViewAgrees, IInv, LedgerInvariant
  <1> QED
    BY <1>1, <1>5, <1>6, <1>7, <1>8, LocalStepKeepsInvariant

LEMMA FindAccountSafe ==
    ASSUME ClockAdvances, IInv, NEW p \in Requests, FindAccount(p)
    PROVE  IInv'
  <1>1. Typed'
    BY FindAccountTyped DEF IInv
  <1>2. pc[p] = "start" /\ UNCHANGED <<tableVars, minted, kind>>
    BY DEF FindAccount
  <1>3. PICK a \in Accounts, n \in Readings :
          \/ /\ ReadClock(p, n)
             /\ acct' = [acct EXCEPT ![p] = a]
             /\ aseen' = [aseen EXCEPT ![p] = accounts[a]]
             /\ pc' = [pc EXCEPT ![p] = "awrite"]
             /\ UNCHANGED <<count, op, tgt, seen, row, todo, goal, was>>
          \/ Return(p) /\ UNCHANGED clock
    BY DEF FindAccount
  <1>4. TypeOK /\ clock \in Nat /\ ~Applying(p)
    BY <1>2 DEF Applying, IInv, Typed, TypeOK
  <1>5. CASE Return(p) /\ UNCHANGED clock
    <2>1. OnlyLocalsOf(p)
      BY <1>4, <1>5 DEF Return, OnlyLocalsOf, TypeOK
    <2>2. pc'[p] = "done" /\ now'[p] = 0
      BY <1>4, <1>5 DEF Return, TypeOK
    <2> QED
      BY <1>1, <1>2, <1>4, <1>5, <2>1, <2>2, QuietStep
  <1>6. CASE ~(Return(p) /\ UNCHANGED clock)
    <2>1. /\ ReadClock(p, n)
          /\ acct' = [acct EXCEPT ![p] = a]
          /\ aseen' = [aseen EXCEPT ![p] = accounts[a]]
          /\ pc' = [pc EXCEPT ![p] = "awrite"]
          /\ UNCHANGED <<count, op, tgt, seen, row, todo, goal, was>>
      BY <1>3, <1>6
    <2>2. /\ n > clock /\ n \in Nat /\ clock' = n /\ now'[p] = n
          /\ pc'[p] = "awrite" /\ acct'[p] = a /\ aseen'[p] = accounts[a]
      BY <1>4, <2>1, LaterReading DEF ReadClock, TypeOK
    <2>3. OnlyLocalsOf(p)
      BY <1>4, <2>1 DEF ReadClock, OnlyLocalsOf, TypeOK
    <2>4. VisibleAccount(p, a) = accounts[a]
      BY <1>2 DEF VisibleAccount, IInv, LedgerInvariant, DraftsAreLocked
    <2>5. LocalStep(p)
      <3>1. KeepsIntentions(p)
        BY <2>2 DEF KeepsIntentions, WillWriteTx
      <3>2. ReadsWhatItSees(p)
        BY <2>2, <2>4 DEF ReadsWhatItSees, ReadsTx, ReadsAccount
      <3>3. CreatesFreshId(p)
        BY <2>2 DEF CreatesFreshId, Creating, Applying
      <3> QED
        BY <1>2, <1>4, <2>2, <2>3, <3>1, <3>2, <3>3 DEF LocalStep
    <2>6. ~Applying(p)' /\ Prepared(p)' /\ Adjusts(p)'
      BY <2>2 DEF Applying, Prepared, Adjusts
    <2>7. ViewAgrees(p)'
      BY <1>2, <1>4, <2>6, SameView
    <2> QED
      BY <1>1, <2>5, <2>6, <2>7, LocalStepKeepsInvariant
  <1> QED
    BY <1>5, <1>6

----------------------------------------------------------------------------
(***************************************************************************)
(* The ends of a request: rollback, commit, and the statement of an account*)
(* request.                                                                *)
(***************************************************************************)
LEMMA ReturnForgets ==
    ASSUME IInv, NEW p \in Requests, Return(p)
    PROVE  /\ OnlyLocalsOf(p)
           /\ pc'[p] = "done" /\ now'[p] = 0
           /\ ~Applying(p)' /\ ~Creating(p)'
           /\ \A t \in TxIds : ~ReadsTx(p, t)' /\ ~WillWriteTx(p, t)'
           /\ \A a \in Accounts : ~ReadsAccount(p, a)' /\ ~WillWriteAccount(p, a)'
           /\ Prepared(p)' /\ Adjusts(p)'
  <1>1. OnlyLocalsOf(p) /\ pc'[p] = "done" /\ now'[p] = 0
    BY DEF Return, OnlyLocalsOf, IInv, Typed, TypeOK
  <1> QED
    BY <1>1 DEF Applying, Creating, ReadsTx, WillWriteTx, ReadsAccount,
                WillWriteAccount, Prepared, Adjusts

\* After a return, tables whose rows carry only known versions keep the token parts.
LEMMA ReturnKeepsTokens ==
    ASSUME IInv, NEW p \in Requests, Return(p), UNCHANGED <<minted, clock>>,
           \A t \in TxIds : /\ txns'[t] \in {txns[t], txDraft[t]}
                            /\ txDraft'[t] \in {txns[t], txDraft[t]},
           \A a \in Accounts : /\ accounts'[a] \in {accounts[a], accDraft[a]}
                               /\ accDraft'[a] \in {accounts[a], accDraft[a]},
           \A t \in TxIds : txLock'[t] = IF txLock[t] = p THEN Free ELSE txLock[t]
    PROVE  TokensArePast' /\ TokensAreFresh' /\ TokensIdentifyRows' /\ IdsAreFresh'
  <1>1. \A q \in Requests : q # p =>
          /\ now'[q] = now[q] /\ seen'[q] = seen[q] /\ aseen'[q] = aseen[q]
          /\ tgt'[q] = tgt[q]
    BY ReturnForgets DEF OnlyLocalsOf
  <1>2. \A q \in Requests, t \in TxIds : ReadsTx(q, t)' => q # p /\ ReadsTx(q, t)
    BY ReturnForgets, OthersStay
  <1>3. \A q \in Requests, a \in Accounts :
          ReadsAccount(q, a)' => q # p /\ ReadsAccount(q, a)
    BY ReturnForgets, OthersStay
  <1>4. TokensArePast'
    <2>1. now'[p] = 0 /\ clock \in Nat /\ \A q \in Requests : now[q] \in Nat
      BY ReturnForgets DEF IInv, Typed, TypeOK
    <2> QED
      BY <1>1, <1>2, <1>3, <2>1 DEF TokensArePast, IInv, LedgerInvariant
  <1>5. TokensAreFresh'
    <2>1. \A q \in Requests, t \in TxIds :
            WillWriteTx(q, t)' => q # p /\ WillWriteTx(q, t)
      BY ReturnForgets, OthersStay
    <2>2. \A q \in Requests, a \in Accounts :
            WillWriteAccount(q, a)' => q # p /\ WillWriteAccount(q, a)
      BY ReturnForgets, OthersStay
    <2> QED
      BY <1>1, <1>2, <1>3, <2>1, <2>2 DEF TokensAreFresh, IInv, LedgerInvariant
  <1>6. TokensIdentifyRows'
    <2>1. \A t \in TxIds : SameRowIfSameToken(txns'[t], txDraft'[t])
      BY DEF IInv, LedgerInvariant, TokensIdentifyRows, SameRowIfSameToken, SameIfSameToken
    <2>2. \A a \in Accounts : SameIfSameToken(accounts'[a], accDraft'[a])
      BY DEF IInv, LedgerInvariant, TokensIdentifyRows, SameIfSameToken
    <2>3. ASSUME NEW t \in TxIds, NEW q \in Requests, ReadsTx(q, t)'
          PROVE  /\ SameRowIfSameToken(seen'[q], txns'[t])
                 /\ SameRowIfSameToken(seen'[q], txDraft'[t])
      BY <1>1, <1>2, <2>3 DEF IInv, LedgerInvariant, TokensIdentifyRows
    <2>4. ASSUME NEW a \in Accounts, NEW q \in Requests, ReadsAccount(q, a)'
          PROVE  /\ SameIfSameToken(aseen'[q], accounts'[a])
                 /\ SameIfSameToken(aseen'[q], accDraft'[a])
      BY <1>1, <1>3, <2>4 DEF IInv, LedgerInvariant, TokensIdentifyRows
    <2> QED
      BY <2>1, <2>2, <2>3, <2>4 DEF TokensIdentifyRows, SameRowIfSameToken, SameIfSameToken
  <1>7. IdsAreFresh'
    <2>1. ASSUME NEW t \in TxIds, Unused(t) PROVE Unused(t)'
      <3>1. txLock[t] # p
        BY <2>1, LedgerAssumption DEF Unused
      <3> QED
        BY <1>2, <2>1, <3>1 DEF Unused
    <2>2. \A q \in Requests : Creating(q)' => q # p /\ Creating(q)
      BY ReturnForgets, OthersStay
    <2>3. minted \subseteq TxIds
      BY DEF IInv, Typed, TypeOK
    <2>4. ASSUME NEW q \in Requests, Creating(q)'
          PROVE  (tgt[q] \in minted /\ Unused(tgt[q]))'
      <3>1. tgt[q] \in minted /\ Unused(tgt[q]) /\ tgt'[q] = tgt[q] /\ tgt[q] \in TxIds
        BY <1>1, <2>2, <2>3, <2>4 DEF IInv, LedgerInvariant, IdsAreFresh
      <3> QED
        BY <2>1, <3>1 DEF Unused
    <2> QED
      BY <1>1, <2>1, <2>2, <2>4 DEF IdsAreFresh, IInv, LedgerInvariant
  <1> QED
    BY <1>4, <1>5, <1>6, <1>7

LEMMA DiscardSafe ==
    ASSUME IInv, NEW p \in Requests, Discard(p)
    PROVE  IInv'
  <1>1. Typed'
    BY DiscardTyped DEF IInv
  <1>2. Return(p) /\ UNCHANGED <<txns, accounts, minted, clock>>
    BY DEF Discard
  <1>3. /\ \A t \in TxIds : txDraft'[t] = IF txLock[t] = p THEN txns[t] ELSE txDraft[t]
        /\ \A a \in Accounts :
              accDraft'[a] = IF accLock[a] = p THEN accounts[a] ELSE accDraft[a]
        /\ \A t \in TxIds : txLock'[t] = IF txLock[t] = p THEN Free ELSE txLock[t]
        /\ \A a \in Accounts : accLock'[a] = IF accLock[a] = p THEN Free ELSE accLock[a]
    BY DEF Discard, Unlock
  <1>4. TokensArePast' /\ TokensAreFresh' /\ TokensIdentifyRows' /\ IdsAreFresh'
    BY <1>2, <1>3, ReturnKeepsTokens
  <1>5. \A q \in Requests : q # Free
    BY LedgerAssumption
  <1>6. DraftsAreLocked'
    <2>1. \A q \in Requests : q # p => pc'[q] = pc[q]
      BY <1>2, ReturnForgets DEF OnlyLocalsOf
    <2> QED
      BY <1>2, <1>3, <1>5, <2>1 DEF DraftsAreLocked, IInv, LedgerInvariant
  <1>7. PostingsMatchStatus'
    BY <1>2 DEF PostingsMatchStatus, IInv, LedgerInvariant
  <1>8. ASSUME NEW q \in Requests, q # p
        PROVE  Prepared(q)' /\ Adjusts(q)' /\ ViewAgrees(q)'
    <2>1. /\ \A a \in Accounts : VisibleAccount(q, a)' = VisibleAccount(q, a)
          /\ \A t \in TxIds : VisibleTx(q, t)' = VisibleTx(q, t)
      BY <1>2, <1>3, <1>5, <1>8 DEF VisibleAccount, VisibleTx
    <2>2. /\ pc'[q] = pc[q] /\ tgt'[q] = tgt[q] /\ row'[q] = row[q]
          /\ acct'[q] = acct[q] /\ todo'[q] = todo[q]
          /\ now'[q] = now[q] /\ op'[q] = op[q]
          /\ Applying(q)' <=> Applying(q)
          /\ \A a \in Accounts : Due(q, a)' = Due(q, a)
          /\ Prepared(q)' <=> Prepared(q)
      BY <1>2, <1>8, ReturnForgets, OthersStay DEF OnlyLocalsOf
    <2>3. Prepared(q) /\ Adjusts(q) /\ ViewAgrees(q)
      BY DEF IInv, LedgerInvariant
    <2>4. Adjusts(q)'
      BY <1>3, <1>8, <2>2, <2>3 DEF Adjusts
    <2>5. ViewAgrees(q)'
      BY <2>1, <2>2, <2>3 DEF ViewAgrees
    <2> QED
      BY <2>2, <2>3, <2>4, <2>5
  <1>9. ViewAgrees(p)'
    <2>1. /\ \A a \in Accounts : VisibleAccount(p, a)' = accounts'[a]
          /\ \A t \in TxIds : VisibleTx(p, t)' = txns'[t]
      BY <1>3, <1>5 DEF VisibleAccount, VisibleTx
    <2> QED
      BY <1>2, <1>7, <2>1, ReturnForgets DEF ViewAgrees, PostingsMatchStatus
  <1> QED
    BY <1>1, <1>2, <1>4, <1>6, <1>7, <1>8, <1>9, ReturnForgets DEF IInv, LedgerInvariant

LEMMA CommitSafe ==
    ASSUME IInv, NEW p \in Requests, Commit(p)
    PROVE  IInv'
  <1>1. Typed'
    BY CommitTyped DEF IInv
  <1>2. pc[p] = "end" /\ Return(p) /\ UNCHANGED <<txDraft, accDraft, minted, clock>>
    BY DEF Commit
  <1>3. /\ \A t \in TxIds : txns'[t] = VisibleTx(p, t)
        /\ \A a \in Accounts : accounts'[a] = VisibleAccount(p, a)
        /\ \A t \in TxIds : txLock'[t] = IF txLock[t] = p THEN Free ELSE txLock[t]
        /\ \A a \in Accounts : accLock'[a] = IF accLock[a] = p THEN Free ELSE accLock[a]
    BY DEF Commit, Unlock
  <1>4. TokensArePast' /\ TokensAreFresh' /\ TokensIdentifyRows' /\ IdsAreFresh'
    BY <1>2, <1>3, SeesAVersion, ReturnKeepsTokens
  <1>5. \A q \in Requests : q # Free
    BY LedgerAssumption
  <1>6. DraftsAreLocked'
    <2>1. \A q \in Requests : q # p => pc'[q] = pc[q]
      BY <1>2, ReturnForgets DEF OnlyLocalsOf
    <2>2. \A t \in TxIds : txLock'[t] = Free => txDraft'[t] = txns'[t]
      BY <1>2, <1>3 DEF VisibleTx, DraftsAreLocked, IInv, LedgerInvariant
    <2>3. \A a \in Accounts : accLock'[a] = Free => accDraft'[a] = accounts'[a]
      BY <1>2, <1>3 DEF VisibleAccount, DraftsAreLocked, IInv, LedgerInvariant
    <2> QED
      BY <1>3, <1>5, <2>1, <2>2, <2>3 DEF DraftsAreLocked, IInv, LedgerInvariant
  \* What p saw becomes what everybody sees.
  <1>7. \A a \in Accounts, t \in TxIds :
          VisibleAccount(p, a).postings[t] = Posting(VisibleTx(p, t), a)
    BY <1>2 DEF ViewAgrees, Applying, IInv, LedgerInvariant
  <1>8. PostingsMatchStatus'
    BY <1>3, <1>7 DEF PostingsMatchStatus
  \* A transaction p did not write keeps its share of every committed balance.
  <1>9. ASSUME NEW t \in TxIds, txLock[t] # p, NEW a \in Accounts
        PROVE  /\ VisibleAccount(p, a).postings[t] = accounts[a].postings[t]
               /\ VisibleTx(p, t) = txns[t]
    BY <1>7, <1>9 DEF VisibleTx, PostingsMatchStatus, IInv, LedgerInvariant
  \* An account p did not write already had the share p's new version gives it.
  <1>10. ASSUME NEW a \in Accounts, accLock[a] # p, NEW t \in TxIds
         PROVE  accounts[a].postings[t] = Posting(VisibleTx(p, t), a)
    BY <1>7, <1>10 DEF VisibleAccount
  <1>11. ASSUME NEW q \in Requests, q # p
         PROVE  Prepared(q)' /\ Adjusts(q)' /\ ViewAgrees(q)'
    <2>1. /\ pc'[q] = pc[q] /\ tgt'[q] = tgt[q] /\ row'[q] = row[q]
          /\ acct'[q] = acct[q] /\ todo'[q] = todo[q]
          /\ now'[q] = now[q] /\ op'[q] = op[q]
          /\ Applying(q)' <=> Applying(q)
          /\ \A a \in Accounts : Due(q, a)' = Due(q, a)
          /\ Prepared(q)' <=> Prepared(q)
      BY <1>2, <1>11, ReturnForgets, OthersStay DEF OnlyLocalsOf
    <2>2. Prepared(q) /\ Adjusts(q) /\ ViewAgrees(q)
      BY DEF IInv, LedgerInvariant
    <2>3. Adjusts(q)'
      BY <1>2, <1>3, <1>11, <2>1, <2>2 DEF Adjusts
    <2>4. /\ \A a \in Accounts : VisibleAccount(q, a)' =
               IF accLock[a] = q THEN accDraft[a] ELSE VisibleAccount(p, a)
          /\ \A t \in TxIds : VisibleTx(q, t)' =
               IF txLock[t] = q THEN txDraft[t] ELSE VisibleTx(p, t)
      BY <1>2, <1>3, <1>5, <1>11 DEF VisibleAccount, VisibleTx
    <2>5. ASSUME NEW a \in Accounts, NEW t \in TxIds, txLock[t] # p
          PROVE  VisibleAccount(q, a)'.postings[t] = VisibleAccount(q, a).postings[t]
      <3>1. CASE accLock[a] = q
        BY <2>4, <3>1 DEF VisibleAccount
      <3>2. CASE accLock[a] # q
        BY <1>9, <2>4, <2>5, <3>2 DEF VisibleAccount
      <3> QED
        BY <3>1, <3>2
    <2>6. ASSUME pc[q] # "fail", NEW a \in Accounts, NEW t \in TxIds,
                 Applying(q), t = tgt[q]
          PROVE  VisibleAccount(q, a)'.postings[t] + Due(q, a) = Posting(row[q], a)
      <3>1. txLock[t] # p
        BY <1>5, <1>11, <2>2, <2>6 DEF Adjusts, Creating, IdsAreFresh, Unused, IInv, LedgerInvariant
      <3> QED
        BY <2>2, <2>5, <2>6, <3>1 DEF ViewAgrees
    <2>7. ASSUME pc[q] # "fail", NEW a \in Accounts, NEW t \in TxIds,
                 ~(Applying(q) /\ t = tgt[q])
          PROVE  VisibleAccount(q, a)'.postings[t] = Posting(VisibleTx(q, t)', a)
      <3>1. VisibleAccount(q, a).postings[t] = Posting(VisibleTx(q, t), a)
        BY <2>2, <2>7 DEF ViewAgrees
      <3>2. CASE txLock[t] # p
        BY <1>9, <2>4, <2>5, <3>1, <3>2 DEF VisibleTx
      <3>3. CASE txLock[t] = p
        <4>1. VisibleTx(q, t)' = VisibleTx(p, t) /\ VisibleTx(q, t) = txns[t]
          BY <1>11, <2>4, <3>3 DEF VisibleTx
        <4>2. CASE accLock[a] = q
          <5>1. VisibleAccount(q, a)'.postings[t] = VisibleAccount(q, a).postings[t]
            BY <2>4, <4>2 DEF VisibleAccount
          <5>2. Posting(txns[t], a) = accounts[a].postings[t]
            BY DEF PostingsMatchStatus, IInv, LedgerInvariant
          <5>3. accounts[a].postings[t] = Posting(VisibleTx(p, t), a)
            BY <1>10, <1>11, <4>2
          <5> QED
            BY <3>1, <4>1, <5>1, <5>2, <5>3
        <4>3. CASE accLock[a] # q
          BY <1>7, <2>4, <4>1, <4>3
        <4> QED
          BY <4>2, <4>3
      <3> QED
        BY <3>2, <3>3
    <2>8. ViewAgrees(q)'
      BY <2>1, <2>6, <2>7 DEF ViewAgrees
    <2> QED
      BY <2>1, <2>2, <2>3, <2>8
  <1>12. ViewAgrees(p)'
    <2>1. /\ \A a \in Accounts : VisibleAccount(p, a)' = accounts'[a]
          /\ \A t \in TxIds : VisibleTx(p, t)' = txns'[t]
      BY <1>3, <1>5 DEF VisibleAccount, VisibleTx
    <2> QED
      BY <1>2, <1>8, <2>1, ReturnForgets DEF ViewAgrees, PostingsMatchStatus
  <1> QED
    BY <1>1, <1>2, <1>4, <1>6, <1>8, <1>11, <1>12, ReturnForgets DEF IInv, LedgerInvariant

LEMMA WriteAccountSafe ==
    ASSUME IInv, NEW p \in Requests, WriteAccount(p)
    PROVE  IInv'
  <1>1. Typed'
    BY WriteAccountTyped DEF IInv
  <1>a. PICK a \in Accounts : a = acct[p]
    BY DEF WriteAccount, IInv, Typed, Targeted
  <1>b. PICK written : written = AccountStatement(p, accounts[a])
    OBVIOUS
  <1>2. /\ pc[p] = "awrite" /\ AccountRowFree(p, a)
        /\ Return(p) /\ UNCHANGED <<txTable, accLock, minted, clock>>
    BY <1>a DEF WriteAccount
  <1>3. accLock[a] = Free /\ accDraft[a] = accounts[a]
    BY <1>2 DEF AccountRowFree, DraftsAreLocked, IInv, LedgerInvariant
  <1>4. \A b \in Accounts :
          /\ accounts'[b] = IF b = a THEN written ELSE accounts[b]
          /\ accDraft'[b] = IF b = a THEN written ELSE accDraft[b]
    BY <1>a, <1>b DEF WriteAccount, IInv, Typed, TypeOK
  <1>5. ReadsAccount(p, a) /\ WillWriteAccount(p, a)
    BY <1>a, <1>2 DEF ReadsAccount, WillWriteAccount
  <1>6. accounts[a] \in AccountRow /\ aseen[p] \in AccountRow /\ now[p] \in Nat
    BY <1>2 DEF IInv, Typed, TypeOK
  <1>7. \/ written = accounts[a]
        \/ written.ver = now[p] /\ written.postings = accounts[a].postings
    <2>1. SameVersion(accounts[a], aseen[p]) => aseen[p] = accounts[a]
      BY <1>2, <1>5
      DEF SameVersion, IInv, LedgerInvariant, TokensIdentifyRows, SameIfSameToken
    <2> QED
      BY <1>b, <1>6, <2>1 DEF AccountStatement, AccountRow
  <1>8. /\ \A q \in Requests : q # p => now'[q] = now[q] /\ aseen'[q] = aseen[q]
                                        /\ seen'[q] = seen[q] /\ tgt'[q] = tgt[q]
        /\ \A q \in Requests, b \in Accounts :
              /\ ReadsAccount(q, b)' => q # p /\ ReadsAccount(q, b)
              /\ WillWriteAccount(q, b)' => q # p /\ WillWriteAccount(q, b)
        /\ \A q \in Requests, t \in TxIds :
              /\ ReadsTx(q, t)' => q # p /\ ReadsTx(q, t)
              /\ WillWriteTx(q, t)' => q # p /\ WillWriteTx(q, t)
        /\ \A q \in Requests : Creating(q)' => q # p /\ Creating(q)
        /\ now'[p] = 0
    BY <1>2, ReturnForgets, OthersStay DEF OnlyLocalsOf
  <1>9. UNCHANGED <<txns, txDraft, txLock, accLock, minted, clock>>
    BY <1>2 DEF txTable
  <1>10. TokensArePast'
    <2>1. clock \in Nat /\ (\A q \in Requests : now[q] \in Nat) /\ written.ver <= clock
      BY <1>2, <1>7 DEF IInv, LedgerInvariant, TokensArePast, Typed, TypeOK
    <2> QED
      BY <1>4, <1>8, <1>9, <2>1 DEF TokensArePast, IInv, LedgerInvariant
  <1>11. TokensAreFresh'
    <2>1. ASSUME NEW q \in Requests, WillWriteAccount(q, a)'
          PROVE  written.ver # now[q]
      <3>1. q # p /\ now[q] # 0 /\ accounts[a].ver # now[q]
        BY <1>2, <1>8, <2>1 DEF TokensAreFresh, IInv, LedgerInvariant
      <3>2. now[p] # now[q]
        BY <3>1 DEF TokensArePast, IInv, LedgerInvariant
      <3> QED
        BY <1>7, <3>1, <3>2
    <2> QED
      BY <1>4, <1>8, <1>9, <2>1 DEF TokensAreFresh, IInv, LedgerInvariant
  <1>12. TokensIdentifyRows'
    <2>1. ASSUME NEW q \in Requests, ReadsAccount(q, a)'
          PROVE  SameIfSameToken(aseen[q], written)
      <3>1. SameIfSameToken(aseen[q], accounts[a]) /\ aseen[q].ver # now[p]
        BY <1>2, <1>5, <1>8, <2>1 DEF TokensIdentifyRows, TokensAreFresh, IInv, LedgerInvariant
      <3> QED
        BY <1>7, <3>1 DEF SameIfSameToken
    <2>2. ASSUME NEW b \in Accounts PROVE SameIfSameToken(accounts'[b], accDraft'[b])
      BY <1>4 DEF TokensIdentifyRows, SameIfSameToken, IInv, LedgerInvariant
    <2>3. ASSUME NEW b \in Accounts, NEW q \in Requests, ReadsAccount(q, b)'
          PROVE  /\ SameIfSameToken(aseen'[q], accounts'[b])
                 /\ SameIfSameToken(aseen'[q], accDraft'[b])
      <3>1. q # p /\ ReadsAccount(q, b) /\ aseen'[q] = aseen[q]
        BY <1>8, <2>3
      <3>2. CASE b = a
        BY <1>4, <2>1, <2>3, <3>1, <3>2
      <3>3. CASE b # a
        BY <1>4, <3>1, <3>3 DEF TokensIdentifyRows, IInv, LedgerInvariant
      <3> QED
        BY <3>2, <3>3
    <2>4. ASSUME NEW t \in TxIds
          PROVE  /\ SameRowIfSameToken(txns'[t], txDraft'[t])
                 /\ \A q \in Requests : ReadsTx(q, t)' =>
                       /\ SameRowIfSameToken(seen'[q], txns'[t])
                       /\ SameRowIfSameToken(seen'[q], txDraft'[t])
      BY <1>8, <1>9 DEF TokensIdentifyRows, IInv, LedgerInvariant
    <2> QED
      BY <2>2, <2>3, <2>4 DEF TokensIdentifyRows, SameRowIfSameToken, SameIfSameToken
  <1>13. IdsAreFresh'
    <2>1. \A t \in TxIds : Unused(t) => Unused(t)'
      BY <1>8, <1>9 DEF Unused
    <2>2. ASSUME NEW q \in Requests, Creating(q)'
          PROVE  (tgt[q] \in minted /\ Unused(tgt[q]))'
      <3>1. /\ tgt[q] \in minted /\ Unused(tgt[q]) /\ tgt'[q] = tgt[q]
            /\ tgt[q] \in TxIds
        BY <1>8, <2>2 DEF IInv, LedgerInvariant, IdsAreFresh, Typed, TypeOK
      <3> QED
        BY <1>9, <2>1, <3>1 DEF Unused
    <2> QED
      BY <1>8, <1>9, <2>1, <2>2 DEF IdsAreFresh, IInv, LedgerInvariant
  <1>14. DraftsAreLocked'
    <2>1. \A q \in Requests : q # p => pc'[q] = pc[q]
      BY <1>2, ReturnForgets DEF OnlyLocalsOf
    <2> QED
      BY <1>2, <1>4, <1>9, <2>1 DEF DraftsAreLocked, IInv, LedgerInvariant
  <1>15. \A b \in Accounts : /\ accounts'[b].postings = accounts[b].postings
                             /\ accDraft'[b].postings = accDraft[b].postings
    BY <1>3, <1>4, <1>7
  <1>16. PostingsMatchStatus'
    BY <1>9, <1>15 DEF PostingsMatchStatus, IInv, LedgerInvariant
  <1>17. ASSUME NEW q \in Requests
         PROVE  /\ \A b \in Accounts :
                     VisibleAccount(q, b)'.postings = VisibleAccount(q, b).postings
                /\ \A t \in TxIds : VisibleTx(q, t)' = VisibleTx(q, t)
    BY <1>9, <1>15 DEF VisibleAccount, VisibleTx
  <1>18. ASSUME NEW q \in Requests, q # p
         PROVE  Prepared(q)' /\ Adjusts(q)' /\ ViewAgrees(q)'
    <2>1. /\ pc'[q] = pc[q] /\ tgt'[q] = tgt[q] /\ row'[q] = row[q]
          /\ acct'[q] = acct[q] /\ todo'[q] = todo[q]
          /\ now'[q] = now[q] /\ op'[q] = op[q]
          /\ Applying(q)' <=> Applying(q)
          /\ \A b \in Accounts : Due(q, b)' = Due(q, b)
          /\ Prepared(q)' <=> Prepared(q)
      BY <1>2, <1>18, ReturnForgets, OthersStay DEF OnlyLocalsOf
    <2>2. Prepared(q) /\ Adjusts(q) /\ ViewAgrees(q)
      BY DEF IInv, LedgerInvariant
    <2> QED
      BY <1>9, <1>17, <2>1, <2>2 DEF Adjusts, ViewAgrees
  <1>19. ViewAgrees(p)'
    BY <1>2, <1>17, ReturnForgets DEF ViewAgrees, Applying, IInv, LedgerInvariant
  <1> QED
    BY <1>1, <1>2, <1>10, <1>11, <1>12, <1>13, <1>14, <1>16, <1>18, <1>19, ReturnForgets
    DEF IInv, LedgerInvariant

----------------------------------------------------------------------------
(***************************************************************************)
(* Statements that leave a draft of one row behind.                        *)
(***************************************************************************)
LEMMA NewestIsDraft ==
    ASSUME IInv, NEW p \in Requests
    PROVE  /\ \A t \in TxIds : TxRowFree(p, t) => VisibleTx(p, t) = txDraft[t]
           /\ \A a \in Accounts : AccountRowFree(p, a) => VisibleAccount(p, a) = accDraft[a]
  BY LedgerAssumption
  DEF TxRowFree, AccountRowFree, VisibleTx, VisibleAccount, DraftsAreLocked, IInv,
      LedgerInvariant

LEMMA TxDraftSafe ==
    ASSUME IInv, Typed', NEW p \in Requests, OnlyLocalsOf(p),
           NEW t \in TxIds, NEW new, TxRowFree(p, t), t \in minted,
           txDraft' = [txDraft EXCEPT ![t] = new],
           txLock' = [txLock EXCEPT ![t] = p],
           UNCHANGED <<accounts, accDraft, accLock, txns, minted, clock>>,
           pc'[p] \in {"apply", "status", "end"},
           now'[p] = now[p],
           \A a \in Accounts : WillWriteAccount(p, a)' => WillWriteAccount(p, a),
           new = NoRow \/ new.ver = now[p],
           SameRowIfSameToken(txns[t], new),
           \A q \in Requests : q # p /\ ReadsTx(q, t) => SameRowIfSameToken(seen[q], new),
           \A q \in Requests : q # p /\ Creating(q) => tgt[q] # t,
           ~Creating(p)', Adjusts(p)', ViewAgrees(p)'
    PROVE  IInv'
  <1>1. \A u \in TxIds : /\ txDraft'[u] = IF u = t THEN new ELSE txDraft[u]
                         /\ txLock'[u] = IF u = t THEN p ELSE txLock[u]
    BY DEF IInv, Typed, TypeOK
  <1>2. \A q \in Requests : q # p =>
          /\ pc'[q] = pc[q] /\ op'[q] = op[q] /\ tgt'[q] = tgt[q] /\ now'[q] = now[q]
          /\ seen'[q] = seen[q] /\ row'[q] = row[q] /\ acct'[q] = acct[q]
          /\ aseen'[q] = aseen[q] /\ todo'[q] = todo[q]
    BY DEF OnlyLocalsOf
  <1>3. /\ \A u \in TxIds : ~ReadsTx(p, u)' /\ ~WillWriteTx(p, u)'
        /\ \A a \in Accounts : ~ReadsAccount(p, a)'
        /\ Prepared(p)'
    BY DEF ReadsTx, WillWriteTx, ReadsAccount, Prepared
  <1>4. /\ \A q \in Requests, u \in TxIds :
              /\ ReadsTx(q, u)' => q # p /\ ReadsTx(q, u)
              /\ WillWriteTx(q, u)' => q # p /\ WillWriteTx(q, u)
        /\ \A q \in Requests, a \in Accounts :
              /\ ReadsAccount(q, a)' => q # p /\ ReadsAccount(q, a)
              /\ WillWriteAccount(q, a)' => WillWriteAccount(q, a)
        /\ \A q \in Requests : Creating(q)' => q # p /\ Creating(q)
    BY <1>3, OthersStay
  <1>5. p # Free /\ txLock[t] \in {Free, p}
    BY LedgerAssumption DEF TxRowFree
  <1>6. clock \in Nat /\ (\A q \in Requests : now[q] \in Nat /\ now'[q] = now[q])
    BY <1>2 DEF IInv, Typed, TypeOK
  <1>7. DraftsAreLocked'
    BY <1>1, <1>2, <1>5 DEF DraftsAreLocked, IInv, LedgerInvariant
  <1>8. TokensArePast'
    <2>1. new.ver <= clock
      BY <1>6 DEF NoRow, TokensArePast, IInv, LedgerInvariant
    <2> QED
      BY <1>1, <1>2, <1>4, <1>6, <2>1 DEF TokensArePast, IInv, LedgerInvariant
  <1>9. TokensAreFresh'
    <2>1. ASSUME NEW q \in Requests, WillWriteTx(q, t)' PROVE new.ver # now[q]
      <3>1. q # p /\ now[q] # 0
        BY <1>4, <2>1 DEF TokensAreFresh, IInv, LedgerInvariant
      <3>2. now[p] # now[q]
        BY <3>1 DEF TokensArePast, IInv, LedgerInvariant
      <3> QED
        BY <3>1, <3>2 DEF NoRow
    <2> QED
      BY <1>1, <1>2, <1>4, <1>6, <2>1 DEF TokensAreFresh, IInv, LedgerInvariant
  <1>10. TokensIdentifyRows'
    <2>1. ASSUME NEW u \in TxIds
          PROVE  /\ SameRowIfSameToken(txns'[u], txDraft'[u])
                 /\ \A q \in Requests : ReadsTx(q, u)' =>
                       /\ SameRowIfSameToken(seen'[q], txns'[u])
                       /\ SameRowIfSameToken(seen'[q], txDraft'[u])
      BY <1>1, <1>2, <1>4 DEF TokensIdentifyRows, IInv, LedgerInvariant
    <2>2. ASSUME NEW a \in Accounts
          PROVE  /\ SameIfSameToken(accounts'[a], accDraft'[a])
                 /\ \A q \in Requests : ReadsAccount(q, a)' =>
                       /\ SameIfSameToken(aseen'[q], accounts'[a])
                       /\ SameIfSameToken(aseen'[q], accDraft'[a])
      BY <1>2, <1>4 DEF TokensIdentifyRows, IInv, LedgerInvariant
    <2> QED
      BY <2>1, <2>2 DEF TokensIdentifyRows, SameRowIfSameToken, SameIfSameToken
  <1>11. IdsAreFresh'
    <2>1. \A u \in TxIds : u # t /\ Unused(u) => Unused(u)'
      BY <1>1, <1>4 DEF Unused
    <2>2. ASSUME NEW q \in Requests, Creating(q)'
          PROVE  (tgt[q] \in minted /\ Unused(tgt[q]))'
      <3>1. /\ tgt[q] \in minted /\ Unused(tgt[q]) /\ tgt'[q] = tgt[q]
            /\ tgt[q] \in TxIds /\ tgt[q] # t
        BY <1>2, <1>4, <2>2 DEF IInv, LedgerInvariant, IdsAreFresh, Typed, TypeOK
      <3> QED
        BY <2>1, <3>1 DEF Unused
    <2> QED
      BY <1>2, <1>4, <2>1, <2>2 DEF IdsAreFresh, IInv, LedgerInvariant
  <1>12. PostingsMatchStatus'
    BY DEF PostingsMatchStatus, IInv, LedgerInvariant
  <1>13. ASSUME NEW q \in Requests, q # p
         PROVE  Prepared(q)' /\ Adjusts(q)' /\ ViewAgrees(q)'
    <2>1. /\ \A a \in Accounts : VisibleAccount(q, a)' = VisibleAccount(q, a)
          /\ \A u \in TxIds : VisibleTx(q, u)' = VisibleTx(q, u)
      BY <1>1, <1>5, <1>13, LedgerAssumption DEF VisibleAccount, VisibleTx
    <2>2. /\ Applying(q)' <=> Applying(q)
          /\ \A a \in Accounts : Due(q, a)' = Due(q, a)
          /\ Prepared(q)' <=> Prepared(q)
      BY <1>13, OthersStay
    <2>3. Prepared(q) /\ Adjusts(q) /\ ViewAgrees(q)
      BY DEF IInv, LedgerInvariant
    <2>4. Adjusts(q)'
      BY <1>1, <1>2, <1>5, <1>13, <2>2, <2>3, LedgerAssumption DEF Adjusts
    <2>5. ViewAgrees(q)'
      BY <1>2, <1>13, <2>1, <2>2, <2>3 DEF ViewAgrees
    <2> QED
      BY <2>2, <2>3, <2>4, <2>5
  <1> QED
    BY <1>3, <1>7, <1>8, <1>9, <1>10, <1>11, <1>12, <1>13 DEF IInv, LedgerInvariant

\* What the optimistic lock gives: the newest version is the one that was read.
LEMMA UnchangedTx ==
    ASSUME IInv, NEW p \in Requests, pc[p] = "write", TxRowFree(p, tgt[p]),
           Unchanged(VisibleTx(p, tgt[p]), seen[p])
    PROVE  /\ tgt[p] \in minted
           /\ txDraft[tgt[p]] = seen[p]
           /\ \A q \in Requests : Creating(q) => tgt[q] # tgt[p]
           /\ \A a \in Accounts :
                VisibleAccount(p, a).postings[tgt[p]] = Posting(seen[p], a)
  <1> DEFINE t == tgt[p]
  <1>1. t \in TxIds /\ Exists(seen[p]) /\ ReadsTx(p, t)
    BY DEF Prepared, ReadsTx, IInv, LedgerInvariant
  <1>2. VisibleTx(p, t) = txDraft[t]
    BY <1>1, NewestIsDraft
  <1>3. Exists(txDraft[t]) /\ txDraft[t] = seen[p]
    BY <1>1, <1>2 DEF Unchanged, TokensIdentifyRows, SameRowIfSameToken, SameIfSameToken,
                      IInv, LedgerInvariant
  <1>4. ~Unused(t)
    BY <1>3 DEF Unused, Exists, NoRow
  <1>5. t \in minted /\ \A q \in Requests : Creating(q) => tgt[q] # t
    BY <1>1, <1>4 DEF IdsAreFresh, IInv, LedgerInvariant
  <1>6. \A a \in Accounts : VisibleAccount(p, a).postings[t] = Posting(seen[p], a)
    BY <1>1, <1>2, <1>3 DEF ViewAgrees, Applying, IInv, LedgerInvariant
  <1> QED
    BY <1>3, <1>5, <1>6

LEMMA FreshTx ==
    ASSUME IInv, NEW p \in Requests, NEW t \in TxIds, WillWriteTx(p, t),
           NEW new, new.ver = now[p]
    PROVE  /\ SameRowIfSameToken(txns[t], new)
           /\ \A q \in Requests : ReadsTx(q, t) => SameRowIfSameToken(seen[q], new)
  BY DEF TokensAreFresh, SameRowIfSameToken, SameIfSameToken, IInv, LedgerInvariant

LEMMA WriteTransactionSafe ==
    ASSUME IInv, NEW p \in Requests, WriteTransaction(p)
    PROVE  IInv'
  <1>1. Typed'
    BY WriteTransactionTyped DEF IInv
  <1>a. PICK t \in TxIds : t = tgt[p]
    BY DEF WriteTransaction, IInv, Typed, Targeted
  <1>2. /\ pc[p] = "write" /\ op[p] \in {"post", "cancel", "patch"} /\ TxRowFree(p, t)
        /\ UNCHANGED <<accTable, txns, minted, clock, kind, count, op, tgt, now, seen,
                       row, acct, aseen, goal, was>>
    BY <1>a DEF WriteTransaction
  <1>3. CASE ~Unchanged(VisibleTx(p, t), seen[p])
    <2>1. pc' = [pc EXCEPT ![p] = "fail"] /\ UNCHANGED <<txDraft, txLock, todo>>
      BY <1>a, <1>3 DEF WriteTransaction
    <2> QED
      BY <1>1, <1>2, <2>1, FailSafe DEF tableVars, accTable
  <1>4. CASE Unchanged(VisibleTx(p, t), seen[p])
    <2> DEFINE due == IF op[p] = "post" \/ (op[p] = "cancel" /\ seen[p].status = "posted")
                      THEN Affected(row[p]) ELSE {}
               after == IF kind[p] = "patchBulk" /\ op[p] = "patch"
                        THEN "status" ELSE "end"
    <2>1. /\ txDraft' = [txDraft EXCEPT ![t] = row[p]]
          /\ txLock' = [txLock EXCEPT ![t] = p]
          /\ todo' = [todo EXCEPT ![p] = due]
          /\ pc' = [pc EXCEPT ![p] = IF due = {} THEN after ELSE "apply"]
      BY <1>a, <1>4 DEF WriteTransaction, Apply
    <2>2. /\ todo'[p] = due
          /\ pc'[p] = IF due = {} THEN after ELSE "apply"
          /\ after \in {"status", "end"}
          /\ OnlyLocalsOf(p)
          /\ txDraft'[t] = row[p] /\ txLock'[t] = p
          /\ \A u \in TxIds : u # t => txDraft'[u] = txDraft[u] /\ txLock'[u] = txLock[u]
      BY <1>2, <2>1 DEF OnlyLocalsOf, IInv, Typed, TypeOK
    <2>3. /\ t \in minted
          /\ \A q \in Requests : Creating(q) => tgt[q] # t
          /\ \A a \in Accounts : VisibleAccount(p, a).postings[t] = Posting(seen[p], a)
      BY <1>a, <1>2, <1>4, UnchangedTx
    <2>4. row[p].ver = now[p] /\ row[p] \in TransactionRow /\ seen[p] \in TransactionRow
      <3>1. row[p] \in TransactionRow /\ seen[p] \in TransactionRow
        BY DEF IInv, Typed, TypeOK
      <3>2. Post(seen[p], now[p]).ver = now[p] /\ Cancel(seen[p], now[p]).ver = now[p]
        BY <3>1 DEF Post, Cancel, TransactionRow
      <3> QED
        BY <1>2, <3>1, <3>2 DEF Prepared, IInv, LedgerInvariant
    <2>5. WillWriteTx(p, t)
      BY <1>a, <1>2 DEF WillWriteTx
    \* The outstanding amounts are what the change of status is worth.
    <2>6. ASSUME NEW a \in Accounts
          PROVE  /\ Posting(seen[p], a) + Due(p, a)' = Posting(row[p], a)
                 /\ due = {} => Due(p, a)' = 0
      <3>1. Due(p, a)' = IF a \in due THEN Sign(p) * Delta(row[p], a) ELSE 0
        BY <1>2, <2>2 DEF Due, Sign
      <3>2. Prepared(p)
        BY DEF IInv, LedgerInvariant
      <3>3. /\ Delta(row[p], a) \in Int /\ Posting(seen[p], a) \in Int
            /\ a \in Affected(row[p]) <=> Delta(row[p], a) # 0
        BY <2>4, DeltaType, PostingType DEF Affected
      <3>4. CASE op[p] = "post"
        <4>1. row[p] = Post(seen[p], now[p]) /\ seen[p].status = "planned"
          BY <1>2, <3>2, <3>4 DEF Prepared
        <4>2. row[p].status = "posted"
          BY <2>4, <4>1 DEF Post, TransactionRow
        <4> QED
          BY <3>1, <3>3, <3>4, <4>1, <4>2 DEF Posting, Sign
      <3>5. CASE op[p] = "cancel"
        <4>1. row[p] = Cancel(seen[p], now[p]) /\ seen[p].status \in {"planned", "posted"}
          BY <1>2, <3>2, <3>5 DEF Prepared, CanCancel
        <4>2. row[p].status = "cancelled" /\ Delta(row[p], a) = Delta(seen[p], a)
          BY <2>4, <4>1 DEF Cancel, TransactionRow, Delta, Incoming, Outgoing
        <4> QED
          BY <3>1, <3>3, <3>5, <4>1, <4>2 DEF Posting, Sign
      <3>6. CASE op[p] = "patch"
        BY <1>2, <3>1, <3>2, <3>3, <3>6 DEF Prepared
      <3> QED
        BY <1>2, <3>1, <3>4, <3>5, <3>6
    <2> HIDE DEF due, after
    <2>7. Applying(p)' <=> due # {}
      BY <2>2 DEF Applying
    <2>8. due # {} => op[p] \in {"post", "cancel"}
      BY DEF due
    <2>9. Adjusts(p)' /\ ~Creating(p)'
      BY <1>a, <1>2, <2>2, <2>4, <2>7, <2>8 DEF Adjusts, Creating
    <2>10. ViewAgrees(p)'
      <3>1. \A a \in Accounts : VisibleAccount(p, a)' = VisibleAccount(p, a)
        BY <1>2 DEF VisibleAccount, accTable
      <3>2. \A u \in TxIds : VisibleTx(p, u)' = IF u = t THEN row[p] ELSE VisibleTx(p, u)
        BY <1>2, <2>2 DEF VisibleTx
      <3>3. \A a \in Accounts, u \in TxIds :
              VisibleAccount(p, a).postings[u] = Posting(VisibleTx(p, u), a)
        BY <1>2 DEF ViewAgrees, Applying, IInv, LedgerInvariant
      <3>4. \A a \in Accounts : Posting(seen[p], a) \in Int
        BY <2>4, PostingType
      <3>5. \A a \in Accounts, u \in TxIds : u # t =>
              VisibleAccount(p, a)'.postings[u] = Posting(VisibleTx(p, u)', a)
        BY <3>1, <3>2, <3>3
      <3>6. \A a \in Accounts :
              VisibleAccount(p, a)'.postings[t] + Due(p, a)' = Posting(row[p], a)
        BY <2>3, <2>6, <3>1
      <3>7. due = {} => \A a \in Accounts :
              VisibleAccount(p, a)'.postings[t] = Posting(VisibleTx(p, t)', a)
        BY <2>3, <2>6, <3>1, <3>2, <3>4
      <3> QED
        BY <1>a, <1>2, <2>7, <3>5, <3>6, <3>7 DEF ViewAgrees
    <2>11. \A a \in Accounts : WillWriteAccount(p, a)' => WillWriteAccount(p, a)
      BY <1>2, <2>2, <2>8 DEF WillWriteAccount
    <2>12. /\ SameRowIfSameToken(txns[t], row[p])
           /\ \A q \in Requests : ReadsTx(q, t) => SameRowIfSameToken(seen[q], row[p])
      BY <2>4, <2>5, FreshTx
    <2>13. now'[p] = now[p] /\ UNCHANGED <<accounts, accDraft, accLock, txns, minted, clock>>
      BY <1>2 DEF accTable
    <2>14. pc'[p] \in {"apply", "status", "end"}
      BY <2>2
    <2> QED
      BY <1>1, <1>2, <2>1, <2>2, <2>3, <2>4, <2>9, <2>10, <2>11, <2>12, <2>13, <2>14,
         TxDraftSafe
  <1> QED
    BY <1>3, <1>4

LEMMA DeleteTransactionSafe ==
    ASSUME IInv, NEW p \in Requests, DeleteTransaction(p)
    PROVE  IInv'
  <1>1. Typed'
    BY DeleteTransactionTyped DEF IInv
  <1>a. PICK t \in TxIds : t = tgt[p]
    BY DEF DeleteTransaction, IInv, Typed, Targeted
  <1>2. /\ pc[p] = "write" /\ op[p] = "delete" /\ TxRowFree(p, t)
        /\ UNCHANGED <<accTable, txns, minted, clock, kind, count, op, tgt, now, seen,
                       row, acct, aseen, todo, goal, was>>
    BY <1>a DEF DeleteTransaction
  <1>3. CASE pc' = [pc EXCEPT ![p] = "fail"] /\ UNCHANGED <<txDraft, txLock>>
    BY <1>1, <1>2, <1>3, FailSafe DEF tableVars, accTable
  <1>4. CASE ~(pc' = [pc EXCEPT ![p] = "fail"] /\ UNCHANGED <<txDraft, txLock>>)
    <2>1. /\ Unchanged(VisibleTx(p, t), seen[p]) /\ VisibleTx(p, t).status # "posted"
          /\ txDraft' = [txDraft EXCEPT ![t] = NoRow]
          /\ txLock' = [txLock EXCEPT ![t] = p]
          /\ pc' = [pc EXCEPT ![p] = "end"]
      BY <1>a, <1>4 DEF DeleteTransaction
    <2>2. /\ pc'[p] = "end"
          /\ OnlyLocalsOf(p)
          /\ \A u \in TxIds : /\ txDraft'[u] = IF u = t THEN NoRow ELSE txDraft[u]
                              /\ txLock'[u] = IF u = t THEN p ELSE txLock[u]
      BY <1>2, <2>1 DEF OnlyLocalsOf, IInv, Typed, TypeOK
    <2>3. /\ t \in minted
          /\ \A q \in Requests : Creating(q) => tgt[q] # t
          /\ \A a \in Accounts : VisibleAccount(p, a).postings[t] = Posting(seen[p], a)
      BY <1>a, <1>2, <2>1, UnchangedTx
    <2>4. \A a \in Accounts : Posting(seen[p], a) = 0
      BY <1>2 DEF Prepared, Posting, IInv, LedgerInvariant
    <2>5. ~Applying(p)' /\ Adjusts(p)' /\ ~Creating(p)'
      BY <2>2 DEF Applying, Adjusts, Creating
    <2>6. ViewAgrees(p)'
      <3>1. \A a \in Accounts : VisibleAccount(p, a)' = VisibleAccount(p, a)
        BY <1>2 DEF VisibleAccount, accTable
      <3>2. \A u \in TxIds : VisibleTx(p, u)' = IF u = t THEN NoRow ELSE VisibleTx(p, u)
        BY <1>2, <2>2 DEF VisibleTx
      <3>3. \A a \in Accounts, u \in TxIds :
              VisibleAccount(p, a).postings[u] = Posting(VisibleTx(p, u), a)
        BY <1>2 DEF ViewAgrees, Applying, IInv, LedgerInvariant
      <3> QED
        BY <2>3, <2>4, <2>5, <3>1, <3>2, <3>3, NoRowPosting DEF ViewAgrees
    <2>7. \A r : SameRowIfSameToken(r, NoRow)
      BY DEF SameRowIfSameToken, Exists, NoRow
    <2>8. \A a \in Accounts : ~WillWriteAccount(p, a)'
      BY <2>2 DEF WillWriteAccount
    <2> QED
      BY <1>1, <1>2, <2>1, <2>2, <2>3, <2>5, <2>6, <2>7, <2>8, TxDraftSafe DEF accTable
  <1> QED
    BY <1>3, <1>4

LEMMA InsertTransactionSafe ==
    ASSUME IInv, NEW p \in Requests, InsertTransaction(p)
    PROVE  IInv'
  <1>1. Typed'
    BY InsertTransactionTyped DEF IInv
  <1>a. PICK t \in TxIds : t = tgt[p]
    BY DEF InsertTransaction, IInv, Typed, Targeted
  <1>2. /\ pc[p] = "insert"
        /\ txDraft' = [txDraft EXCEPT ![t] = row[p]]
        /\ txLock' = [txLock EXCEPT ![t] = p]
        /\ pc' = [pc EXCEPT ![p] = "end"]
        /\ UNCHANGED <<accTable, txns, minted, clock, kind, count, op, tgt, now, seen,
                       row, acct, aseen, todo, goal, was>>
    BY <1>a DEF InsertTransaction
  <1>3. /\ pc'[p] = "end"
        /\ OnlyLocalsOf(p)
        /\ \A u \in TxIds : /\ txDraft'[u] = IF u = t THEN row[p] ELSE txDraft[u]
                            /\ txLock'[u] = IF u = t THEN p ELSE txLock[u]
    BY <1>2 DEF OnlyLocalsOf, IInv, Typed, TypeOK
  <1>4. Applying(p) /\ Creating(p) /\ row[p].ver = now[p] /\ todo[p] = {}
    BY <1>2 DEF Applying, Creating, Adjusts, IInv, LedgerInvariant
  <1>5. /\ t \in minted /\ Unused(t)
        /\ \A q \in Requests : q # p /\ Creating(q) => tgt[q] # t
    BY <1>a, <1>4 DEF IdsAreFresh, IInv, LedgerInvariant
  <1>6. ~Applying(p)' /\ Adjusts(p)' /\ ~Creating(p)'
    BY <1>3 DEF Applying, Adjusts, Creating
  <1>7. ViewAgrees(p)'
    <2>1. \A a \in Accounts : VisibleAccount(p, a)' = VisibleAccount(p, a)
      BY <1>2 DEF VisibleAccount, accTable
    <2>2. \A u \in TxIds : VisibleTx(p, u)' = IF u = t THEN row[p] ELSE VisibleTx(p, u)
      BY <1>2, <1>3 DEF VisibleTx
    <2>3. ASSUME NEW a \in Accounts, NEW u \in TxIds
          PROVE  VisibleAccount(p, a)'.postings[u] = Posting(VisibleTx(p, u)', a)
      <3>1. CASE u = t
        <4>1. VisibleAccount(p, a).postings[t] + Due(p, a) = Posting(row[p], a)
          BY <1>a, <1>2, <1>4 DEF ViewAgrees, IInv, LedgerInvariant
        <4>2. Due(p, a) = 0
          BY <1>4 DEF Due
        <4>3. VisibleAccount(p, a).postings[t] \in Int
          BY VisibleAccountType DEF IInv, Typed, AccountRow
        <4> QED
          BY <2>1, <2>2, <3>1, <4>1, <4>2, <4>3
      <3>2. CASE u # t
        BY <1>a, <1>2, <2>1, <2>2, <3>2 DEF ViewAgrees, IInv, LedgerInvariant
      <3> QED
        BY <3>1, <3>2
    <2> QED
      BY <1>6, <2>3 DEF ViewAgrees
  <1>8. SameRowIfSameToken(txns[t], row[p]) /\ \A q \in Requests : ~ReadsTx(q, t)
    BY <1>5 DEF Unused, SameRowIfSameToken, Exists, NoRow
  <1>9. TxRowFree(p, t) /\ \A a \in Accounts : ~WillWriteAccount(p, a)'
    BY <1>3, <1>5 DEF Unused, TxRowFree, WillWriteAccount
  <1>10. now'[p] = now[p] /\ UNCHANGED <<accounts, accDraft, accLock, txns, minted, clock>>
    BY <1>2 DEF accTable
  <1> QED
    BY <1>1, <1>2, <1>3, <1>4, <1>5, <1>6, <1>7, <1>8, <1>9, <1>10, TxDraftSafe

LEMMA AccountDraftSafe ==
    ASSUME IInv, Typed', NEW p \in Requests, OnlyLocalsOf(p),
           NEW a \in Accounts, NEW new, AccountRowFree(p, a),
           accDraft' = [accDraft EXCEPT ![a] = new],
           accLock' = [accLock EXCEPT ![a] = p],
           UNCHANGED <<txns, txDraft, txLock, accounts, minted, clock, now, tgt>>,
           WillWriteAccount(p, a), new.ver = now[p],
           pc'[p] \in {"apply", "insert", "end"},
           \A b \in Accounts : WillWriteAccount(p, b)' => b # a /\ WillWriteAccount(p, b),
           Creating(p)' => Creating(p),
           Adjusts(p)', ViewAgrees(p)'
    PROVE  IInv'
  <1>1. \A b \in Accounts : /\ accDraft'[b] = IF b = a THEN new ELSE accDraft[b]
                            /\ accLock'[b] = IF b = a THEN p ELSE accLock[b]
    BY DEF IInv, Typed, TypeOK
  <1>2. \A q \in Requests : q # p =>
          /\ pc'[q] = pc[q] /\ op'[q] = op[q] /\ seen'[q] = seen[q]
          /\ row'[q] = row[q] /\ acct'[q] = acct[q] /\ aseen'[q] = aseen[q]
          /\ todo'[q] = todo[q]
    BY DEF OnlyLocalsOf
  <1>3. /\ \A t \in TxIds : ~ReadsTx(p, t)' /\ ~WillWriteTx(p, t)'
        /\ \A b \in Accounts : ~ReadsAccount(p, b)'
        /\ Prepared(p)'
    BY DEF ReadsTx, WillWriteTx, ReadsAccount, Prepared
  <1>4. /\ \A q \in Requests, t \in TxIds :
              /\ ReadsTx(q, t)' => q # p /\ ReadsTx(q, t)
              /\ WillWriteTx(q, t)' => q # p /\ WillWriteTx(q, t)
        /\ \A q \in Requests, b \in Accounts :
              /\ ReadsAccount(q, b)' => q # p /\ ReadsAccount(q, b)
              /\ WillWriteAccount(q, b)' => WillWriteAccount(q, b)
              /\ WillWriteAccount(q, b)' /\ b = a => q # p
        /\ \A q \in Requests : Creating(q)' => Creating(q)
    BY <1>3, OthersStay
  <1>5. p # Free /\ accLock[a] \in {Free, p}
    BY LedgerAssumption DEF AccountRowFree
  <1>6. clock \in Nat /\ \A q \in Requests : now[q] \in Nat
    BY DEF IInv, Typed, TypeOK
  <1>7. /\ now[p] # 0 /\ accounts[a].ver # now[p]
        /\ \A q \in Requests : ReadsAccount(q, a) => aseen[q].ver # now[p]
    BY DEF TokensAreFresh, IInv, LedgerInvariant
  <1>8. DraftsAreLocked'
    BY <1>1, <1>2, <1>5 DEF DraftsAreLocked, IInv, LedgerInvariant
  <1>9. TokensArePast'
    BY <1>1, <1>2, <1>4, <1>6 DEF TokensArePast, IInv, LedgerInvariant
  <1>10. TokensAreFresh'
    <2>1. ASSUME NEW q \in Requests, WillWriteAccount(q, a)' PROVE new.ver # now[q]
      BY <1>4, <1>7, <2>1 DEF TokensArePast, IInv, LedgerInvariant
    <2> QED
      BY <1>1, <1>2, <1>4, <1>6, <2>1 DEF TokensAreFresh, IInv, LedgerInvariant
  <1>11. TokensIdentifyRows'
    <2>1. ASSUME NEW b \in Accounts
          PROVE  /\ SameIfSameToken(accounts'[b], accDraft'[b])
                 /\ \A q \in Requests : ReadsAccount(q, b)' =>
                       /\ SameIfSameToken(aseen'[q], accounts'[b])
                       /\ SameIfSameToken(aseen'[q], accDraft'[b])
      <3>1. CASE b = a
        BY <1>1, <1>2, <1>4, <1>7, <3>1
        DEF TokensIdentifyRows, SameIfSameToken, IInv, LedgerInvariant
      <3>2. CASE b # a
        BY <1>1, <1>2, <1>4, <3>2 DEF TokensIdentifyRows, IInv, LedgerInvariant
      <3> QED
        BY <3>1, <3>2
    <2>2. ASSUME NEW t \in TxIds
          PROVE  /\ SameRowIfSameToken(txns'[t], txDraft'[t])
                 /\ \A q \in Requests : ReadsTx(q, t)' =>
                       /\ SameRowIfSameToken(seen'[q], txns'[t])
                       /\ SameRowIfSameToken(seen'[q], txDraft'[t])
      BY <1>2, <1>4 DEF TokensIdentifyRows, IInv, LedgerInvariant
    <2> QED
      BY <2>1, <2>2 DEF TokensIdentifyRows, SameRowIfSameToken, SameIfSameToken
  <1>12. IdsAreFresh'
    <2>1. \A t \in TxIds : Unused(t) => Unused(t)'
      BY <1>4 DEF Unused
    <2>2. ASSUME NEW q \in Requests, Creating(q)'
          PROVE  (tgt[q] \in minted /\ Unused(tgt[q]))'
      <3>1. tgt[q] \in minted /\ Unused(tgt[q]) /\ tgt[q] \in TxIds
        BY <1>4, <2>2 DEF IInv, LedgerInvariant, IdsAreFresh, Typed, TypeOK
      <3> QED
        BY <2>1, <3>1 DEF Unused
    <2> QED
      BY <1>4, <2>1, <2>2 DEF IdsAreFresh, IInv, LedgerInvariant
  <1>13. PostingsMatchStatus'
    BY DEF PostingsMatchStatus, IInv, LedgerInvariant
  <1>14. ASSUME NEW q \in Requests, q # p
         PROVE  Prepared(q)' /\ Adjusts(q)' /\ ViewAgrees(q)'
    <2>1. /\ \A b \in Accounts : VisibleAccount(q, b)' = VisibleAccount(q, b)
          /\ \A t \in TxIds : VisibleTx(q, t)' = VisibleTx(q, t)
      BY <1>1, <1>5, <1>14, LedgerAssumption DEF VisibleAccount, VisibleTx
    <2>2. /\ Applying(q)' <=> Applying(q)
          /\ \A b \in Accounts : Due(q, b)' = Due(q, b)
          /\ Prepared(q)' <=> Prepared(q)
      BY <1>14, OthersStay
    <2>3. Prepared(q) /\ Adjusts(q) /\ ViewAgrees(q)
      BY DEF IInv, LedgerInvariant
    <2> QED
      BY <1>2, <1>14, <2>1, <2>2, <2>3 DEF Adjusts, ViewAgrees
  <1> QED
    BY <1>3, <1>8, <1>9, <1>10, <1>11, <1>12, <1>13, <1>14 DEF IInv, LedgerInvariant

LEMMA AdjustAccountSafe ==
    ASSUME IInv, NEW p \in Requests, AdjustAccount(p)
    PROVE  IInv'
  <1>1. Typed'
    BY AdjustAccountTyped DEF IInv
  <1>a. PICK a \in Accounts : a = acct[p]
    BY DEF AdjustAccount, IInv, Typed, Targeted
  <1>b. PICK t \in TxIds : t = tgt[p]
    BY DEF AdjustAccount, IInv, Typed, Targeted
  <1>2. /\ pc[p] = "adjust" /\ AccountRowFree(p, a)
        /\ UNCHANGED <<txTable, accounts, minted, clock, kind, count, op, tgt, now, seen,
                       row, acct, aseen, goal, was>>
    BY <1>a DEF AdjustAccount
  <1>3. CASE pc' = [pc EXCEPT ![p] = "fail"] /\ UNCHANGED <<accDraft, accLock, todo>>
    BY <1>1, <1>2, <1>3, FailSafe DEF tableVars, txTable
  <1>4. CASE ~(pc' = [pc EXCEPT ![p] = "fail"] /\ UNCHANGED <<accDraft, accLock, todo>>)
    <2> DEFINE after == IF op[p] \in {"create", "duplicate"} THEN "insert" ELSE "end"
    <2>1. PICK new :
            /\ new = [postings |-> Adjusted(p),
                      archived |-> VisibleAccount(p, a).archived,
                      ver |-> now[p]]
            /\ SameVersion(VisibleAccount(p, a), aseen[p])
            /\ accDraft' = [accDraft EXCEPT ![a] = new]
            /\ accLock' = [accLock EXCEPT ![a] = p]
            /\ todo' = [todo EXCEPT ![p] = todo[p] \ {a}]
            /\ pc' = [pc EXCEPT ![p] = IF todo[p] \ {a} = {} THEN after ELSE "apply"]
      BY <1>a, <1>4 DEF AdjustAccount, Apply
    <2>2. /\ OnlyLocalsOf(p)
          /\ todo'[p] = todo[p] \ {a}
          /\ pc'[p] = IF todo'[p] = {} THEN after ELSE "apply"
          /\ \A b \in Accounts : /\ accDraft'[b] = IF b = a THEN new ELSE accDraft[b]
                                 /\ accLock'[b] = IF b = a THEN p ELSE accLock[b]
      BY <1>2, <2>1 DEF OnlyLocalsOf, IInv, Typed, TypeOK
    <2>3. Applying(p) /\ a \in todo[p] /\ op[p] \in {"create", "duplicate", "post", "cancel"}
      BY <1>a, <1>2 DEF Applying, Adjusts, IInv, LedgerInvariant
    \* The optimistic lock: the balance that was read is the newest one.
    <2>4. aseen[p] = VisibleAccount(p, a)
      BY <1>a, <1>2, <2>1, NewestIsDraft
      DEF SameVersion, ReadsAccount, TokensIdentifyRows, SameIfSameToken, IInv, LedgerInvariant
    <2>5. /\ \A b \in Accounts, u \in TxIds : VisibleAccount(p, b).postings[u] \in Int
          /\ aseen[p].postings \in [TxIds -> Int]
          /\ Delta(row[p], a) \in Int /\ Sign(p) \in Int
      BY VisibleAccountType, DeltaType DEF IInv, Typed, TypeOK, AccountRow, Sign
    <2>6. \A u \in TxIds : new.postings[u] =
            IF u = t THEN VisibleAccount(p, a).postings[t] + Due(p, a)
                     ELSE VisibleAccount(p, a).postings[u]
      BY <1>a, <1>b, <2>1, <2>3, <2>4, <2>5 DEF Adjusted, Due
    <2>7. new.ver = now[p] /\ WillWriteAccount(p, a)
      BY <1>2, <2>1, <2>3 DEF WillWriteAccount
    <2>8. pc'[p] \in {"apply", "insert", "end"}
      BY <2>2
    <2>9. \A b \in Accounts : WillWriteAccount(p, b)' => b # a /\ WillWriteAccount(p, b)
      BY <1>2, <2>2, <2>8 DEF WillWriteAccount
    <2>10. Applying(p)' => pc'[p] = "apply" \/ op[p] \in {"create", "duplicate"}
      BY <2>2 DEF Applying
    <2>11. Adjusts(p)'
      BY <1>2, <2>2, <2>3, <2>8, <2>10 DEF Adjusts, Applying, txTable, IInv, LedgerInvariant
    <2>12. Creating(p)' => Creating(p)
      BY <1>2, <2>3 DEF Creating
    <2>13. ViewAgrees(p)'
      <3>1. \A u \in TxIds : VisibleTx(p, u)' = VisibleTx(p, u)
        BY <1>2 DEF VisibleTx, txTable
      <3>2. \A b \in Accounts :
              VisibleAccount(p, b)' = IF b = a THEN new ELSE VisibleAccount(p, b)
        BY <1>2, <2>2 DEF VisibleAccount
      <3>3. \A b \in Accounts : Due(p, b)' = IF b = a THEN 0 ELSE Due(p, b)
        BY <1>2, <2>2, <2>3 DEF Due, Sign
      <3>4. ASSUME NEW b \in Accounts, NEW u \in TxIds, u # t
            PROVE  VisibleAccount(p, b)'.postings[u] = Posting(VisibleTx(p, u)', b)
        BY <1>b, <1>2, <2>6, <3>1, <3>2, <3>4 DEF ViewAgrees, IInv, LedgerInvariant
      <3>5. ASSUME NEW b \in Accounts
            PROVE  VisibleAccount(p, b)'.postings[t] + Due(p, b)' = Posting(row[p], b)
        <4>1. VisibleAccount(p, b).postings[t] + Due(p, b) = Posting(row[p], b)
          BY <1>b, <1>2, <2>3 DEF ViewAgrees, IInv, LedgerInvariant
        <4>2. Posting(row[p], b) \in Int
          BY PostingType DEF IInv, Typed, TypeOK
        <4> QED
          BY <2>6, <3>2, <3>3, <4>1, <4>2
      <3>6. ASSUME ~Applying(p)', NEW b \in Accounts
            PROVE  VisibleAccount(p, b)'.postings[t] = Posting(VisibleTx(p, t)', b)
        <4>1. todo'[p] = {} /\ op[p] \in {"post", "cancel"}
          BY <2>2, <2>3, <3>6 DEF Applying
        <4>2. VisibleTx(p, t)' = row[p]
          BY <1>b, <2>3, <3>1, <4>1 DEF VisibleTx, Adjusts, IInv, LedgerInvariant
        <4>3. Due(p, b)' = 0
          BY <4>1 DEF Due
        <4>4. VisibleAccount(p, b)'.postings[t] \in Int
          BY <1>1, VisibleAccountType, <2>5, <2>6, <3>2 DEF Due
        <4> QED
          BY <3>5, <4>2, <4>3, <4>4
      <3> QED
        BY <1>b, <1>2, <3>4, <3>5, <3>6 DEF ViewAgrees
    <2>14. UNCHANGED <<txns, txDraft, txLock, accounts, minted, clock, now, tgt>>
      BY <1>2 DEF txTable
    <2> QED
      BY <1>1, <1>2, <2>1, <2>2, <2>7, <2>8, <2>9, <2>11, <2>12, <2>13, <2>14,
         AccountDraftSafe
  <1> QED
    BY <1>3, <1>4

----------------------------------------------------------------------------
LEMMA InitSafe == Init => IInv
  <1> SUFFICES ASSUME Init PROVE IInv
    OBVIOUS
  <1>1. Typed
    BY InitTyped
  <1>2. PICK rows \in InitialTables : InitTables(rows)
    BY DEF Init
  <1>3. /\ txDraft = txns /\ accDraft = accounts /\ clock = 1
        /\ \A t \in TxIds : txLock[t] = Free
        /\ \A a \in Accounts : accLock[a] = Free
    BY DEF Init
  <1>4. \A p \in Requests : pc[p] = "start" /\ now[p] = 0
    BY DEF Init, InitRequests
  <1>5. \A p \in Requests : p # Free
    BY LedgerAssumption
  <1>6. rows \in [TxIds -> InitialRows] /\ txns = rows
    BY <1>2, LedgerAssumption DEF InitTables
  <1>7. /\ \A t \in TxIds : txns[t].ver = 0 /\ (Exists(txns[t]) \/ txns[t] = NoRow)
        /\ \A a \in Accounts : accounts[a].ver = 0
    BY <1>2, <1>6 DEF InitTables, InitialRows, Row, NoRow, Exists
  <1>8. PostingsMatchStatus
    BY <1>2 DEF InitTables, PostingsMatchStatus
  <1>9. /\ \A p \in Requests, t \in TxIds : ~ReadsTx(p, t) /\ ~WillWriteTx(p, t)
        /\ \A p \in Requests, a \in Accounts : ~ReadsAccount(p, a) /\ ~WillWriteAccount(p, a)
        /\ \A p \in Requests : ~Applying(p) /\ ~Creating(p) /\ Prepared(p) /\ Adjusts(p)
    BY <1>4 DEF ReadsTx, ReadsAccount, WillWriteTx, WillWriteAccount, Applying, Creating,
                Prepared, Adjusts
  <1>10. DraftsAreLocked /\ TokensArePast /\ TokensAreFresh /\ TokensIdentifyRows
    BY <1>3, <1>4, <1>5, <1>7, <1>9
    DEF DraftsAreLocked, TokensArePast, TokensAreFresh, TokensIdentifyRows,
        SameRowIfSameToken, SameIfSameToken
  <1>11. IdsAreFresh
    BY <1>2, <1>3, <1>6, <1>7, <1>9 DEF IdsAreFresh, Unused, InitTables
  <1>12. \A p \in Requests : ViewAgrees(p)
    BY <1>3, <1>5, <1>8, <1>9 DEF ViewAgrees, VisibleAccount, VisibleTx, PostingsMatchStatus
  <1> QED
    BY <1>1, <1>8, <1>9, <1>10, <1>11, <1>12 DEF IInv, LedgerInvariant

LEMMA StutterSafe == IInv /\ UNCHANGED vars => IInv'
  BY DEF vars, IInv, Typed, TypeOK, Targeted, LedgerInvariant, DraftsAreLocked,
         TokensArePast, TokensAreFresh, TokensIdentifyRows, SameRowIfSameToken,
         SameIfSameToken, IdsAreFresh, Unused, Creating, Applying, ReadsTx, ReadsAccount,
         WillWriteTx, WillWriteAccount, Prepared, Adjusts, ViewAgrees, VisibleTx,
         VisibleAccount, Due, Sign, PostingsMatchStatus

LEMMA StepSafe == ClockAdvances /\ IInv /\ [Next]_vars => IInv'
  <1> SUFFICES ASSUME ClockAdvances, IInv, [Next]_vars PROVE IInv'
    OBVIOUS
  <1>1. CASE UNCHANGED vars
    BY <1>1, StutterSafe
  <1>2. ASSUME NEW p \in Requests, Start(p) PROVE IInv'
    BY <1>2, StartCreateSafe, StartKnownSafe DEF Start
  <1>3. ASSUME NEW p \in Requests, Progress(p) PROVE IInv'
    <2>1. CASE Find(p)
      BY <2>1, FindSafe
    <2>2. CASE Write(p)
      BY <2>2, WriteTransactionSafe, DeleteTransactionSafe, InsertTransactionSafe,
         BulkStatusSafe, ReadAccountSafe, AdjustAccountSafe DEF Write
    <2>3. CASE AccountRequest(p)
      BY <2>3, FindAccountSafe, WriteAccountSafe DEF AccountRequest
    <2>4. CASE Commit(p)
      BY <2>4, CommitSafe
    <2>5. CASE Rollback(p) \/ DeadlockVictim(p)
      BY <2>5, DiscardSafe DEF Rollback, DeadlockVictim
    <2> QED
      BY <1>3, <2>1, <2>2, <2>3, <2>4, <2>5 DEF Progress
  <1>4. ASSUME NEW p \in Requests, Abort(p) PROVE IInv'
    BY <1>4, DiscardSafe DEF Abort
  <1> QED
    BY <1>1, <1>2, <1>3, <1>4 DEF Next

\* Every reachable state satisfies the inductive invariant and is well typed.
LEMMA AlwaysSafe ==
    ASSUME ClockAdvances
    PROVE  Spec => []IInv
  BY InitSafe, StepSafe, PTL DEF Spec

\* The tables, the drafts behind their locks and what every request has read agree in
\* every reachable state, provided no two clock readings are the same.
THEOREM LedgerInductive ==
    ASSUME ClockAdvances
    PROVE  Spec => []LedgerInvariant
  <1>1. IInv => LedgerInvariant
    BY DEF IInv
  <1> QED
    BY <1>1, AlwaysSafe, PTL

\* In every reachable state each balance holds exactly the posted transactions, for any
\* number of accounts, transactions and concurrent requests of every endpoint, and for
\* bulk requests of any size, provided no two clock readings are the same.
THEOREM BalancesCorrect ==
    ASSUME ClockAdvances
    PROVE  Spec => []PostingsMatchStatus
  <1>1. IInv => PostingsMatchStatus
    BY DEF IInv, LedgerInvariant
  <1> QED
    BY <1>1, AlwaysSafe, PTL

\* Provided no two clock readings are the same, the updated_at guard of an account
\* UPDATE never passes on a version other than the one that was read.
THEOREM AccountLockSound ==
    ASSUME ClockAdvances
    PROVE  Spec => []ConcurrentUpdateDetected
  <1>1. ASSUME IInv, NEW p \in Requests, pc[p] \in {"adjust", "awrite"},
               AccountRowFree(p, acct[p]),
               VisibleAccount(p, acct[p]).ver = aseen[p].ver
        PROVE  VisibleAccount(p, acct[p]) = aseen[p]
    <2>1. acct[p] \in Accounts /\ ReadsAccount(p, acct[p])
      BY <1>1 DEF IInv, Typed, Targeted, ReadsAccount
    <2>2. VisibleAccount(p, acct[p]) = accDraft[acct[p]]
      BY <1>1, <2>1, NewestIsDraft
    <2> QED
      BY <1>1, <2>1, <2>2
      DEF IInv, LedgerInvariant, TokensIdentifyRows, SameIfSameToken
  <1>2. IInv => ConcurrentUpdateDetected
    BY <1>1 DEF ConcurrentUpdateDetected
  <1> QED
    BY <1>2, AlwaysSafe, PTL

----------------------------------------------------------------------------
(***************************************************************************)
(* No circles of requests for single rows.                                 *)
(***************************************************************************)
\* A step of p takes and gives back locks of p.
LocksOfOthersStay(p) ==
    /\ kind' = kind
    /\ \A t \in TxIds : txLock'[t] \in {txLock[t], Free, p}
    /\ \A a \in Accounts : accLock'[a] \in {accLock[a], Free, p}

LEMMA OrderOfOthers ==
    ASSUME NEW p \in Requests, NEW q \in Requests \ {p}, OnlyLocalsOf(p), LocksOfOthersStay(p),
           LocksInOrder(q)
    PROVE  LocksInOrder(q)'
  <1>1. /\ \A t \in TxIds : txLock'[t] = q => txLock[t] = q
        /\ \A a \in Accounts : accLock'[a] = q => accLock[a] = q
        /\ kind' = kind /\ pc'[q] = pc[q] /\ todo'[q] = todo[q] /\ acct'[q] = acct[q]
    BY LedgerAssumption DEF LocksOfOthersStay, OnlyLocalsOf
  <1>2. HoldsNothing(q) => HoldsNothing(q)'
    BY <1>1 DEF HoldsNothing
  <1>3. NextAccount(q, acct[q])' <=> NextAccount(q, acct[q])
    BY <1>1 DEF NextAccount
  <1> QED
    BY <1>1, <1>2, <1>3 DEF LocksInOrder

\* A step of p that takes no lock.
LEMMA OrderWithoutLocking ==
    ASSUME NEW p \in Requests, OnlyLocalsOf(p), UNCHANGED <<tableVars, kind>>,
           \A q \in Requests : LocksInOrder(q),
           \/ kind[p] \in BulkKinds
           \/ pc'[p] \in {"fail", "insert", "end"}
           \/ HoldsNothing(p) /\ pc'[p] \notin {"status", "adjust"}
           \/ /\ pc[p] = "apply" /\ pc'[p] = "adjust" /\ todo'[p] = todo[p]
              /\ NextAccount(p, acct[p])'
    PROVE  \A q \in Requests : LocksInOrder(q)'
  <1>1. LocksOfOthersStay(p) /\ txLock' = txLock /\ accLock' = accLock /\ kind' = kind
    BY DEF LocksOfOthersStay, tableVars
  <1>2. LocksInOrder(p)'
    <2>1. CASE HoldsNothing(p) /\ pc'[p] \notin {"status", "adjust"}
      BY <1>1, <2>1 DEF LocksInOrder, HoldsNothing
    <2>2. CASE /\ pc[p] = "apply" /\ pc'[p] = "adjust" /\ todo'[p] = todo[p]
               /\ NextAccount(p, acct[p])'
      BY <1>1, <2>2 DEF LocksInOrder, HoldsNothing
    <2> QED
      BY <1>1, <2>1, <2>2 DEF LocksInOrder
  <1> QED
    BY <1>1, <1>2, OrderOfOthers

LEMMA OrderOfStart ==
    ASSUME Typed, NEW p \in Requests, Start(p), \A q \in Requests : LocksInOrder(q)
    PROVE  \A q \in Requests : LocksInOrder(q)'
  <1>1. kind[p] \in BulkKinds \/ HoldsNothing(p)
    BY DEF Start, StartCreate, StartTimed, StartUntimed, StartBulkPatch, MayStart, LocksInOrder
  <1>2. pc[p] \in {"start", "end"} /\ UNCHANGED <<tableVars, kind>> /\ OnlyLocalsOf(p)
    BY DEF Start, StartCreate, StartTimed, StartUntimed, StartBulkPatch, MayStart, ReadClock,
           Apply, OnlyLocalsOf, Typed, TypeOK
  <1>3. pc'[p] \in {"find", "fail", "insert", "apply"}
    BY DEF Start, StartCreate, StartTimed, StartUntimed, StartBulkPatch, Apply, Typed, TypeOK
  <1> QED
    BY <1>1, <1>2, <1>3, OrderWithoutLocking

LEMMA OrderOfFind ==
    ASSUME Typed, NEW p \in Requests, Find(p), \A q \in Requests : LocksInOrder(q)
    PROVE  \A q \in Requests : LocksInOrder(q)'
  <1>1. pc[p] = "find" /\ UNCHANGED <<tableVars, kind>> /\ OnlyLocalsOf(p)
    BY DEF Find, FindForPost, FindForCancel, FindForPatch, FindForDelete, FindForDuplicate,
           Fail, Found, Apply, ReadClock, OnlyLocalsOf, Typed, TypeOK
  <1>2. pc'[p] \in {"write", "fail", "insert", "apply"}
    BY DEF Find, FindForPost, FindForCancel, FindForPatch, FindForDelete, FindForDuplicate,
           Fail, Found, Apply, Typed, TypeOK
  <1>3. kind[p] \in BulkKinds \/ HoldsNothing(p)
    BY <1>1 DEF LocksInOrder
  <1> QED
    BY <1>1, <1>2, <1>3, OrderWithoutLocking

LEMMA OrderOfWrite ==
    ASSUME Typed, NEW p \in Requests, \A q \in Requests : LocksInOrder(q),
           WriteTransaction(p) \/ DeleteTransaction(p) \/ InsertTransaction(p)
    PROVE  \A q \in Requests : LocksInOrder(q)'
  <1>1. /\ pc[p] \in {"write", "insert"} /\ OnlyLocalsOf(p) /\ LocksOfOthersStay(p)
        /\ accLock' = accLock
    BY DEF WriteTransaction, DeleteTransaction, InsertTransaction, Apply, OnlyLocalsOf,
           LocksOfOthersStay, accTable, Typed, TypeOK
  <1>2. \/ pc'[p] \in {"fail", "end"}
        \/ pc[p] = "write" /\ pc'[p] = "apply"
        \/ kind[p] = "patchBulk"
    BY DEF WriteTransaction, DeleteTransaction, InsertTransaction, Apply, Typed, TypeOK
  <1>3. LocksInOrder(p)'
    BY <1>1, <1>2 DEF LocksInOrder, HoldsNothing, LocksOfOthersStay, BulkKinds
  <1> QED
    BY <1>1, <1>3, OrderOfOthers

LEMMA OrderOfAdjust ==
    ASSUME Typed, NEW p \in Requests, \A q \in Requests : LocksInOrder(q), AdjustAccount(p)
    PROVE  \A q \in Requests : LocksInOrder(q)'
  <1> DEFINE a == acct[p]
  <1>1. /\ pc[p] = "adjust" /\ a \in Accounts /\ OnlyLocalsOf(p) /\ LocksOfOthersStay(p)
        /\ \A b \in Accounts : b # a => accLock'[b] = accLock[b]
    BY DEF AdjustAccount, Apply, OnlyLocalsOf, LocksOfOthersStay, txTable, Typed, Targeted, TypeOK
  <1>2. \/ pc'[p] \in {"fail", "insert", "end"}
        \/ pc'[p] = "apply" /\ todo'[p] = todo[p] \ {a}
    BY DEF AdjustAccount, Apply, Typed, TypeOK
  <1>3. todo[p] \subseteq Accounts /\ Accounts \subseteq Nat
    BY AccountsAssumption DEF Typed, TypeOK
  <1>4. LocksInOrder(p)'
    <2> SUFFICES ASSUME kind[p] \notin BulkKinds, pc'[p] = "apply",
                        NEW c \in Accounts, NEW b \in todo'[p], accLock'[c] = p
                 PROVE  c < b
      BY <1>1, <1>2 DEF LocksInOrder, LocksOfOthersStay
    <2>1. b \in todo[p] /\ b # a
      BY <1>2
    <2>2. CASE c = a
      <3>1. a <= b
        BY <1>1, <2>1 DEF LocksInOrder, NextAccount
      <3>2. a \in Nat /\ b \in Nat
        BY <1>1, <1>3, <2>1
      <3> QED
        BY <2>1, <2>2, <3>1, <3>2
    <2>3. CASE c # a
      BY <1>1, <2>1, <2>3 DEF LocksInOrder
    <2> QED
      BY <2>2, <2>3
  <1> QED
    BY <1>1, <1>4, OrderOfOthers

LEMMA OrderOfReturn ==
    ASSUME NEW p \in Requests, OnlyLocalsOf(p), LocksOfOthersStay(p), HoldsNothing(p)',
           pc'[p] = "done", \A q \in Requests : LocksInOrder(q)
    PROVE  \A q \in Requests : LocksInOrder(q)'
  BY OrderOfOthers DEF LocksInOrder

\* Commit and Discard.
LEMMA OrderOfEnd ==
    ASSUME Typed, NEW p \in Requests, Return(p), Unlock(p), \A q \in Requests : LocksInOrder(q)
    PROVE  \A q \in Requests : LocksInOrder(q)'
  <1>1. OnlyLocalsOf(p) /\ pc'[p] = "done" /\ kind' = kind
    BY DEF Return, OnlyLocalsOf, Typed, TypeOK
  <1>2. LocksOfOthersStay(p) /\ HoldsNothing(p)'
    BY <1>1, LedgerAssumption DEF Unlock, LocksOfOthersStay, HoldsNothing
  <1> QED
    BY <1>1, <1>2, OrderOfReturn

LEMMA OrderOfAccountRequest ==
    ASSUME Typed, NEW p \in Requests, AccountRequest(p), \A q \in Requests : LocksInOrder(q)
    PROVE  \A q \in Requests : LocksInOrder(q)'
  <1>1. kind[p] \in BulkKinds \/ HoldsNothing(p)
    BY DEF AccountRequest, FindAccount, WriteAccount, LocksInOrder
  <1>2. /\ OnlyLocalsOf(p) /\ UNCHANGED <<txLock, accLock, kind>> /\ pc'[p] \in {"awrite", "done"}
    BY DEF AccountRequest, FindAccount, WriteAccount, Return, ReadClock, tableVars, txTable,
           OnlyLocalsOf, Typed, TypeOK
  <1>3. LocksOfOthersStay(p) /\ LocksInOrder(p)'
    BY <1>1, <1>2 DEF LocksOfOthersStay, LocksInOrder, HoldsNothing
  <1> QED
    BY <1>2, <1>3, OrderOfOthers

LEMMA OrderOfStep ==
    ASSUME Typed, NEW p \in Requests, Start(p) \/ Progress(p) \/ Abort(p),
           \A q \in Requests : LocksInOrder(q)
    PROVE  \A q \in Requests : LocksInOrder(q)'
  <1>1. CASE Start(p)
    BY <1>1, OrderOfStart
  <1>2. CASE Find(p)
    BY <1>2, OrderOfFind
  <1>3. CASE WriteTransaction(p) \/ DeleteTransaction(p) \/ InsertTransaction(p)
    BY <1>3, OrderOfWrite
  <1>4. CASE BulkStatus(p)
    <2>1. pc[p] = "status" /\ UNCHANGED <<tableVars, kind>> /\ OnlyLocalsOf(p)
      BY <1>4 DEF BulkStatus, ReadClock, OnlyLocalsOf, Typed, TypeOK
    <2>2. kind[p] \in BulkKinds /\ pc'[p] \in {"end", "fail", "find"}
      BY <1>4, <2>1 DEF BulkStatus, LocksInOrder, Typed, TypeOK
    <2> QED
      BY <2>1, <2>2, OrderWithoutLocking
  <1>5. CASE ReadAccount(p)
    <2>1. /\ pc[p] = "apply" /\ pc'[p] = "adjust" /\ UNCHANGED <<tableVars, kind, todo>>
          /\ OnlyLocalsOf(p) /\ NextAccount(p, acct[p])'
      BY <1>5 DEF ReadAccount, NextAccount, OnlyLocalsOf, Typed, TypeOK
    <2> QED
      BY <2>1, OrderWithoutLocking
  <1>6. CASE AdjustAccount(p)
    BY <1>6, OrderOfAdjust
  <1>7. CASE AccountRequest(p)
    BY <1>7, OrderOfAccountRequest
  <1>8. CASE Commit(p) \/ Rollback(p) \/ DeadlockVictim(p) \/ Abort(p)
    BY <1>8, OrderOfEnd DEF Commit, Rollback, DeadlockVictim, Abort, Discard
  <1> QED
    BY <1>1, <1>2, <1>3, <1>4, <1>5, <1>6, <1>7, <1>8 DEF Progress, Write

Below == {pair \in Nat \X Nat : pair[1] < pair[2]}

LEMMA HasLeast ==
    ASSUME NEW T \in SUBSET Nat, T # {}
    PROVE  \E x \in T : \A y \in T : x <= y
  <1>1. IsWellFoundedOn(Below, Nat)
    BY NatLessThanWellFounded DEF OpToRel, Below
  <1>2. \E x \in T : \A y \in T : ~(<<y, x>> \in Below)
    BY <1>1, WFMin
  <1>3. PICK x \in T : \A y \in T : <<y, x>> \notin Below
    BY <1>2
  <1>4. \A y \in T : y \in Nat /\ x \in Nat /\ ~(y < x)
    BY <1>3 DEF Below
  <1> QED
    BY <1>4

\* In a circle everybody holds a lock while he waits, so everybody waits for an account;
\* and whoever is waited for waits himself for a later one.
LEMMA OrderExcludesCircles ==
    ASSUME Typed, \A q \in Requests : LocksInOrder(q)
    PROVE  NoDeadlock
  <1> SUFFICES ASSUME NEW S \in SUBSET {p \in Requests : kind[p] \notin BulkKinds}, S # {},
                      Circle(S)
               PROVE  FALSE
    BY DEF NoDeadlock
  <1>1. ASSUME NEW q \in S PROVE pc[q] = "adjust" /\ NextAccount(q, acct[q]) /\ LocksInOrder(q)
    <2>1. PICK r \in S : WaitsFor(r, q)
      BY DEF Circle
    <2>2. ~HoldsNothing(q)
      BY <2>1 DEF WaitsFor, HoldsNothing, Typed, Targeted
    <2>3. pc[q] \in {"write", "adjust", "awrite"}
      BY DEF Circle, WaitsFor
    <2> QED
      BY <2>2, <2>3 DEF LocksInOrder
  <1>2. ASSUME NEW q \in S PROVE acct[q] \in Nat /\ \E r \in S : acct[r] < acct[q]
    <2>1. PICK r \in S : WaitsFor(r, q)
      BY DEF Circle
    <2>2. accLock[acct[r]] = q /\ acct[r] \in Accounts /\ acct[q] \in Accounts
      BY <1>1, <2>1 DEF WaitsFor, Typed, Targeted
    <2>3. acct[r] < acct[q]
      BY <1>1, <2>2 DEF LocksInOrder, NextAccount
    <2> QED
      BY <2>2, <2>3, AccountsAssumption
  <1> DEFINE T == {acct[q] : q \in S}
  <1>3. T \in SUBSET Nat /\ T # {}
    BY <1>2
  <1>4. PICK x \in T : \A y \in T : x <= y
    <2> HIDE DEF T
    <2> QED
      BY <1>3, HasLeast
  <1>5. PICK q \in S : acct[q] = x
    BY <1>4
  <1>6. PICK r \in S : acct[r] < acct[q]
    BY <1>2
  <1>7. x <= acct[r]
    BY <1>4, <1>6
  <1> QED
    BY <1>2, <1>5, <1>6, <1>7

\* However many requests for single rows there are, they never wait for each other in a
\* circle, and so never lose one to the deadlock detector: each locks its transaction
\* first and then its accounts in id order.
THEOREM SingleRequestsNeverDeadlock == Spec => []NoDeadlock
  <1> DEFINE Inv == Typed /\ \A q \in Requests : LocksInOrder(q)
  <1>1. Init => Inv
    BY InitTyped, LedgerAssumption DEF Init, InitRequests, LocksInOrder, HoldsNothing
  <1>2. Inv /\ [Next]_vars => Inv'
    <2> SUFFICES ASSUME Inv, [Next]_vars PROVE Inv'
      OBVIOUS
    <2>1. Typed'
      BY StepTyped
    <2>2. CASE UNCHANGED vars
      BY <2>1, <2>2 DEF vars, LocksInOrder, HoldsNothing, NextAccount
    <2> QED
      BY <2>1, <2>2, OrderOfStep DEF Next
  <1>3. Inv => NoDeadlock
    BY OrderExcludesCircles
  <1> QED
    BY <1>1, <1>2, <1>3, PTL DEF Spec

----------------------------------------------------------------------------
(***************************************************************************)
(* The tables are a book.                                                  *)
(***************************************************************************)
\* What a service does to a row it has found is lawful from the committed row on, if
\* what it has found is.
LEMMA LawfulPost ==
    ASSUME NEW r \in TransactionRow, NEW s \in TransactionRow, NEW n, Lawful(r, s),
           s.status = "planned"
    PROVE  Lawful(r, Post(s, n))
  BY DEF Lawful, EntryOf, TransactionRow, Post, Promise!Move, Promise!Recorded, Promise!Amended,
         Promise!Posted, Promise!Dropped, Promise!Reversed, Promise!Removed

LEMMA LawfulCancel ==
    ASSUME NEW r \in TransactionRow, NEW s \in TransactionRow, NEW n, Lawful(r, s),
           CanCancel(s), Exists(r)
    PROVE  Lawful(r, Cancel(s, n))
  BY DEF Lawful, EntryOf, TransactionRow, Cancel, CanCancel, Exists, Promise!Move,
         Promise!Recorded, Promise!Amended, Promise!Posted, Promise!Dropped, Promise!Reversed,
         Promise!Removed

LEMMA LawfulPatch ==
    ASSUME NEW r \in TransactionRow, NEW s \in TransactionRow, NEW new \in TransactionRow,
           Lawful(r, s), new.status = s.status, s.status \in {"planned", "posted"},
           s.status = "posted" => EntryOf(new) = EntryOf(s)
    PROVE  Lawful(r, new)
  BY DEF Lawful, EntryOf, TransactionRow, Promise!Move, Promise!Recorded, Promise!Amended,
         Promise!Posted, Promise!Dropped, Promise!Reversed, Promise!Removed

LEMMA LawfulInsert ==
    ASSUME NEW new \in TransactionRow, new.status \in {"planned", "posted"}
    PROVE  Lawful(NoRow, new)
  BY DEF Lawful, EntryOf, NoRow, Promise!Move, Promise!Recorded

LEMMA LawfulDelete ==
    ASSUME NEW r \in TransactionRow, r.status \in {"planned", "cancelled"}
    PROVE  Lawful(r, NoRow)
  BY DEF Lawful, EntryOf, NoRow, Promise!Move, Promise!Removed

\* A step of p that writes one draft of a transaction.
LEMMA LawfulDraft ==
    ASSUME Typed, DraftsAreLawful, NEW p \in Requests, NEW t \in TxIds, NEW new,
           txDraft' = [txDraft EXCEPT ![t] = new], txLock' = [txLock EXCEPT ![t] = p],
           UNCHANGED <<txns, kind>>, Lawful(txns[t], new),
           Exists(new) /\ ~Exists(txns[t]) => kind[p] \in Creators
    PROVE  DraftsAreLawful'
  <1> SUFFICES ASSUME NEW u \in TxIds
               PROVE  /\ Lawful(txns[u], txDraft'[u])
                      /\ Exists(txDraft'[u]) /\ ~Exists(txns[u]) => kind[txLock'[u]] \in Creators
    BY DEF DraftsAreLawful, Lawful, Promise!Move, Promise!Recorded, Promise!Amended,
           Promise!Posted, Promise!Dropped, Promise!Reversed, Promise!Removed, EntryOf
  <1>1. CASE u = t
    BY <1>1 DEF Typed, TypeOK
  <1>2. CASE u # t
    BY <1>2 DEF DraftsAreLawful, Typed, TypeOK
  <1> QED
    BY <1>1, <1>2

\* The other requests do not notice a step of p.
LEMMA BooksOfStep ==
    ASSUME BooksInvariant, NEW p \in Requests, OnlyLocalsOf(p), kind' = kind,
           DraftsAreLawful', ServiceOfKind(p)', Proposed(p)'
    PROVE  BooksInvariant'
  <1>1. ASSUME NEW q \in Requests, q # p PROVE ServiceOfKind(q)' /\ Proposed(q)'
    <2>1. /\ op'[q] = op[q] /\ pc'[q] = pc[q] /\ row'[q] = row[q] /\ seen'[q] = seen[q]
          /\ Creating(q)' <=> Creating(q)
      BY <1>1, OthersStay DEF OnlyLocalsOf
    <2> QED
      BY <2>1 DEF BooksInvariant, ServiceOfKind, Proposed, EntryOf
  <1> QED
    BY <1>1 DEF BooksInvariant

\* A step that leaves the transactions alone.
LEMMA LawfulAsBefore ==
    ASSUME DraftsAreLawful, UNCHANGED <<txTable, kind>>
    PROVE  DraftsAreLawful'
  <1>1. txns' = txns /\ txDraft' = txDraft /\ txLock' = txLock /\ kind' = kind
    BY DEF txTable
  <1> SUFFICES ASSUME NEW t \in TxIds
               PROVE  /\ Lawful(txns'[t], txDraft'[t])
                      /\ Exists(txDraft'[t]) /\ ~Exists(txns'[t])
                            => kind'[txLock'[t]] \in Creators
    BY DEF DraftsAreLawful, Lawful, Promise!Move, Promise!Recorded, Promise!Amended,
           Promise!Posted, Promise!Dropped, Promise!Reversed, Promise!Removed, EntryOf
  <1> QED
    BY <1>1 DEF DraftsAreLawful

LEMMA BooksOfStart ==
    ASSUME Typed, BooksInvariant, NEW p \in Requests, Start(p)
    PROVE  BooksInvariant'
  <1>1. UNCHANGED <<txTable, kind>> /\ OnlyLocalsOf(p)
    BY DEF Start, StartCreate, StartTimed, StartUntimed, StartBulkPatch, ReadClock, Apply,
           OnlyLocalsOf, tableVars, txTable, Typed, TypeOK
  <1>2. ServiceOfKind(p)'
    BY DEF Start, StartCreate, StartTimed, StartUntimed, StartBulkPatch, Apply, ServiceOfKind,
           Typed, TypeOK
  <1>3. CASE StartCreate(p)
    <2>1. row'[p].status \in {"planned", "posted"} /\ pc'[p] # "write"
      BY <1>3 DEF StartCreate, Apply, Row, Typed, TypeOK
    <2> QED
      BY <1>1, <1>2, <2>1, LawfulAsBefore, BooksOfStep DEF Proposed, BooksInvariant
  <1>4. CASE StartTimed(p) \/ StartUntimed(p) \/ StartBulkPatch(p)
    <2>1. pc'[p] \in {"find", "fail"}
      BY <1>4 DEF StartTimed, StartUntimed, StartBulkPatch, Typed, TypeOK
    <2> QED
      BY <1>1, <1>2, <2>1, LawfulAsBefore, BooksOfStep
      DEF Proposed, BooksInvariant, Creating, Applying
  <1> QED
    BY <1>3, <1>4 DEF Start

LEMMA BooksOfFind ==
    ASSUME Typed, BooksInvariant, NEW p \in Requests, Find(p)
    PROVE  BooksInvariant'
  <1>1. /\ pc[p] = "find" /\ UNCHANGED <<txTable, kind, op>> /\ OnlyLocalsOf(p)
        /\ pc'[p] \in {"write", "fail", "insert", "apply"}
    BY DEF Find, FindForPost, FindForCancel, FindForPatch, FindForDelete, FindForDuplicate,
           Fail, Found, ReadClock, Apply, OnlyLocalsOf, tableVars, txTable, Typed, TypeOK
  <1>2. ServiceOfKind(p)'
    BY <1>1 DEF BooksInvariant, ServiceOfKind
  <1>3. CASE pc'[p] = "fail" \/ op[p] \in {"post", "cancel", "delete"}
    <2>1. Proposed(p)'
      BY <1>1, <1>3 DEF Proposed, Creating, Applying
    <2> QED
      BY <1>1, <1>2, <2>1, LawfulAsBefore, BooksOfStep DEF BooksInvariant
  <1>4. CASE FindForPatch(p) /\ pc'[p] # "fail"
    <2> DEFINE current == VisibleTx(p, tgt[p])
    <2>1. tgt[p] \in TxIds /\ current \in TransactionRow
      BY <1>1, VisibleTxType DEF Typed, Targeted
    <2>2. /\ seen'[p] = current /\ op[p] = "patch"
          /\ \/ current.status \in {"planned", "posted"}
                /\ \E n \in Readings : row'[p] = [current EXCEPT !.ver = n]
             \/ current.status = "planned"
      BY <1>4 DEF FindForPatch, Found, Fail, MoneyPatchable, Typed, TypeOK
    <2>3. Proposed(p)'
      BY <1>1, <2>1, <2>2 DEF Proposed, Creating, EntryOf, TransactionRow
    <2> QED
      BY <1>1, <1>2, <2>3, LawfulAsBefore, BooksOfStep DEF BooksInvariant
  <1>5. CASE FindForDuplicate(p) /\ pc'[p] # "fail"
    <2>1. row'[p].status \in {"planned", "posted"} /\ op[p] = "duplicate"
      BY <1>5 DEF FindForDuplicate, Fail, Row, Typed, TypeOK
    <2>2. Proposed(p)'
      BY <1>1, <2>1 DEF Proposed
    <2> QED
      BY <1>1, <1>2, <2>2, LawfulAsBefore, BooksOfStep DEF BooksInvariant
  <1> QED
    BY <1>3, <1>4, <1>5 DEF Find, FindForPost, FindForCancel, FindForDelete

\* A row that is changed and not created is a committed one.
LEMMA ChangedRowExists ==
    ASSUME IInv, BooksInvariant, NEW p \in Requests, pc[p] = "write", TxRowFree(p, tgt[p]),
           Unchanged(VisibleTx(p, tgt[p]), seen[p])
    PROVE  /\ tgt[p] \in TxIds /\ Exists(txns[tgt[p]])
           /\ Lawful(txns[tgt[p]], seen[p])
  <1> DEFINE t == tgt[p]
  <1>1. t \in TxIds /\ Exists(seen[p]) /\ op[p] \in {"post", "cancel", "patch", "delete"}
    BY DEF Prepared, IInv, LedgerInvariant
  <1>2. txDraft[t] = seen[p]
    BY UnchangedTx
  <1>3. kind[p] \notin Creators
    BY <1>1 DEF BooksInvariant, ServiceOfKind, Creators
  <1>4. txLock[t] = Free => txDraft[t] = txns[t]
    BY <1>1 DEF DraftsAreLocked, IInv, LedgerInvariant
  <1>5. Exists(txns[t])
    BY <1>1, <1>2, <1>3, <1>4 DEF TxRowFree, BooksInvariant, DraftsAreLawful
  <1> QED
    BY <1>1, <1>2, <1>5 DEF BooksInvariant, DraftsAreLawful

LEMMA BooksOfWriteTransaction ==
    ASSUME IInv, BooksInvariant, NEW p \in Requests, WriteTransaction(p)
    PROVE  BooksInvariant'
  <1>1. PICK t \in TxIds : t = tgt[p]
    BY DEF WriteTransaction, IInv, Typed, Targeted
  <1>2. /\ pc[p] = "write" /\ op[p] \in {"post", "cancel", "patch"} /\ TxRowFree(p, t)
        /\ UNCHANGED <<txns, kind, op>> /\ OnlyLocalsOf(p)
        /\ pc'[p] \in {"fail", "apply", "status", "end"}
        /\ pc'[p] = "status" => kind[p] = "patchBulk"
    BY <1>1 DEF WriteTransaction, Apply, OnlyLocalsOf, IInv, Typed, TypeOK
  <1>3. ServiceOfKind(p)' /\ Proposed(p)'
    BY <1>2 DEF BooksInvariant, ServiceOfKind, Proposed, Creating, Applying
  <1>4. CASE ~Unchanged(VisibleTx(p, t), seen[p])
    <2>1. UNCHANGED txTable
      BY <1>1, <1>2, <1>4 DEF WriteTransaction, txTable
    <2> QED
      BY <1>2, <1>3, <2>1, LawfulAsBefore, BooksOfStep DEF BooksInvariant
  <1>5. CASE Unchanged(VisibleTx(p, t), seen[p])
    <2>1. txDraft' = [txDraft EXCEPT ![t] = row[p]] /\ txLock' = [txLock EXCEPT ![t] = p]
      BY <1>1, <1>5 DEF WriteTransaction
    <2>2. Exists(txns[t]) /\ Lawful(txns[t], seen[p])
      BY <1>1, <1>2, <1>5, ChangedRowExists
    <2>3. /\ txns[t] \in TransactionRow /\ seen[p] \in TransactionRow
          /\ row[p] \in TransactionRow
      BY DEF IInv, Typed, TypeOK
    <2>4. Lawful(txns[t], row[p])
      <3>1. Prepared(p) /\ Proposed(p)
        BY DEF IInv, LedgerInvariant, BooksInvariant
      <3>2. CASE op[p] = "post"
        BY <1>2, <2>2, <2>3, <3>1, <3>2, LawfulPost DEF Prepared
      <3>3. CASE op[p] = "cancel"
        BY <1>2, <2>2, <2>3, <3>1, <3>3, LawfulCancel DEF Prepared
      <3>4. CASE op[p] = "patch"
        BY <1>2, <2>2, <2>3, <3>1, <3>4, LawfulPatch DEF Prepared, Proposed
      <3> QED
        BY <1>2, <3>2, <3>3, <3>4
    <2>5. DraftsAreLawful'
      BY <1>2, <2>1, <2>2, <2>4, LawfulDraft DEF BooksInvariant, IInv
    <2> QED
      BY <1>2, <1>3, <2>5, BooksOfStep
  <1> QED
    BY <1>4, <1>5

\* Who deletes a row has written nothing before.
LEMMA BooksOfDelete ==
    ASSUME IInv, BooksInvariant, NEW p \in Requests, LocksInOrder(p), DeleteTransaction(p)
    PROVE  BooksInvariant'
  <1>1. PICK t \in TxIds : t = tgt[p]
    BY DEF DeleteTransaction, IInv, Typed, Targeted
  <1>2. /\ pc[p] = "write" /\ op[p] = "delete" /\ TxRowFree(p, t)
        /\ UNCHANGED <<txns, kind, op>> /\ OnlyLocalsOf(p) /\ pc'[p] \in {"fail", "end"}
    BY <1>1 DEF DeleteTransaction, OnlyLocalsOf, IInv, Typed, TypeOK
  <1>3. ServiceOfKind(p)' /\ Proposed(p)'
    BY <1>2 DEF BooksInvariant, ServiceOfKind, Proposed, Creating, Applying
  <1> DEFINE deletes == /\ Unchanged(VisibleTx(p, t), seen[p])
                        /\ VisibleTx(p, t).status # "posted"
  <1>4. CASE ~deletes
    <2>1. UNCHANGED txTable
      BY <1>1, <1>2, <1>4 DEF DeleteTransaction, txTable
    <2> QED
      BY <1>2, <1>3, <2>1, LawfulAsBefore, BooksOfStep DEF BooksInvariant
  <1>5. CASE deletes
    <2>1. txDraft' = [txDraft EXCEPT ![t] = NoRow] /\ txLock' = [txLock EXCEPT ![t] = p]
      BY <1>1, <1>5 DEF DeleteTransaction
    <2>2. kind[p] = "delete"
      BY <1>2 DEF BooksInvariant, ServiceOfKind
    <2>3. VisibleTx(p, t) = txns[t]
      BY <1>2, <2>2 DEF LocksInOrder, HoldsNothing, BulkKinds, VisibleTx
    <2>4. txns[t] \in TransactionRow
      BY DEF IInv, Typed, TypeOK
    <2>5. txns[t].status \in {"planned", "cancelled"}
      BY <1>5, <2>3, <2>4 DEF Unchanged, Exists, TransactionRow, Statuses
    <2>6. Lawful(txns[t], NoRow)
      BY <2>4, <2>5, LawfulDelete
    <2>7. DraftsAreLawful'
      BY <1>2, <2>1, <2>6, LawfulDraft DEF BooksInvariant, IInv, Exists, NoRow
    <2> QED
      BY <1>2, <1>3, <2>7, BooksOfStep
  <1> QED
    BY <1>4, <1>5

LEMMA BooksOfInsert ==
    ASSUME IInv, BooksInvariant, NEW p \in Requests, InsertTransaction(p)
    PROVE  BooksInvariant'
  <1>1. PICK t \in TxIds : t = tgt[p]
    BY DEF InsertTransaction, Adjusts, Applying, IInv, LedgerInvariant
  <1>2. /\ pc[p] = "insert" /\ UNCHANGED <<txns, kind, op>> /\ OnlyLocalsOf(p)
        /\ txDraft' = [txDraft EXCEPT ![t] = row[p]] /\ txLock' = [txLock EXCEPT ![t] = p]
        /\ pc'[p] = "end"
    BY <1>1 DEF InsertTransaction, OnlyLocalsOf, IInv, Typed, TypeOK
  <1>3. ServiceOfKind(p)' /\ Proposed(p)'
    BY <1>2 DEF BooksInvariant, ServiceOfKind, Proposed, Creating, Applying
  <1>4. Creating(p)
    BY <1>2 DEF Creating, Applying, Adjusts, IInv, LedgerInvariant
  <1>5. txns[t] = NoRow
    BY <1>1, <1>4 DEF IdsAreFresh, Unused, IInv, LedgerInvariant
  <1>6. row[p].status \in {"planned", "posted"} /\ kind[p] \in Creators
    BY <1>4 DEF BooksInvariant, Proposed, ServiceOfKind, Creating, Creators
  <1>7. Lawful(txns[t], row[p])
    BY <1>5, <1>6, LawfulInsert DEF IInv, Typed, TypeOK
  <1>8. DraftsAreLawful'
    BY <1>2, <1>6, <1>7, LawfulDraft DEF BooksInvariant, IInv
  <1> QED
    BY <1>2, <1>3, <1>8, BooksOfStep

\* The steps between the statements, and those that only touch accounts.
LEMMA BooksOfOther ==
    ASSUME Typed, BooksInvariant, NEW p \in Requests,
           BulkStatus(p) \/ ReadAccount(p) \/ AdjustAccount(p) \/ AccountRequest(p)
    PROVE  BooksInvariant'
  <1>1. UNCHANGED <<txTable, kind>> /\ OnlyLocalsOf(p)
    BY DEF BulkStatus, ReadAccount, AdjustAccount, AccountRequest, FindAccount, WriteAccount,
           Return, ReadClock, Apply, OnlyLocalsOf, tableVars, txTable, Typed, TypeOK
  <1>2. /\ ServiceOfKind(p)'
        /\ pc'[p] # "write"
        /\ Creating(p)' => Creating(p) /\ row'[p] = row[p]
    <2>1. ServiceOfKind(p)
      BY DEF BooksInvariant
    <2>2. CASE BulkStatus(p)
      BY <2>1, <2>2 DEF BulkStatus, ServiceOfKind, Creating, Applying, Typed, TypeOK
    <2>3. CASE ReadAccount(p) \/ AdjustAccount(p)
      BY <2>1, <2>3 DEF ReadAccount, AdjustAccount, Apply, ServiceOfKind, Creating, Applying,
                        Typed, TypeOK
    <2>4. CASE AccountRequest(p)
      BY <2>1, <2>4 DEF AccountRequest, FindAccount, WriteAccount, Return, ServiceOfKind,
                        Creating, Applying, Typed, TypeOK
    <2> QED
      BY <2>2, <2>3, <2>4
  <1>3. Proposed(p)'
    BY <1>2 DEF BooksInvariant, Proposed
  <1> QED
    BY <1>1, <1>2, <1>3, LawfulAsBefore, BooksOfStep DEF BooksInvariant

\* Commit and Discard: a draft of p and its row become the same, the others stay.
LEMMA BooksOfEnd ==
    ASSUME Typed, BooksInvariant, NEW p \in Requests, Commit(p) \/ Discard(p)
    PROVE  BooksInvariant'
  <1>1. /\ UNCHANGED kind /\ OnlyLocalsOf(p) /\ op'[p] = "none" /\ pc'[p] = "done"
    BY DEF Commit, Discard, Return, OnlyLocalsOf, Typed, TypeOK
  <1>2. ServiceOfKind(p)' /\ Proposed(p)'
    BY <1>1 DEF ServiceOfKind, Proposed, Creating, Applying
  <1>3. ASSUME NEW t \in TxIds
        PROVE  \/ txns'[t] = txDraft'[t]
               \/ /\ txns'[t] = txns[t] /\ txDraft'[t] = txDraft[t]
                  /\ txLock'[t] = txLock[t]
    BY DEF Commit, Discard, Unlock, VisibleTx
  <1>4. DraftsAreLawful'
    <2> SUFFICES ASSUME NEW t \in TxIds
                 PROVE  /\ Lawful(txns'[t], txDraft'[t])
                        /\ Exists(txDraft'[t]) /\ ~Exists(txns'[t])
                              => kind'[txLock'[t]] \in Creators
      BY DEF DraftsAreLawful, Lawful, Promise!Move, Promise!Recorded, Promise!Amended,
             Promise!Posted, Promise!Dropped, Promise!Reversed, Promise!Removed, EntryOf
    <2>1. CASE txns'[t] = txDraft'[t]
      BY <2>1 DEF Lawful
    <2>2. CASE txns'[t] = txns[t] /\ txDraft'[t] = txDraft[t] /\ txLock'[t] = txLock[t]
      BY <1>1, <2>2 DEF BooksInvariant, DraftsAreLawful
    <2> QED
      BY <1>3, <2>1, <2>2
  <1> QED
    BY <1>1, <1>2, <1>4, BooksOfStep

LEMMA StepBooks ==
    ASSUME IInv, BooksInvariant, \A q \in Requests : LocksInOrder(q), [Next]_vars
    PROVE  BooksInvariant'
  <1>1. CASE UNCHANGED vars
    <2>1. UNCHANGED <<txTable, kind, pc, op, row, seen>>
      BY <1>1 DEF vars, txTable
    <2>2. DraftsAreLawful'
      BY <2>1, LawfulAsBefore DEF BooksInvariant
    <2> QED
      BY <2>1, <2>2 DEF BooksInvariant, ServiceOfKind, Proposed, Creating, Applying, EntryOf
  <1>2. ASSUME NEW p \in Requests, Start(p) \/ Progress(p) \/ Abort(p)
        PROVE  BooksInvariant'
    <2>1. Typed
      BY DEF IInv
    <2>2. CASE Start(p) \/ Find(p)
      BY <2>1, <2>2, BooksOfStart, BooksOfFind
    <2>3. CASE Write(p)
      BY <2>1, <2>3, BooksOfWriteTransaction, BooksOfDelete, BooksOfInsert, BooksOfOther
      DEF Write
    <2>4. CASE AccountRequest(p)
      BY <2>1, <2>4, BooksOfOther
    <2>5. CASE Commit(p) \/ Rollback(p) \/ DeadlockVictim(p) \/ Abort(p)
      BY <2>1, <2>5, BooksOfEnd DEF Rollback, DeadlockVictim, Abort
    <2> QED
      BY <1>2, <2>2, <2>3, <2>4, <2>5 DEF Progress
  <1> QED
    BY <1>1, <1>2 DEF Next

LEMMA InitBooks == Init => BooksInvariant
  <1> SUFFICES ASSUME Init PROVE BooksInvariant
    OBVIOUS
  <1>1. DraftsAreLawful
    BY DEF Init, DraftsAreLawful, Lawful
  <1> QED
    BY <1>1 DEF Init, InitRequests, BooksInvariant, ServiceOfKind, Proposed, Creating, Applying

\* The balances that go with the book are the ones in the tables.
LEMMA BalancesShown ==
    ASSUME Typed, PostingsMatchStatus
    PROVE  [a \in Accounts |-> Balance(accounts[a], a)]
               = [a \in Accounts |-> Promise!Shown([t \in TxIds |-> EntryOf(txns[t])], a)]
  <1> DEFINE book == [t \in TxIds |-> EntryOf(txns[t])]
  <1>1. ASSUME NEW a \in Accounts
        PROVE  accounts[a].postings = [t \in TxIds |-> Promise!Posting(book[t], a)]
    <2>1. accounts[a].postings = [t \in TxIds |-> accounts[a].postings[t]]
      BY DEF Typed, TypeOK, AccountRow
    <2>2. ASSUME NEW t \in TxIds
          PROVE  accounts[a].postings[t] = Promise!Posting(book[t], a)
      <3>1. accounts[a].postings[t] = Posting(txns[t], a)
        BY DEF PostingsMatchStatus
      <3>2. Posting(txns[t], a) = Promise!Posting(EntryOf(txns[t]), a)
        BY DEF Posting, Delta, Incoming, Outgoing, EntryOf, Promise!Posting, Promise!Delta,
               Promise!Incoming, Promise!Outgoing
      <3> QED
        BY <3>1, <3>2
    <2> QED
      BY <2>1, <2>2
  <1>2. ASSUME NEW a \in Accounts
        PROVE  Balance(accounts[a], a) = Promise!Shown(book, a)
    <2> DEFINE amounts == [t \in TxIds |-> Promise!Posting(book[t], a)]
    <2>1. Promise!SumFunction(amounts) = SumFunction(amounts)
      BY DEF Promise!SumFunction, SumFunction, Promise!SumFunctionOnSet, SumFunctionOnSet,
             Promise!FoldFunctionOnSet, FoldFunctionOnSet, Promise!FoldFunction,
             FoldFunction, Promise!MapThenFoldSet, MapThenFoldSet
    <2>2. accounts[a].postings = amounts
      BY <1>1
    <2>3. Promise!Shown(book, a) = Opening[a] + Promise!SumFunction(amounts)
      BY DEF Promise!Shown
    <2> QED
      BY <2>1, <2>2, <2>3 DEF Balance
  <1> QED
    BY <1>2

\* Everything there is to know of the tables and the requests.
Accounted == IInv /\ BooksInvariant /\ \A q \in Requests : LocksInOrder(q)

LEMMA AccountedStays ==
    /\ Init => Accounted
    /\ ClockAdvances /\ Accounted /\ [Next]_vars => Accounted'
  <1>1. Init => Accounted
    BY InitSafe, InitBooks, LedgerAssumption
    DEF Init, InitRequests, LocksInOrder, HoldsNothing, Accounted
  <1>2. ASSUME ClockAdvances, Accounted, [Next]_vars PROVE Accounted'
    <2>1. IInv' /\ BooksInvariant'
      BY <1>2, StepSafe, StepBooks DEF Accounted
    <2>2. CASE UNCHANGED vars
      BY <1>2, <2>1, <2>2 DEF vars, LocksInOrder, HoldsNothing, NextAccount, Accounted
    <2> QED
      BY <1>2, <2>1, <2>2, OrderOfStep DEF Next, IInv, Accounted
  <1> QED
    BY <1>1, <1>2

\* What a step does to the committed rows, all at once.
LEMMA RowsMoveLawfully ==
    ASSUME IInv, BooksInvariant, [Next]_vars
    PROVE  \/ txns' = txns
           \/ \A t \in TxIds : Lawful(txns[t], txns'[t])
  <1>1. ASSUME NEW p \in Requests, Commit(p), NEW t \in TxIds
        PROVE  Lawful(txns[t], txns'[t])
    <2>1. txns'[t] \in {txns[t], txDraft[t]}
      BY <1>1 DEF Commit, VisibleTx
    <2> QED
      BY <2>1 DEF Lawful, BooksInvariant, DraftsAreLawful
  <1>2. ASSUME NEW p \in Requests, Start(p) \/ Progress(p) \/ Abort(p), ~Commit(p)
        PROVE  txns' = txns
    BY <1>2 DEF Start, StartCreate, StartTimed, StartUntimed, StartBulkPatch, Progress, Find,
                FindForPost, FindForCancel, FindForPatch, FindForDelete, FindForDuplicate,
                Write, WriteTransaction, DeleteTransaction, InsertTransaction, BulkStatus,
                ReadAccount, AdjustAccount, AccountRequest, FindAccount, WriteAccount,
                Rollback, DeadlockVictim, Abort, Discard, tableVars, txTable
  <1>3. CASE UNCHANGED vars
    BY <1>3 DEF vars
  <1> QED
    BY <1>1, <1>2, <1>3 DEF Next

\* Provided no two clock readings are the same, the tables are at any time the book that
\* Books promises and the balances are the ones that go with it: every commit, of a bulk
\* request too, takes each entry at most one lawful move further.
THEOREM TablesAreBooks ==
    ASSUME ClockAdvances
    PROVE  Spec => ImplementsBooks
  <1> DEFINE book == [t \in TxIds |-> EntryOf(txns[t])]
             balance == [a \in Accounts |-> Balance(accounts[a], a)]
             Agree == /\ book \in [TxIds -> Promise!Entry]
                      /\ balance = [a \in Accounts |-> Promise!Shown(book, a)]
  <1>1. IInv => Agree
    <2> SUFFICES ASSUME IInv PROVE Agree
      OBVIOUS
    <2>1. \A t \in TxIds : EntryOf(txns[t]) \in Promise!Entry
      BY DEF IInv, Typed, TypeOK, TransactionRow, EntryOf, Promise!Entry,
                  Promise!Statuses, Promise!Types, Promise!AccountRef, Statuses, Types,
                  AccountRef
    <2> QED
      BY <2>1, BalancesShown DEF IInv, LedgerInvariant
  <1>2. Init => Promise!Init
    BY <1>1, InitSafe DEF Promise!Init
  <1>3. IInv' => Agree'
    BY <1>1, PTL
  <1>4. Accounted /\ Accounted' /\ [Next]_vars => [Promise!Settle]_<<book, balance>>
    <2> SUFFICES ASSUME Accounted, Accounted', [Next]_vars
                 PROVE  [Promise!Settle]_<<book, balance>>
      OBVIOUS
    <2>1. /\ balance = [a \in Accounts |-> Promise!Shown(book, a)]
          /\ balance' = [a \in Accounts |-> Promise!Shown(book, a)]'
          /\ book' \in [TxIds -> Promise!Entry]
      BY <1>1, <1>3 DEF Accounted
    <2>2. CASE txns' = txns
      <3>1. book' = book
        BY <2>2 DEF EntryOf
      <3>2. balance' = balance
        BY <2>1, <3>1
      <3> QED
        BY <3>1, <3>2
    <2>3. CASE \A t \in TxIds : Lawful(txns[t], txns'[t])
      <3>1. \A t \in TxIds : book'[t] = book[t] \/ Promise!Move(book[t], book'[t])
        BY <2>3 DEF Lawful, EntryOf
      <3> QED
        BY <2>1, <3>1 DEF Promise!Settle
    <2> QED
      BY <2>2, <2>3, RowsMoveLawfully DEF Accounted
  <1> QED
    BY <1>2, <1>4, AccountedStays, PTL DEF Spec, ImplementsBooks, Promise!Spec

----------------------------------------------------------------------------
(***************************************************************************)
(* The handlers.                                                           *)
(***************************************************************************)
LEMMA ApiStepsAreSteps == [ApiNext]_<<vars, apiVars>> => [Next]_vars
  <1>1. ASSUME NEW p \in Requests, Refuse(p) \/ Accept(p) \/ Serve(p) \/ Break(p)
        PROVE  [Next]_vars
    <2>1. CASE Refuse(p)
      BY <2>1 DEF Refuse
    <2>2. CASE Accept(p)
      BY <2>2 DEF Accept, Next
    <2>3. CASE Break(p)
      BY <2>3 DEF Break, Next, Progress
    <2>4. CASE Serve(p)
      BY <2>4, <2>3 DEF Serve, PoolClosed, Proceed, Complete, ReportError, ReadAccountRow,
                        WriteAccountRow, Next, Progress, AccountRequest
    <2> QED
      BY <1>1, <2>1, <2>2, <2>3, <2>4
  <1>2. CASE Signal \/ Stop \/ Idle \/ UNCHANGED <<vars, apiVars>>
    BY <1>2 DEF Signal, Stop, Drained, DrainTimeout, Exit, Idle
  <1> QED
    BY <1>1, <1>2 DEF ApiNext

\* Refusals, answers, lost answers and a shutdown at any time add no step to what the
\* services do to the tables (the handlers and API.Run).
THEOREM ApiImplementsLedger == ApiSpec => Spec
  <1>1. ApiInit => Init
    BY DEF ApiInit
  <1> QED
    BY <1>1, ApiStepsAreSteps, PTL DEF ApiSpec, Spec

\* The balances match the posted transactions whatever the handlers refuse, answer or
\* fail to deliver and whenever the process is told to stop.
THEOREM ApiBalancesCorrect ==
    ASSUME ClockAdvances
    PROVE  ApiSpec => []PostingsMatchStatus
  BY ApiImplementsLedger, BalancesCorrect, PTL

----------------------------------------------------------------------------
(***************************************************************************)
(* What clients were told.                                                 *)
(***************************************************************************)
Settling == {"post", "cancel", "delete"}

Outcome(k) == CASE k = "post" -> "posted"
                [] k = "cancel" -> "cancelled"
                [] OTHER -> "none"

\* Nobody will insert row t any more: once it is gone it stays away.
Established(t) ==
    /\ t \in minted
    /\ \A q \in Requests : Creating(q) => tgt[q] # t
    /\ Exists(txDraft[t]) => Exists(txns[t])

\* A request that has changed its row holds the row in the status it will report.
Carried(p) ==
    kind[p] \in Settling /\ pc[p] \in {"apply", "adjust", "end"} =>
        /\ tgt[p] \in TxIds
        /\ Established(tgt[p])
        /\ txLock[tgt[p]] = p
        /\ txDraft[tgt[p]].status = Outcome(kind[p])

\* The first three conjuncts of AnswersHold, of a row that is not inserted again.
Told(p) ==
    Succeeded(p) /\ kind[p] \in Settling =>
        /\ answer[p].tx \in TxIds
        /\ Established(answer[p].tx)
        /\ kind[p] = "post" => StatusOf(p) # "planned"
        /\ kind[p] = "cancel" => StatusOf(p) \in {"cancelled", "none"}
        /\ kind[p] = "delete" => StatusOf(p) = "none"

\* Nobody but its creator knows of row t, and it is not committed.
Hidden(p, t) ==
    /\ t \in minted
    /\ txns[t] = NoRow
    /\ txLock[t] \in {Free, p}
    /\ \A q \in Requests : ~ReadsTx(q, t)
    /\ \A q \in Requests : q # p /\ Creating(q) => tgt[q] # t

\* The rows of a request that has not succeeded.
Withheld(p) ==
    /\ made[p] # {} => kind[p] \in Creators
    /\ pc[p] # "done" \/ Refused(p) => \A t \in made[p] : Hidden(p, t)

\* The error to be reported is one the handlers have a code for.
Reported(p) == pc[p] = "fail" => err[p] \in Errors \cup {"no row"}

\* What a step of p does to row t of the transactions.
TxStep(p, t) ==
    \/ txns'[t] = txns[t] /\ txDraft'[t] = txDraft[t] /\ txLock'[t] = txLock[t]
    \/ /\ tgt[p] = t
       /\ \/ pc[p] = "insert"
          \/ pc[p] = "write" /\ TxRowFree(p, t) /\ Unchanged(VisibleTx(p, t), seen[p])
       /\ txns'[t] = txns[t]
       /\ txLock'[t] = p
    \/ /\ pc'[p] = "done"
       /\ txLock[t] = p /\ txLock'[t] = Free
       /\ txns'[t] = txDraft'[t]
       /\ txns'[t] = txns[t] \/ (Commit(p) /\ txns'[t] = txDraft[t])

LEMMA TablesOfStep ==
    ASSUME Typed, NEW p \in Requests, Start(p) \/ Progress(p) \/ Abort(p), NEW t \in TxIds
    PROVE  TxStep(p, t)
  <1>1. CASE Start(p) \/ Find(p)
    BY <1>1 DEF Start, StartCreate, StartTimed, StartUntimed, StartBulkPatch, Find,
                FindForPost, FindForCancel, FindForPatch, FindForDelete, FindForDuplicate,
                tableVars, TxStep
  <1>2. CASE WriteTransaction(p)
    BY <1>2 DEF WriteTransaction, Typed, TypeOK, TxStep
  <1>3. CASE DeleteTransaction(p)
    BY <1>3 DEF DeleteTransaction, Typed, TypeOK, TxStep
  <1>4. CASE InsertTransaction(p)
    BY <1>4 DEF InsertTransaction, Typed, TypeOK, TxStep
  <1>5. CASE BulkStatus(p) \/ ReadAccount(p) \/ AdjustAccount(p) \/ AccountRequest(p)
    BY <1>5 DEF BulkStatus, ReadAccount, AdjustAccount, AccountRequest, FindAccount,
                WriteAccount, tableVars, txTable, TxStep
  <1>6. CASE Commit(p)
    BY <1>6 DEF Commit, Return, Unlock, VisibleTx, Typed, TypeOK, TxStep
  <1>7. CASE Discard(p)
    BY <1>7 DEF Discard, Return, Unlock, Typed, TypeOK, TxStep
  <1> QED
    BY <1>1, <1>2, <1>3, <1>4, <1>5, <1>6, <1>7
    DEF Progress, Write, Rollback, DeadlockVictim, Abort

\* Ids for new rows are fresh, whoever takes them.
LEMMA CreatorsOfStep ==
    ASSUME Typed, BooksInvariant, NEW p \in Requests, Start(p) \/ Progress(p) \/ Abort(p)
    PROVE  /\ OnlyLocalsOf(p)
           /\ kind' = kind
           /\ pc[p] # "done"
           /\ minted \subseteq minted'
           /\ minted' # minted => kind[p] \in Creators
           /\ Creating(p)' => \/ tgt'[p] \notin minted
                              \/ Creating(p) /\ tgt'[p] = tgt[p]
  <1>1. CASE Start(p)
    BY <1>1 DEF Start, StartCreate, StartTimed, StartUntimed, StartBulkPatch, MayStart, Apply,
                ReadClock, Creating, Applying, OnlyLocalsOf, BulkKinds, Creators, Typed, TypeOK
  <1>2. CASE Find(p)
    <2>1. CASE FindForDuplicate(p)
      BY <2>1 DEF FindForDuplicate, Fail, Apply, Creating, Applying, OnlyLocalsOf, Creators,
                  BooksInvariant, ServiceOfKind, Typed, TypeOK
    <2>2. CASE FindForPost(p) \/ FindForCancel(p) \/ FindForPatch(p) \/ FindForDelete(p)
      BY <2>2 DEF FindForPost, FindForCancel, FindForPatch, FindForDelete, Fail, Found,
                  ReadClock, Creating, Applying, OnlyLocalsOf, Typed, TypeOK
    <2> QED
      BY <1>2, <2>1, <2>2 DEF Find
  <1>3. CASE WriteTransaction(p) \/ DeleteTransaction(p) \/ InsertTransaction(p) \/ BulkStatus(p)
    BY <1>3 DEF WriteTransaction, DeleteTransaction, InsertTransaction, BulkStatus, Apply,
                ReadClock, Creating, Applying, OnlyLocalsOf, Typed, TypeOK
  <1>4. CASE ReadAccount(p) \/ AdjustAccount(p)
    BY <1>4 DEF ReadAccount, AdjustAccount, Apply, Creating, Applying, OnlyLocalsOf, Typed,
                TypeOK
  <1>5. CASE AccountRequest(p)
    BY <1>5 DEF AccountRequest, FindAccount, WriteAccount, Return, ReadClock, Creating,
                Applying, OnlyLocalsOf, Typed, TypeOK
  <1>6. CASE Commit(p) \/ Rollback(p) \/ DeadlockVictim(p) \/ Abort(p)
    <2>1. pc'[p] = "done" /\ minted' = minted /\ OnlyLocalsOf(p) /\ kind' = kind
      BY <1>6 DEF Commit, Rollback, DeadlockVictim, Abort, Discard, Return, OnlyLocalsOf,
                  Typed, TypeOK
    <2>2. ~Creating(p)'
      BY <2>1 DEF Creating, Applying
    <2>3. pc[p] # "done"
      BY <1>6 DEF Commit, Rollback, DeadlockVictim, Abort, Running, OnCycle, Circle, WaitsFor
    <2> QED
      BY <2>1, <2>2, <2>3
  <1> QED
    BY <1>1, <1>2, <1>3, <1>4, <1>5, <1>6 DEF Progress, Write

LEMMA EstablishedStays ==
    ASSUME Accounted, NEW p \in Requests, Start(p) \/ Progress(p) \/ Abort(p),
           NEW t \in TxIds, Established(t)
    PROVE  Established(t)'
  <1>1. Typed /\ IInv /\ BooksInvariant
    BY DEF Accounted, IInv
  <1>2. TxStep(p, t)
    BY <1>1, TablesOfStep
  <1>3. /\ OnlyLocalsOf(p) /\ minted \subseteq minted'
        /\ Creating(p)' => \/ tgt'[p] \notin minted
                           \/ Creating(p) /\ tgt'[p] = tgt[p]
    BY <1>1, CreatorsOfStep
  <1>4. ASSUME NEW q \in Requests, Creating(q)' PROVE tgt'[q] # t
    <2>1. CASE q = p
      BY <1>3, <1>4, <2>1 DEF Established
    <2>2. CASE q # p
      <3>1. Creating(q) /\ tgt'[q] = tgt[q]
        BY <1>3, <1>4, <2>2, OthersStay DEF OnlyLocalsOf
      <3> QED
        BY <3>1 DEF Established
    <2> QED
      BY <2>1, <2>2
  <1>5. Exists(txDraft'[t]) => Exists(txns'[t])
    <2>1. CASE tgt[p] = t /\ pc[p] = "insert"
      <3>1. Creating(p)
        BY <1>1, <2>1 DEF Creating, Applying, Adjusts, IInv, LedgerInvariant
      <3> QED
        BY <2>1, <3>1 DEF Established
    <2>2. CASE /\ tgt[p] = t /\ pc[p] = "write" /\ TxRowFree(p, t)
               /\ Unchanged(VisibleTx(p, t), seen[p]) /\ txns'[t] = txns[t]
      BY <1>1, <2>2, ChangedRowExists
    <2> QED
      BY <1>2, <2>1, <2>2 DEF TxStep, Established
  <1> QED
    BY <1>3, <1>4, <1>5 DEF Established, Exists

\* The lawful moves of such a row.
LEMMA EstablishedMoves ==
    ASSUME Accounted, NEW p \in Requests, Start(p) \/ Progress(p) \/ Abort(p),
           NEW t \in TxIds, Established(t)
    PROVE  /\ txns[t].status # "planned" => txns'[t].status # "planned"
           /\ txns[t].status \in {"cancelled", "none"}
                 => txns'[t].status \in {"cancelled", "none"}
           /\ txns[t].status = "none" => txns'[t].status = "none"
  <1>1. TxStep(p, t)
    BY TablesOfStep DEF Accounted, IInv
  <1>2. txns'[t] \in {txns[t], txDraft[t]}
    BY <1>1 DEF TxStep
  <1>3. Lawful(txns[t], txDraft[t])
    BY DEF Accounted, BooksInvariant, DraftsAreLawful
  <1>4. CASE Exists(txns[t])
    BY <1>2, <1>3, <1>4 DEF Lawful, EntryOf, Exists, Promise!Move, Promise!Recorded,
                            Promise!Amended, Promise!Posted, Promise!Dropped,
                            Promise!Reversed, Promise!Removed
  <1>5. CASE ~Exists(txns[t])
    BY <1>2, <1>5 DEF Established, Exists
  <1> QED
    BY <1>4, <1>5

\* The services a request for one change of status runs.
LEMMA SettlingService ==
    ASSUME Accounted, NEW p \in Requests, kind[p] \in Settling
    PROVE  op[p] \in {"none", kind[p]} /\ kind[p] \notin BulkKinds
  BY DEF Accounted, BooksInvariant, ServiceOfKind, Settling, BulkKinds

LEMMA Outcomes ==
    /\ Outcome("post") = "posted"
    /\ Outcome("cancel") = "cancelled"
    /\ Outcome("delete") = "none"
  BY DEF Outcome

LEMMA SettlingWrite ==
    ASSUME Accounted, NEW p \in Requests, WriteTransaction(p) \/ DeleteTransaction(p),
           kind[p] \in Settling, pc'[p] \in {"apply", "adjust", "end"}
    PROVE  Carried(p)'
  <1>1. IInv /\ BooksInvariant /\ Typed /\ op[p] = kind[p] /\ pc[p] = "write" /\ kind' = kind
    BY SettlingService DEF Accounted, IInv, WriteTransaction, DeleteTransaction
  <1>2. PICK t \in TxIds : t = tgt[p]
    BY DEF WriteTransaction, DeleteTransaction, Accounted, IInv, Typed, Targeted
  <1>3. /\ TxRowFree(p, t) /\ Unchanged(VisibleTx(p, t), seen[p])
        /\ tgt' = tgt /\ txLock'[t] = p
        /\ txDraft'[t] = IF op[p] = "delete" THEN NoRow ELSE row[p]
    BY <1>1, <1>2 DEF WriteTransaction, DeleteTransaction, Typed, TypeOK
  <1>4. t \in minted /\ (\A q \in Requests : Creating(q) => tgt[q] # t) /\ Exists(txns[t])
    BY <1>1, <1>2, <1>3, UnchangedTx, ChangedRowExists
  <1>5. Established(t)'
    <2>1. Established(t)
      BY <1>4 DEF Established
    <2> QED
      BY <2>1, EstablishedStays DEF Progress, Write
  <1>6. txDraft'[t].status = Outcome(kind[p])
    <2>1. seen[p] \in TransactionRow
      BY <1>1 DEF Typed, TypeOK
    <2>2. /\ op[p] = "post" => row[p] = Post(seen[p], now[p])
          /\ op[p] = "cancel" => row[p] = Cancel(seen[p], now[p])
      BY <1>1 DEF IInv, LedgerInvariant, Prepared
    <2>3. CASE op[p] = "post"
      BY <1>1, <1>3, <2>1, <2>2, <2>3, Outcomes DEF Post, TransactionRow
    <2>4. CASE op[p] = "cancel"
      BY <1>1, <1>3, <2>1, <2>2, <2>4, Outcomes DEF Cancel, TransactionRow
    <2>5. CASE op[p] = "delete"
      <3>1. txDraft'[t] = NoRow
        BY <1>3, <2>5
      <3>2. Outcome(kind[p]) = "none"
        BY <1>1, <2>5, Outcomes
      <3> QED
        BY <3>1, <3>2 DEF NoRow
    <2>6. op[p] \in {"post", "cancel", "delete"}
      BY <1>1 DEF Settling
    <2> QED
      BY <2>3, <2>4, <2>5, <2>6
  <1> QED
    BY <1>1, <1>2, <1>3, <1>5, <1>6 DEF Carried

LEMMA CarriedStays ==
    ASSUME Accounted, NEW p \in Requests, Start(p) \/ Progress(p) \/ Abort(p),
           NEW q \in Requests, Carried(q)
    PROVE  Carried(q)'
  <1> SUFFICES ASSUME kind'[q] \in Settling, pc'[q] \in {"apply", "adjust", "end"}
               PROVE  Carried(q)'
    BY DEF Carried
  <1>1. Typed /\ IInv /\ BooksInvariant
    BY DEF Accounted, IInv
  <1>2. /\ OnlyLocalsOf(p) /\ kind' = kind /\ \A t \in TxIds : TxStep(p, t)
    BY <1>1, CreatorsOfStep, TablesOfStep
  <1>3. CASE pc[q] \in {"apply", "adjust", "end"} /\ tgt'[q] = tgt[q]
             /\ txLock'[tgt[q]] = q /\ txDraft'[tgt[q]] = txDraft[tgt[q]]
    BY <1>2, <1>3, EstablishedStays DEF Carried
  <1>4. CASE q # p
    <2>1. pc[q] \in {"apply", "adjust", "end"} /\ tgt'[q] = tgt[q]
      BY <1>2, <1>4 DEF OnlyLocalsOf
    <2>2. txLock[tgt[q]] = q /\ tgt[q] \in TxIds /\ Established(tgt[q])
      BY <1>2, <2>1 DEF Carried
    <2>3. ~(pc[p] = "insert" /\ tgt[p] = tgt[q])
      BY <1>1, <2>2 DEF Established, Creating, Applying, Adjusts, IInv, LedgerInvariant
    <2>4. txLock'[tgt[q]] = q /\ txDraft'[tgt[q]] = txDraft[tgt[q]]
      BY <1>2, <1>4, <2>2, <2>3, LedgerAssumption DEF TxStep, TxRowFree
    <2> QED
      BY <1>3, <2>1, <2>4
  <1>5. CASE q = p
    <2>1. op[p] \in {"none", kind[p]} /\ kind[p] \in Settling /\ kind[p] \notin BulkKinds
      BY <1>2, <1>5, SettlingService
    <2>2. CASE WriteTransaction(p) \/ DeleteTransaction(p)
      BY <1>5, <2>1, <2>2, SettlingWrite
    <2>3. CASE ReadAccount(p) \/ AdjustAccount(p)
      <3>1. pc[p] \in {"apply", "adjust"} /\ UNCHANGED <<txTable, tgt>>
        BY <2>3 DEF ReadAccount, AdjustAccount, tableVars, txTable
      <3>2. txLock[tgt[p]] = p
        BY <1>5, <2>1, <3>1 DEF Carried
      <3> QED
        BY <1>3, <1>5, <3>1, <3>2 DEF txTable
    <2>4. CASE Start(p) \/ Find(p)
      BY <1>5, <2>1, <2>4
      DEF Start, StartCreate, StartTimed, StartUntimed, StartBulkPatch, Find, FindForPost,
          FindForCancel, FindForPatch, FindForDelete, FindForDuplicate, Fail, Found,
          Settling, BulkKinds, Typed, TypeOK, Accounted, IInv
    <2>5. CASE InsertTransaction(p)
      BY <1>1, <2>1, <2>5
      DEF InsertTransaction, Adjusts, Applying, IInv, LedgerInvariant, Settling
    <2>6. CASE BulkStatus(p)
      BY <1>1, <2>1, <2>6 DEF BulkStatus, BooksInvariant, ServiceOfKind, Settling
    <2>7. CASE AccountRequest(p) \/ Commit(p) \/ Rollback(p) \/ DeadlockVictim(p) \/ Abort(p)
      BY <1>1, <1>5, <2>7
      DEF AccountRequest, FindAccount, WriteAccount, Commit, Rollback, DeadlockVictim, Abort,
          Discard, Return, Typed, TypeOK
    <2> QED
      BY <2>2, <2>3, <2>4, <2>5, <2>6, <2>7 DEF Progress, Write
  <1> QED
    BY <1>4, <1>5

\* What a step of p does to ids and readers.
LEMMA ReadersOfStep ==
    ASSUME Typed, NEW p \in Requests, Start(p) \/ Progress(p) \/ Abort(p)
    PROVE  /\ minted' # minted => UNCHANGED txTable /\ pc'[p] # "write"
           /\ pc'[p] = "write" => tgt'[p] = tgt[p] /\ seen'[p] = VisibleTx(p, tgt[p])
  <1>1. CASE Start(p)
    BY <1>1 DEF Start, StartCreate, StartTimed, StartUntimed, StartBulkPatch, Apply, tableVars,
                txTable, Typed, TypeOK
  <1>2. CASE Find(p)
    BY <1>2 DEF Find, FindForPost, FindForCancel, FindForPatch, FindForDelete,
                FindForDuplicate, Fail, Found, Apply, tableVars, txTable, Typed, TypeOK
  <1>3. CASE WriteTransaction(p) \/ DeleteTransaction(p) \/ InsertTransaction(p) \/ BulkStatus(p)
    BY <1>3 DEF WriteTransaction, DeleteTransaction, InsertTransaction, BulkStatus, Apply,
                Typed, TypeOK
  <1>4. CASE ReadAccount(p) \/ AdjustAccount(p) \/ AccountRequest(p)
    BY <1>4 DEF ReadAccount, AdjustAccount, AccountRequest, FindAccount, WriteAccount, Apply,
                Return, Typed, TypeOK
  <1>5. CASE Commit(p) \/ Discard(p)
    BY <1>5 DEF Commit, Discard, Return, Typed, TypeOK
  <1> QED
    BY <1>1, <1>2, <1>3, <1>4, <1>5 DEF Progress, Write, Rollback, DeadlockVictim, Abort

LEMMA HiddenStays ==
    ASSUME Accounted, Accounted', NEW p \in Requests, Start(p) \/ Progress(p) \/ Abort(p),
           NEW q \in Requests, kind[q] \in Creators, NEW t \in TxIds, Hidden(q, t),
           q = p => txns'[t] = txns[t]
    PROVE  Hidden(q, t)'
  <1>1. Typed /\ IInv /\ BooksInvariant
    BY DEF Accounted, IInv
  <1>2. /\ OnlyLocalsOf(p) /\ kind' = kind /\ minted \subseteq minted'
        /\ Creating(p)' => \/ tgt'[p] \notin minted
                           \/ Creating(p) /\ tgt'[p] = tgt[p]
        /\ TxStep(p, t)
    BY <1>1, CreatorsOfStep, TablesOfStep
  <1>3. pc[p] = "insert" /\ tgt[p] = t => p = q
    BY <1>1 DEF Hidden, Creating, Applying, Adjusts, IInv, LedgerInvariant
  <1>4. ~(pc[p] = "write" /\ tgt[p] = t)
    BY DEF Hidden, ReadsTx
  <1>5. txns'[t] = NoRow /\ txLock'[t] \in {Free, q}
    BY <1>2, <1>3, <1>4, LedgerAssumption DEF TxStep, Hidden
  <1>6. ~ReadsTx(p, t)'
    <2> SUFFICES ASSUME pc'[p] = "write", tgt'[p] = t PROVE FALSE
      BY DEF ReadsTx
    <2>1. Exists(seen'[p]) /\ op'[p] \in {"post", "cancel", "patch", "delete"}
      BY DEF Accounted, IInv, LedgerInvariant, Prepared
    <2>2. Exists(VisibleTx(p, t))
      BY <1>1, <2>1, ReadersOfStep DEF Exists
    <2>3. CASE p = q
      BY <1>2, <2>1, <2>3 DEF Accounted, BooksInvariant, ServiceOfKind, Creators
    <2>4. CASE p # q
      BY <2>2, <2>4, LedgerAssumption DEF VisibleTx, Hidden, Exists, NoRow
    <2> QED
      BY <2>3, <2>4
  <1>7. \A r \in Requests : ~ReadsTx(r, t)'
    BY <1>2, <1>6, OthersStay DEF Hidden
  <1>8. ASSUME NEW r \in Requests, r # q, Creating(r)' PROVE tgt'[r] # t
    <2>1. CASE r = p
      BY <1>2, <1>8, <2>1 DEF Hidden
    <2>2. CASE r # p
      <3>1. Creating(r) /\ tgt'[r] = tgt[r]
        BY <1>2, <1>8, <2>2, OthersStay DEF OnlyLocalsOf
      <3> QED
        BY <1>8, <3>1 DEF Hidden
    <2> QED
      BY <2>1, <2>2
  <1> QED
    BY <1>2, <1>5, <1>7, <1>8 DEF Hidden

LEMMA NewIdsHidden ==
    ASSUME Accounted, NEW p \in Requests, Start(p) \/ Progress(p) \/ Abort(p),
           NEW t \in minted' \ minted, t \in TxIds
    PROVE  Hidden(p, t)'
  <1>1. Typed /\ IInv /\ BooksInvariant
    BY DEF Accounted, IInv
  <1>2. UNCHANGED txTable /\ pc'[p] # "write" /\ OnlyLocalsOf(p)
    BY <1>1, ReadersOfStep, CreatorsOfStep
  <1>3. Unused(t)
    BY <1>1 DEF IdsAreFresh, IInv, LedgerInvariant
  <1>4. \A r \in Requests : ~ReadsTx(r, t)'
    BY <1>2, <1>3, OthersStay DEF Unused, ReadsTx
  <1>5. ASSUME NEW r \in Requests, r # p, Creating(r)' PROVE tgt'[r] # t
    BY <1>1, <1>2, <1>5, OthersStay DEF OnlyLocalsOf, IdsAreFresh, IInv, LedgerInvariant
  <1> QED
    BY <1>2, <1>3, <1>4, <1>5 DEF Hidden, Unused, txTable

\* No handler takes an error for a success or answers a success with a refusal.
LEMMA HandlerCodes ==
    ASSUME NEW p \in Requests, kind[p] \in AllKinds
    PROVE  /\ \A code \in Handler(p).refused \cup Handler(p).broken :
                 code \in Refusals \cup {"500"} /\ code \notin Successes
           /\ Handler(p).success \in Successes /\ Handler(p).success \notin Refusals
           /\ \A e \in Errors : /\ Handler(p).failure[e] \in Refusals \cup {"500"}
                               /\ Handler(p).failure[e] \notin Successes
  <1> DEFINE Failures == {"400", "401", "404", "409", "413", "422", "500"}
             Good(h) == /\ h.refused \cup h.broken \subseteq Failures
                        /\ h.success \in Successes
                        /\ \A e \in Errors : h.failure[e] \in Failures
  <1>1. \A code \in Failures : code \in Refusals \cup {"500"} /\ code \notin Successes
    BY DEF Successes, Refusals
  <1>2. \A e \in Errors : /\ WithRules[e] \in Failures
                          /\ WithoutRules[e] \in Failures
                          /\ AccountRules[e] \in Failures
    <2>1. \A e \in Errors : WithRules[e] \in {"404", "409", "422", "500"}
      BY DEF WithRules
    <2>2. \A e \in Errors : WithoutRules[e] \in {"500", WithRules[e]}
      BY DEF WithoutRules, WithRules
    <2>3. \A e \in Errors : AccountRules[e] \in {"409", "500"}
      BY DEF AccountRules
    <2> QED
      BY <2>1, <2>2, <2>3
  <1>3. /\ NewAuthMiddleware \cup StrictDetectNullFields \cup {"409"} \cup BeforeAccount
              \cup BeforeHandler \cup {"409", "500"} \subseteq Failures
        /\ "200" \in Successes /\ "201" \in Successes /\ "204" \in Successes
    BY DEF NewAuthMiddleware, StrictDetectNullFields, BeforeAccount, BeforeHandler, Validate,
           CaptureRawRequestBody, NoSuchAccount, Successes
  <1>4. Good(CreateOne) /\ Good(DeleteOne) /\ Good(PostOne) /\ Good(CancelOne)
    BY <1>2, <1>3 DEF CreateOne, DeleteOne, PostOne, CancelOne, Endpoint
  <1>5. Good(CreateMany) /\ Good(PatchMany) /\ Good(DuplicateOne) /\ Good(PatchOne)
    BY <1>2, <1>3 DEF CreateMany, PatchMany, DuplicateOne, PatchOne, BulkRules, Endpoint
  <1>6. Good(PatchAccount) /\ Good(RestoreAccount) /\ Good(ArchiveAccount)
    BY <1>2, <1>3 DEF PatchAccount, RestoreAccount, ArchiveAccount, Endpoint
  <1>7. Handler(p) \in {CreateOne, PatchOne, DuplicateOne, DeleteOne, PostOne, CancelOne,
                        CreateMany, PatchMany, PatchAccount, ArchiveAccount, RestoreAccount}
    BY DEF Handler, AllKinds, ItemKinds, BulkKinds, AccountKinds
  <1>8. \A code \in Successes : code \notin Refusals
    BY DEF Successes, Refusals
  <1> HIDE DEF Failures
  <1>9. Good(Handler(p))
    BY <1>4, <1>5, <1>6, <1>7
  <1> QED
    BY <1>1, <1>8, <1>9

ApiShape ==
    /\ answer = [p \in Requests |-> answer[p]]
    /\ made = [p \in Requests |-> made[p]]
    /\ err = [p \in Requests |-> err[p]]

ApiStep(p) == Refuse(p) \/ Accept(p) \/ Serve(p) \/ Break(p)

\* A success means that the request has committed, a refusal that no row has changed.
AnswerStep(p) ==
    \/ UNCHANGED <<answer, txns>>
    \/ \E code : /\ answer' = [answer EXCEPT ![p] = [code |-> code, tx |-> tgt[p]]]
                 /\ code \in Successes /\ kind[p] \in Settling => Commit(p)
                 /\ code \in Refusals => UNCHANGED txns

LEMMA AnswersOfStep ==
    ASSUME Accounted, NEW p \in Requests, Reported(p), ApiStep(p)
    PROVE  AnswerStep(p)
  <1>0. kind[p] \in AllKinds
    BY DEF Accounted, IInv, Typed, TypeOK
  <1>1. CASE Refuse(p)
    BY <1>0, <1>1, HandlerCodes DEF Refuse, Reply, AnswerStep, vars
  <1>2. CASE Accept(p) \/ Proceed(p)
    <2>1. UNCHANGED txns
      BY <1>2 DEF Accept, Start, StartCreate, StartTimed, StartUntimed, StartBulkPatch, Proceed,
                  Find, FindForPost, FindForCancel, FindForPatch, FindForDelete,
                  FindForDuplicate, Write, WriteTransaction, DeleteTransaction,
                  InsertTransaction, BulkStatus, ReadAccount, AdjustAccount, tableVars, txTable
    <2> QED
      BY <1>2, <2>1 DEF Accept, Proceed, Statement, AnswerStep
  <1>3. CASE Complete(p)
    BY <1>0, <1>3, HandlerCodes DEF Complete, Reply, AnswerStep, Successes, Refusals
  <1>4. CASE Break(p)
    BY <1>0, <1>4, HandlerCodes DEF Break, Abort, DeadlockVictim, Discard, Reply, AnswerStep
  <1>5. CASE ReportError(p)
    <2>1. Reason(p) \in Errors
      BY DEF Reason, Errors, Conflicts
    <2>2. err[p] # "no row" => err[p] \in Errors
      BY <1>5 DEF ReportError, Rollback, Reported
    <2>3. Handler(p).failure[IF err[p] = "no row" THEN Reason(p) ELSE err[p]] \notin Successes
      BY <1>0, <2>1, <2>2, HandlerCodes
    <2> QED
      BY <1>5, <2>3 DEF ReportError, Rollback, Discard, Reply, AnswerStep, Successes
  <1>6. CASE ReadAccountRow(p) \/ WriteAccountRow(p)
    <2>1. kind[p] \notin Settling /\ UNCHANGED txns
      BY <1>6 DEF ReadAccountRow, WriteAccountRow, FindAccount, WriteAccount, tableVars, txTable,
                  Accounted, BooksInvariant, ServiceOfKind, AccountKinds, Settling
    <2> QED
      BY <1>6, <2>1 DEF ReadAccountRow, WriteAccountRow, Reply, AnswerStep
  <1> QED
    BY <1>1, <1>2, <1>3, <1>4, <1>5, <1>6 DEF ApiStep, Serve, PoolClosed

\* The rest of a step of p: one of Ledger, or none.
LEMMA LedgerOfStep ==
    ASSUME Accounted, ApiShape, NEW p \in Requests, ApiStep(p)
    PROVE  /\ ApiShape'
           /\ \A q \in Requests : q # p =>
                 answer'[q] = answer[q] /\ made'[q] = made[q] /\ err'[q] = err[q]
           /\ made'[p] = made[p] \cup (minted' \ minted)
           /\ \/ Start(p) \/ Progress(p) \/ Abort(p)
              \/ Refuse(p) /\ UNCHANGED <<vars, made, err>>
           /\ pc'[p] = "fail" => err'[p] \in ErrorsOf(p) \/ UNCHANGED <<pc, err>>
  <1>1. CASE Refuse(p)
    BY <1>1 DEF Refuse, Reply, ApiShape, vars
  <1>2. CASE Accept(p) \/ Proceed(p)
    BY <1>2 DEF Accept, Proceed, Statement, ApiShape, Progress
  <1>3. CASE Complete(p) \/ Break(p) \/ ReportError(p)
    <2>1. pc'[p] = "done" /\ minted' = minted
      BY <1>3 DEF Complete, Commit, Break, Abort, DeadlockVictim, ReportError, Rollback, Discard,
                  Return, Accounted, IInv, Typed, TypeOK
    <2> QED
      BY <1>3, <2>1 DEF Complete, Break, ReportError, Reply, ApiShape, Progress
  <1>4. CASE ReadAccountRow(p) \/ WriteAccountRow(p)
    <2>1. pc'[p] # "fail" /\ minted' = minted
      BY <1>4 DEF ReadAccountRow, WriteAccountRow, FindAccount, WriteAccount, Return, Accounted,
                  IInv, Typed, TypeOK
    <2> QED
      BY <1>4, <2>1 DEF ReadAccountRow, WriteAccountRow, Reply, ApiShape, Progress, AccountRequest
  <1> QED
    BY <1>1, <1>2, <1>3, <1>4 DEF ApiStep, Serve, PoolClosed

LEMMA ErrorsKnown ==
    ASSUME NEW p \in Requests
    PROVE  ErrorsOf(p) \subseteq Errors \cup {"no row"}
  BY DEF ErrorsOf, Rejection, TransitionError, Errors, Conflicts, BusinessRules, Unknown

ClientInvariant ==
    ApiShape /\ \A p \in Requests : Carried(p) /\ Told(p) /\ Withheld(p) /\ Reported(p)

LEMMA ToldStays ==
    ASSUME Accounted, ClientInvariant, NEW p \in Requests, Start(p) \/ Progress(p) \/ Abort(p),
           AnswerStep(p), kind' = kind,
           \A q \in Requests : q # p => answer'[q] = answer[q],
           NEW q \in Requests
    PROVE  Told(q)'
  <1>1. ASSUME NEW t \in TxIds, Established(t), answer'[q].tx = t,
               kind[q] = "post" => txns[t].status # "planned"
                                   \/ txns'[t].status # "planned",
               kind[q] = "cancel" => txns[t].status \in {"cancelled", "none"}
                                     \/ txns'[t].status \in {"cancelled", "none"},
               kind[q] = "delete" => txns[t].status = "none" \/ txns'[t].status = "none"
        PROVE  Told(q)'
    BY <1>1, EstablishedStays, EstablishedMoves DEF Told, StatusOf
  <1>2. CASE answer'[q] = answer[q]
    <2> SUFFICES ASSUME Succeeded(q), kind[q] \in Settling PROVE Told(q)'
      BY <1>2 DEF Told, Succeeded
    <2>1. Told(q)
      BY DEF ClientInvariant
    <2> QED
      BY <1>1, <1>2, <2>1 DEF Told, StatusOf
  <1>3. CASE answer'[q] # answer[q]
    <2>1. q = p
      BY <1>3
    <2>2. /\ answer'[p].tx = tgt[p]
          /\ Succeeded(p)' /\ kind[p] \in Settling => Commit(p)
      BY <1>3, <2>1 DEF AnswerStep, ClientInvariant, ApiShape, Succeeded
    <2> SUFFICES ASSUME Commit(p), kind[p] \in Settling PROVE Told(q)'
      BY <2>1, <2>2 DEF Told
    <2>3. Carried(p) /\ pc[p] = "end"
      BY DEF ClientInvariant, Commit
    <2>4. /\ tgt[p] \in TxIds /\ Established(tgt[p])
          /\ txns'[tgt[p]].status = Outcome(kind[p])
      BY <2>3 DEF Carried, Commit, VisibleTx
    <2> QED
      BY <1>1, <2>1, <2>2, <2>4 DEF Outcome
  <1> QED
    BY <1>2, <1>3

LEMMA WithheldStays ==
    ASSUME Accounted, Accounted', ClientInvariant, NEW p \in Requests,
           Start(p) \/ Progress(p) \/ Abort(p), AnswerStep(p),
           \A q \in Requests : q # p => answer'[q] = answer[q] /\ made'[q] = made[q],
           made'[p] = made[p] \cup (minted' \ minted),
           NEW q \in Requests
    PROVE  Withheld(q)'
  <1>1. /\ OnlyLocalsOf(p) /\ kind' = kind /\ pc[p] # "done"
        /\ minted' # minted => kind[p] \in Creators
        /\ minted \subseteq TxIds /\ minted' \subseteq TxIds
    BY CreatorsOfStep DEF Accounted, IInv, Typed, TypeOK
  <1>2. Withheld(q)
    BY DEF ClientInvariant
  <1>3. made'[q] # {} => kind'[q] \in Creators
    BY <1>1, <1>2 DEF Withheld
  <1>4. ASSUME pc'[q] # "done" \/ Refused(q)', NEW t \in made'[q] PROVE Hidden(q, t)'
    <2>1. CASE t \in made[q]
      <3>1. pc[q] # "done" \/ Refused(q)
        BY <1>1, <1>4 DEF OnlyLocalsOf, Refused
      <3>2. Hidden(q, t) /\ t \in TxIds /\ kind[q] \in Creators
        BY <1>1, <1>2, <2>1, <3>1 DEF Withheld, Hidden
      <3>3. q = p => txns'[t] = txns[t]
        <4>1. UNCHANGED txns \/ ~Refused(p)'
          BY DEF AnswerStep, ClientInvariant, ApiShape, Refused
        <4>2. pc'[p] # "done" => txns'[t] = txns[t]
          BY <3>2, TablesOfStep DEF TxStep, Accounted, IInv
        <4> QED
          BY <1>4, <4>1, <4>2
      <3> QED
        BY <3>2, <3>3, HiddenStays
    <2>2. CASE t \notin made[q]
      <3>1. q = p /\ t \in minted' \ minted
        BY <1>4, <2>2
      <3> QED
        BY <1>1, <3>1, NewIdsHidden
    <2> QED
      BY <2>1, <2>2
  <1> QED
    BY <1>3, <1>4 DEF Withheld

LEMMA ClientsStay ==
    ASSUME Accounted, Accounted', ClientInvariant, NEW p \in Requests, ApiStep(p)
    PROVE  ClientInvariant'
  <1>1. /\ ApiShape /\ Reported(p) /\ AnswerStep(p)
        /\ \A q \in Requests : Carried(q) /\ Told(q) /\ Withheld(q) /\ Reported(q)
    BY AnswersOfStep DEF ClientInvariant
  <1>2. /\ ApiShape'
        /\ \A q \in Requests : q # p =>
              answer'[q] = answer[q] /\ made'[q] = made[q] /\ err'[q] = err[q]
        /\ made'[p] = made[p] \cup (minted' \ minted)
        /\ pc'[p] = "fail" => err'[p] \in ErrorsOf(p) \/ UNCHANGED <<pc, err>>
    BY <1>1, LedgerOfStep
  <1>3. CASE Start(p) \/ Progress(p) \/ Abort(p)
    <2>1. OnlyLocalsOf(p) /\ kind' = kind
      BY <1>3, CreatorsOfStep DEF Accounted, IInv
    <2>2. ASSUME NEW q \in Requests PROVE Reported(q)'
      <3>1. CASE q = p
        BY <1>1, <1>2, <3>1, ErrorsKnown DEF Reported
      <3>2. CASE q # p
        BY <1>1, <1>2, <2>1, <3>2 DEF Reported, OnlyLocalsOf
      <3> QED
        BY <3>1, <3>2
    <2>3. \A q \in Requests : Carried(q)'
      BY <1>1, <1>3, CarriedStays
    <2>4. \A q \in Requests : Told(q)'
      BY <1>1, <1>2, <1>3, <2>1, ToldStays
    <2>5. \A q \in Requests : Withheld(q)'
      BY <1>1, <1>2, <1>3, WithheldStays
    <2> QED
      BY <1>2, <2>2, <2>3, <2>4, <2>5 DEF ClientInvariant
  <1>4. CASE Refuse(p) /\ UNCHANGED <<vars, made, err>>
    <2>1. /\ UNCHANGED <<txns, txDraft, txLock, minted, kind, pc, op, tgt, made, err>>
          /\ \A q \in Requests : Creating(q)' <=> Creating(q)
          /\ \A q \in Requests, t \in TxIds : ReadsTx(q, t)' <=> ReadsTx(q, t)
      BY <1>4 DEF vars, Creating, Applying, ReadsTx
    <2>2. \A t : Established(t)' <=> Established(t)
      BY <2>1 DEF Established
    <2>3. \A q \in Requests, t \in TxIds : Hidden(q, t) => Hidden(q, t)'
      BY <2>1 DEF Hidden
    <2>4. /\ pc[p] = "start"
          /\ \E code : /\ answer' = [answer EXCEPT ![p] = [code |-> code, tx |-> tgt[p]]]
                       /\ code \notin Successes
      BY <1>4, HandlerCodes DEF Refuse, Reply, Accounted, IInv, Typed, TypeOK
    <2>5. ~Succeeded(p)'
      BY <1>1, <2>4 DEF ApiShape, Succeeded
    <2>6. ASSUME NEW q \in Requests PROVE Carried(q)' /\ Reported(q)'
      BY <1>1, <2>1, <2>2 DEF Carried, Reported
    <2>7. ASSUME NEW q \in Requests PROVE Told(q)'
      <3>1. CASE q = p
        BY <2>5, <3>1 DEF Told
      <3>2. CASE q # p
        BY <1>1, <1>2, <2>1, <2>2, <3>2 DEF Told, Succeeded, StatusOf
      <3> QED
        BY <3>1, <3>2
    <2>8. ASSUME NEW q \in Requests PROVE Withheld(q)'
      <3>1. pc[q] # "done" \/ Refused(q)' => pc[q] # "done" \/ Refused(q)
        BY <1>2, <2>4 DEF Refused
      <3>2. \A t \in made[q] : Hidden(q, t) => t \in TxIds
        BY DEF Hidden, Accounted, IInv, Typed, TypeOK
      <3> QED
        BY <1>1, <2>1, <2>3, <3>1, <3>2 DEF Withheld
    <2> QED
      BY <1>2, <2>6, <2>7, <2>8 DEF ClientInvariant
  <1> QED
    BY <1>1, <1>3, <1>4, LedgerOfStep

LEMMA InitClient == ApiInit => ClientInvariant
  <1> SUFFICES ASSUME ApiInit PROVE ClientInvariant
    OBVIOUS
  <1>1. \A p \in Requests : pc[p] = "start" /\ made[p] = {} /\ answer[p] = NoAnswer
    BY DEF ApiInit, Init, InitRequests
  <1>2. ApiShape
    BY DEF ApiInit, ApiShape
  <1>3. ASSUME NEW p \in Requests PROVE Told(p) /\ Withheld(p)
    <2>1. ~Succeeded(p)
      BY <1>1 DEF Succeeded, Successes, NoAnswer
    <2> QED
      BY <1>1, <2>1 DEF Told, Withheld
  <1>4. ASSUME NEW p \in Requests PROVE Carried(p) /\ Reported(p)
    BY <1>1 DEF Carried, Reported
  <1> QED
    BY <1>2, <1>3, <1>4 DEF ClientInvariant

LEMMA UnchangedClient ==
    ASSUME ClientInvariant, UNCHANGED <<vars, made, err, answer>>
    PROVE  ClientInvariant'
  <1>1. /\ UNCHANGED <<txns, txDraft, txLock, minted, kind, pc, op, tgt, made, err, answer>>
        /\ \A q \in Requests : Creating(q)' <=> Creating(q)
        /\ \A q \in Requests : \A t : ReadsTx(q, t)' <=> ReadsTx(q, t)
    BY DEF vars, Creating, Applying, ReadsTx
  <1>2. \A t : Established(t)' <=> Established(t)
    BY <1>1 DEF Established
  <1>3. \A q \in Requests : \A t : Hidden(q, t)' <=> Hidden(q, t)
    BY <1>1 DEF Hidden
  <1>4. ApiShape'
    BY <1>1 DEF ClientInvariant, ApiShape
  <1>5. ASSUME NEW q \in Requests PROVE Carried(q)' /\ Reported(q)'
    BY <1>1, <1>2 DEF ClientInvariant, Carried, Reported
  <1>6. ASSUME NEW q \in Requests PROVE Told(q)'
    BY <1>1, <1>2 DEF ClientInvariant, Told, Succeeded, StatusOf
  <1>7. ASSUME NEW q \in Requests PROVE Withheld(q)'
    BY <1>1, <1>3 DEF ClientInvariant, Withheld, Refused
  <1> QED
    BY <1>4, <1>5, <1>6, <1>7 DEF ClientInvariant

\* What a client was told stays true, for any number of requests of every endpoint, lost
\* answers and a shutdown at any time included, provided no two clock readings are the
\* same: a transaction reported posted, cancelled or deleted is never found before that
\* again, and a refused creation has left no row.
THEOREM AnswersAreKept ==
    ASSUME ClockAdvances
    PROVE  ApiSpec => []AnswersHold
  <1> DEFINE Inv == Accounted /\ ClientInvariant
  <1>1. ApiInit => Inv
    BY AccountedStays, InitClient DEF ApiInit
  <1>2. Inv /\ [ApiNext]_<<vars, apiVars>> => Inv'
    <2> SUFFICES ASSUME Inv, [ApiNext]_<<vars, apiVars>> PROVE Inv'
      OBVIOUS
    <2>1. Accounted'
      BY AccountedStays, ApiStepsAreSteps
    <2>2. CASE UNCHANGED <<vars, made, err, answer>>
      BY <2>1, <2>2, UnchangedClient
    <2>3. CASE \E p \in Requests : ApiStep(p)
      BY <2>1, <2>3, ClientsStay
    <2> QED
      BY <2>2, <2>3 DEF ApiNext, ApiStep, apiVars, Signal, Stop, Drained, DrainTimeout, Exit, Idle
  <1>3. Inv => AnswersHold
    <2> SUFFICES ASSUME ClientInvariant, NEW p \in Requests
                 PROVE  /\ Succeeded(p) /\ kind[p] = "post" => StatusOf(p) # "planned"
                        /\ Succeeded(p) /\ kind[p] = "cancel"
                              => StatusOf(p) \in {"cancelled", "none"}
                        /\ Succeeded(p) /\ kind[p] = "delete" => StatusOf(p) = "none"
                        /\ Refused(p) => \A t \in made[p] : ~Exists(txns[t])
      BY DEF AnswersHold
    <2>1. Told(p) /\ Withheld(p)
      BY DEF ClientInvariant
    <2> QED
      BY <2>1 DEF Told, Withheld, Hidden, Settling, Exists, NoRow
  <1> QED
    BY <1>1, <1>2, <1>3, PTL DEF ApiSpec

----------------------------------------------------------------------------
(***************************************************************************)
(* Every request returns: somebody can always carry on, and each step      *)
(* takes a request nearer to its end. (That it takes these steps is a      *)
(* matter of fairness.)                                                    *)
(***************************************************************************)
LEMMA StepKeepsOthers ==
    ASSUME Typed, NEW p \in Requests, Start(p) \/ Progress(p) \/ Abort(p)
    PROVE  /\ OnlyLocalsOf(p)
           /\ \A q \in Requests \ {p} : count'[q] = count[q]
           /\ pc[p] # "done"
  <1>1. CASE Start(p)
    BY <1>1 DEF Start, StartCreate, StartTimed, StartUntimed, StartBulkPatch, MayStart, Apply,
                ReadClock, OnlyLocalsOf, Typed, TypeOK
  <1>2. CASE Find(p)
    BY <1>2 DEF Find, FindForPost, FindForCancel, FindForPatch, FindForDelete,
                FindForDuplicate, Fail, Found, Apply, ReadClock, OnlyLocalsOf, Typed, TypeOK
  <1>3. CASE WriteTransaction(p) \/ DeleteTransaction(p) \/ InsertTransaction(p) \/ BulkStatus(p)
    BY <1>3 DEF WriteTransaction, DeleteTransaction, InsertTransaction, BulkStatus, Apply,
                ReadClock, OnlyLocalsOf, Typed, TypeOK
  <1>4. CASE ReadAccount(p) \/ AdjustAccount(p)
    BY <1>4 DEF ReadAccount, AdjustAccount, Apply, OnlyLocalsOf, Typed, TypeOK
  <1>5. CASE AccountRequest(p)
    BY <1>5 DEF AccountRequest, FindAccount, WriteAccount, Return, ReadClock, OnlyLocalsOf,
                Typed, TypeOK
  <1>6. CASE Commit(p) \/ Rollback(p) \/ DeadlockVictim(p) \/ Abort(p)
    <2>1. OnlyLocalsOf(p) /\ \A q \in Requests \ {p} : count'[q] = count[q]
      BY <1>6 DEF Commit, Rollback, DeadlockVictim, Abort, Discard, Return, OnlyLocalsOf,
                  Typed, TypeOK
    <2>2. pc[p] # "done"
      BY <1>6 DEF Commit, Rollback, DeadlockVictim, Abort, Running, OnCycle, Circle, WaitsFor
    <2> QED
      BY <2>1, <2>2
  <1> QED
    BY <1>1, <1>2, <1>3, <1>4, <1>5, <1>6 DEF Progress, Write

\* A transaction has two accounts at most.
LEMMA FewAccounts ==
    ASSUME NEW x, NEW y, NEW S \in SUBSET {x, y}
    PROVE  IsFiniteSet(S) /\ Cardinality(S) \in 0..2
  <1>1. IsFiniteSet({x}) /\ Cardinality({x}) = 1
    BY FS_Singleton
  <1>2. IsFiniteSet({x} \cup {y}) /\ Cardinality({x} \cup {y}) \in 1..2
    BY <1>1, FS_AddElement
  <1>3. {x, y} = {x} \cup {y}
    OBVIOUS
  <1>4. IsFiniteSet(S) /\ Cardinality(S) <= Cardinality({x, y}) /\ Cardinality({x, y}) \in 1..2
    BY <1>2, <1>3, FS_Subset
  <1>5. Cardinality(S) \in Nat
    BY <1>4, FS_CardinalityType
  <1> QED
    BY <1>4, <1>5

LEMMA AffectedAreFew ==
    ASSUME NEW r \in TransactionRow
    PROVE  Affected(r) \subseteq {r.from, r.to}
  <1> SUFFICES ASSUME NEW a \in Accounts, a # r.from, a # r.to
               PROVE  Delta(r, a) = 0
    BY DEF Affected
  <1> QED
    BY DEF Delta, Incoming, Outgoing

LEMMA StepsAreFew ==
    ASSUME Typed, NEW p \in Requests, ItemsCounted(p)
    PROVE  /\ StepsOfItem(p) \in 1..LongestItem
           /\ pc[p] \in {"apply", "adjust"} => Cardinality(todo[p]) \in 0..2
  <1>1. pc[p] \in {"apply", "adjust"} => Cardinality(todo[p]) \in 0..2
    BY FewAccounts DEF ItemsCounted
  <1>2. CASE pc[p] \notin {"apply", "adjust"}
    BY <1>2 DEF StepsOfItem, LongestItem
  <1>3. CASE pc[p] = "apply"
    BY <1>1, <1>3 DEF StepsOfItem, LongestItem
  <1>4. CASE pc[p] = "adjust"
    BY <1>1, <1>4 DEF StepsOfItem, LongestItem
  <1> QED
    BY <1>1, <1>2, <1>3, <1>4

\* What a step does to the steps that are left: it begins an item, or goes on with it, or
\* is the last.
Advances(p) ==
    \/ MayStart(p) /\ count'[p] = count[p] + 1 /\ pc'[p] # "done"
    \/ count'[p] = count[p] /\ StepsOfItem(p)' < StepsOfItem(p) /\ pc'[p] # "done"
    \/ count'[p] = 0 /\ pc'[p] = "done"

LEMMA StartAdvances ==
    ASSUME Typed, NEW p \in Requests, ItemsCounted(p), Start(p)
    PROVE  ItemsCounted(p)' /\ Advances(p)
  <1>1. MayStart(p) /\ count'[p] = count[p] + 1 /\ pc'[p] \in {"find", "fail", "insert", "apply"}
    BY DEF Start, StartCreate, StartTimed, StartUntimed, StartBulkPatch, Apply, Typed, TypeOK
  <1>2. count[p] + 1 <= MaxItems
    BY LedgerAssumption DEF MayStart, ItemsCounted, Start, StartCreate, StartTimed, StartUntimed,
       StartBulkPatch, Typed, TypeOK
  <1>3. pc'[p] = "apply" => todo'[p] \subseteq {row'[p].from, row'[p].to}
    <2> SUFFICES ASSUME pc'[p] = "apply" PROVE todo'[p] \subseteq {row'[p].from, row'[p].to}
      OBVIOUS
    <2>1. PICK n \in Readings, s \in Shapes, status \in {"planned", "posted"} :
             /\ row'[p] = Row(s, status, n)
             /\ todo'[p] \subseteq Affected(s)
      BY DEF Start, StartCreate, StartTimed, StartUntimed, StartBulkPatch, Apply, Typed, TypeOK
    <2>2. s \in Shape /\ n \in Nat
      BY LedgerAssumption, ReadingType DEF Typed
    <2>3. Affected(s) \subseteq {s.from, s.to} /\ row'[p].from = s.from /\ row'[p].to = s.to
      BY <2>1, <2>2 DEF Affected, Delta, Incoming, Outgoing, Row
    <2> QED
      BY <2>1, <2>3
  <1> QED
    BY <1>1, <1>2, <1>3 DEF ItemsCounted, Advances


LEMMA FindAdvances ==
    ASSUME Typed, NEW p \in Requests, ItemsCounted(p), Find(p)
    PROVE  ItemsCounted(p)' /\ Advances(p)
  <1>1. CASE FindForDuplicate(p) /\ pc'[p] # "fail"
    <2>1. PICK status \in {"planned", "posted"} :
             /\ row'[p] = Row(VisibleTx(p, tgt[p]), status, now[p])
             /\ todo'[p] \subseteq Affected(VisibleTx(p, tgt[p]))
             /\ todo'[p] = {} => pc'[p] = "insert"
             /\ todo'[p] # {} => pc'[p] = "apply"
      BY <1>1 DEF FindForDuplicate, Fail, Apply, Typed, TypeOK
    <2>2. VisibleTx(p, tgt[p]) \in TransactionRow
      BY <1>1, VisibleTxType DEF FindForDuplicate, Typed, Targeted
    <2>3. todo'[p] \subseteq {row'[p].from, row'[p].to}
      BY <2>1, <2>2, AffectedAreFew DEF Row
    <2>4. pc[p] = "find" /\ op[p] = "duplicate" /\ count'[p] = count[p]
      BY <1>1 DEF FindForDuplicate
    <2>5. ItemsCounted(p)'
      BY <2>1, <2>3, <2>4 DEF ItemsCounted
    <2>6. Typed' /\ StepsOfItem(p)' < 8
      <3>1. Cardinality(todo[p])' \in 0..2
        BY <2>3, FewAccounts
      <3>2. CASE pc'[p] = "insert"
        BY <3>2, FindTyped DEF StepsOfItem
      <3>3. CASE pc'[p] = "apply"
        BY <3>1, <3>3, FindTyped DEF StepsOfItem
      <3> QED
        BY <2>1, <3>2, <3>3
    <2>7. StepsOfItem(p) = 8
      BY <2>4 DEF StepsOfItem
    <2> QED
      BY <2>1, <2>4, <2>5, <2>6, <2>7 DEF Advances
  <1>2. CASE ~(FindForDuplicate(p) /\ pc'[p] # "fail")
    <2>1. /\ pc[p] = "find" /\ pc'[p] \in {"write", "fail"} /\ count'[p] = count[p]
          /\ op'[p] = op[p]
      BY <1>2 DEF Find, FindForPost, FindForCancel, FindForPatch, FindForDelete,
                  FindForDuplicate, Fail, Found, Typed, TypeOK
    <2>2. ItemsCounted(p)'
      BY <2>1 DEF ItemsCounted
    <2>3. StepsOfItem(p)' < StepsOfItem(p)
      BY <2>1 DEF StepsOfItem
    <2> QED
      BY <2>1, <2>2, <2>3 DEF Advances
  <1> QED
    BY <1>1, <1>2

LEMMA WriteAdvances ==
    ASSUME Typed, NEW p \in Requests, ItemsCounted(p), Write(p)
    PROVE  ItemsCounted(p)' /\ Advances(p)
  <1>1. CASE WriteTransaction(p)
    <2>1. /\ pc[p] = "write" /\ op[p] \in {"post", "cancel", "patch"}
          /\ UNCHANGED <<count, op, row>>
          /\ \/ pc'[p] \in {"fail", "end"}
             \/ pc'[p] = "status" /\ op[p] = "patch"
             \/ /\ pc'[p] = "apply" /\ op[p] # "patch"
                /\ todo'[p] \subseteq Affected(row[p])
      BY <1>1 DEF WriteTransaction, Apply, Typed, TypeOK
    <2>2. pc'[p] = "apply" => todo'[p] \subseteq {row'[p].from, row'[p].to}
      BY <2>1, AffectedAreFew DEF Typed, TypeOK
    <2>3. ItemsCounted(p)'
      BY <2>1, <2>2 DEF ItemsCounted
    <2>4. pc'[p] = "apply" => Cardinality(todo[p])' \in 0..2
      BY <2>2, FewAccounts
    <2>5. StepsOfItem(p) = IF op[p] = "patch" THEN 10 ELSE 7
      BY <2>1 DEF StepsOfItem
    <2>6. CASE pc'[p] = "apply"
      <3>1. StepsOfItem(p)' \in 2..6
        BY <2>4, <2>6 DEF StepsOfItem
      <3> QED
        BY <2>1, <2>3, <2>5, <2>6, <3>1 DEF Advances
    <2>7. CASE pc'[p] # "apply"
      <3>1. StepsOfItem(p)' = IF pc'[p] = "status" THEN 9 ELSE 1
        BY <2>1, <2>7 DEF StepsOfItem
      <3> QED
        BY <2>1, <2>3, <2>5, <3>1 DEF Advances
    <2> QED
      BY <2>6, <2>7
  <1>2. CASE DeleteTransaction(p) \/ InsertTransaction(p) \/ BulkStatus(p)
    <2>1. /\ count'[p] = count[p]
          /\ \/ pc[p] \in {"write", "insert", "status"} /\ pc'[p] \in {"fail", "end"}
             \/ pc[p] = "status" /\ pc'[p] = "find" /\ op'[p] \in {"post", "cancel"}
      BY <1>2 DEF DeleteTransaction, InsertTransaction, BulkStatus, Typed, TypeOK
    <2>2. StepsOfItem(p)' < StepsOfItem(p)
      BY <2>1 DEF StepsOfItem
    <2> QED
      BY <2>1, <2>2 DEF ItemsCounted, Advances
  <1>3. CASE ReadAccount(p)
    <2>1. /\ pc[p] = "apply" /\ pc'[p] = "adjust" /\ UNCHANGED <<count, todo, row>>
          /\ acct'[p] \in todo[p]
      BY <1>3 DEF ReadAccount, NextAccount, Typed, TypeOK
    <2>2. ItemsCounted(p)'
      BY <2>1 DEF ItemsCounted
    <2>3. Cardinality(todo[p]) \in 0..2
      BY <2>1, StepsAreFew
    <2>4. StepsOfItem(p) = 2 * Cardinality(todo[p]) + 2
      BY <2>1 DEF StepsOfItem
    <2>5. StepsOfItem(p)' = 2 * Cardinality(todo[p]) + 1
      BY <2>1 DEF StepsOfItem
    <2>6. StepsOfItem(p)' < StepsOfItem(p)
      BY <2>3, <2>4, <2>5
    <2> QED
      BY <2>1, <2>2, <2>6 DEF Advances
  <1>4. CASE AdjustAccount(p)
    <2>1. /\ pc[p] = "adjust" /\ UNCHANGED <<count, row>>
          /\ \/ pc'[p] \in {"fail", "end"}
             \/ pc'[p] = "insert" /\ todo'[p] = {}
             \/ pc'[p] = "apply" /\ todo'[p] = todo[p] \ {acct[p]}
      BY <1>4 DEF AdjustAccount, Apply, Typed, TypeOK
    <2>2. acct[p] \in todo[p] /\ todo[p] \in SUBSET {row[p].from, row[p].to}
      BY <2>1 DEF ItemsCounted
    <2>3. ItemsCounted(p)'
      BY <2>1, <2>2 DEF ItemsCounted
    <2>4. /\ IsFiniteSet(todo[p]) /\ Cardinality(todo[p]) \in 1..2
          /\ Cardinality(todo[p] \ {acct[p]}) = Cardinality(todo[p]) - 1
      <3>1. IsFiniteSet(todo[p]) /\ Cardinality(todo[p]) \in 0..2
        BY <2>2, FewAccounts
      <3>2. Cardinality(todo[p]) # 0
        BY <2>2, <3>1, FS_EmptySet
      <3>3. Cardinality(todo[p] \ {acct[p]}) = Cardinality(todo[p]) - 1
        BY <2>2, <3>1, FS_RemoveElement, Zenon
      <3> QED
        BY <3>1, <3>2, <3>3
    <2>5. StepsOfItem(p) = 2 * Cardinality(todo[p]) + 1
      BY <2>1 DEF StepsOfItem
    <2>6. StepsOfItem(p)' < StepsOfItem(p)
      <3>1. CASE pc'[p] = "apply"
        <4>1. StepsOfItem(p)' = 2 * Cardinality(todo[p] \ {acct[p]}) + 2
          BY <2>1, <3>1 DEF StepsOfItem
        <4> QED
          BY <2>4, <2>5, <4>1
      <3>2. CASE pc'[p] # "apply"
        <4>1. StepsOfItem(p)' \in 1..2
          BY <2>1, <3>2 DEF StepsOfItem
        <4> QED
          BY <2>4, <2>5, <4>1
      <3> QED
        BY <3>1, <3>2
    <2> QED
      BY <2>1, <2>3, <2>6 DEF Advances
  <1> QED
    BY <1>1, <1>2, <1>3, <1>4 DEF Write

LEMMA EndAdvances ==
    ASSUME Typed, NEW p \in Requests, ItemsCounted(p),
           AccountRequest(p) \/ Commit(p) \/ Discard(p)
    PROVE  ItemsCounted(p)' /\ Advances(p)
  <1>1. CASE Return(p)
    BY <1>1, LedgerAssumption DEF Return, ItemsCounted, Advances, Typed, TypeOK
  <1>2. CASE ~Return(p)
    <2>1. pc[p] = "start" /\ pc'[p] = "awrite" /\ count'[p] = count[p]
      BY <1>2 DEF AccountRequest, FindAccount, WriteAccount, Commit, Discard, Typed, TypeOK
    <2>2. StepsOfItem(p) = 2 /\ StepsOfItem(p)' = 1
      BY <2>1 DEF StepsOfItem
    <2> QED
      BY <2>1, <2>2 DEF ItemsCounted, Advances
  <1> QED
    BY <1>1, <1>2

LEMMA StepAdvances ==
    ASSUME Typed, NEW p \in Requests, ItemsCounted(p), Start(p) \/ Progress(p) \/ Abort(p)
    PROVE  ItemsCounted(p)' /\ Advances(p)
  BY StartAdvances, FindAdvances, WriteAdvances, EndAdvances
  DEF Progress, Rollback, DeadlockVictim, Abort

LEMMA FewAfterwards ==
    ASSUME NEW p \in Requests
    PROVE  (Typed /\ ItemsCounted(p))' => StepsOfItem(p)' \in 1..LongestItem
  <1>1. Typed /\ ItemsCounted(p) => StepsOfItem(p) \in 1..LongestItem
    BY StepsAreFew
  <1>2. (Typed /\ ItemsCounted(p))' => (StepsOfItem(p) \in 1..LongestItem)'
    BY <1>1, PTL
  <1> QED
    BY <1>2 DEF LongestItem

\* Fewer steps are left after each, and never less than none.
LEMMA FewerLeft ==
    ASSUME Typed, Typed', NEW p \in Requests, ItemsCounted(p), ItemsCounted(p)', Advances(p),
           pc[p] # "done"
    PROVE  StepsLeft(p)' \in 0..StepsLeft(p) - 1
  <1>1. /\ count[p] \in Nat /\ count'[p] \in Nat /\ MaxItems \in Nat
        /\ count[p] <= MaxItems /\ count'[p] <= MaxItems
    BY LedgerAssumption DEF Typed, TypeOK, ItemsCounted
  <1>2. StepsOfItem(p) \in 1..11 /\ StepsOfItem(p)' \in 1..11
    BY StepsAreFew, FewAfterwards DEF LongestItem
  <1>3. StepsLeft(p) = 11 * (MaxItems - count[p]) + StepsOfItem(p)
    BY DEF StepsLeft, LongestItem
  <1>4. CASE pc'[p] = "done"
    <2>1. StepsLeft(p)' = 0
      BY <1>4 DEF StepsLeft
    <2> QED
      BY <1>1, <1>2, <1>3, <2>1
  <1>5. CASE pc'[p] # "done"
    <2>1. StepsLeft(p)' = 11 * (MaxItems - count'[p]) + StepsOfItem(p)'
      BY <1>5 DEF StepsLeft, LongestItem
    <2>2. \/ count'[p] = count[p] + 1
          \/ count'[p] = count[p] /\ StepsOfItem(p)' < StepsOfItem(p)
      BY <1>5 DEF Advances
    <2> QED
      BY <1>1, <1>2, <1>3, <2>1, <2>2
  <1> QED
    BY <1>4, <1>5

\* A request takes eleven steps for each of its items at most, and two more, whatever the
\* others do meanwhile: no retry and no wait for a lock makes it go round in circles. Every
\* step of the system is one of these.
THEOREM RequestsAreShort == Spec => NobodyIsDelayed
  <1> DEFINE Inv == Typed /\ \A q \in Requests : ItemsCounted(q)
  <1>1. Init => Inv
    BY InitTyped, LedgerAssumption DEF Init, InitRequests, ItemsCounted
  <1>2. ASSUME Inv, [Next]_vars
        PROVE  /\ Inv'
               /\ UNCHANGED vars \/ \E p \in Requests :
                     /\ StepsLeft(p)' \in 0..StepsLeft(p) - 1
                     /\ \A q \in Requests \ {p} : StepsLeft(q)' = StepsLeft(q)
    <2>1. Typed'
      BY <1>2, StepTyped
    <2>2. CASE UNCHANGED vars
      BY <1>2, <2>1, <2>2 DEF vars, ItemsCounted
    <2>3. ASSUME NEW p \in Requests, Start(p) \/ Progress(p) \/ Abort(p)
          PROVE  /\ \A q \in Requests : ItemsCounted(q)'
                 /\ StepsLeft(p)' \in 0..StepsLeft(p) - 1
                 /\ \A q \in Requests \ {p} : StepsLeft(q)' = StepsLeft(q)
      <3>1. ItemsCounted(p)' /\ Advances(p)
        BY <1>2, <2>3, StepAdvances
      <3>2. /\ OnlyLocalsOf(p) /\ pc[p] # "done"
            /\ \A q \in Requests \ {p} : count'[q] = count[q]
        BY <1>2, <2>3, StepKeepsOthers
      <3>3. StepsLeft(p)' \in 0..StepsLeft(p) - 1
        BY <1>2, <2>1, <3>1, <3>2, FewerLeft
      <3>4. ASSUME NEW q \in Requests \ {p}
            PROVE  ItemsCounted(q)' /\ StepsLeft(q)' = StepsLeft(q)
        <4>1. /\ pc'[q] = pc[q] /\ op'[q] = op[q] /\ todo'[q] = todo[q] /\ row'[q] = row[q]
              /\ acct'[q] = acct[q] /\ count'[q] = count[q]
          BY <3>2 DEF OnlyLocalsOf
        <4>2. StepsOfItem(q)' = StepsOfItem(q)
          BY <4>1 DEF StepsOfItem
        <4> QED
          BY <1>2, <4>1, <4>2 DEF ItemsCounted, StepsLeft
      <3> QED
        BY <3>1, <3>3, <3>4
    <2> QED
      BY <1>2, <2>1, <2>2, <2>3 DEF Next
  <1>3. ASSUME Inv, [Next]_vars
        PROVE  [\E p \in Requests :
                   /\ StepsLeft(p)' \in 0..StepsLeft(p) - 1
                   /\ \A q \in Requests \ {p} : StepsLeft(q)' = StepsLeft(q)]_vars
    BY <1>2, <1>3
  <1> QED
    BY <1>1, <1>2, <1>3, PTL DEF Spec, NobodyIsDelayed


LEMMA HoldersStay ==
    ASSUME Typed, NEW p \in Requests, Start(p) \/ Progress(p) \/ Abort(p),
           \A q \in Requests : HoldersRun(q)
    PROVE  \A q \in Requests : HoldersRun(q)'
  <1>1. OnlyLocalsOf(p)
    BY StepKeepsOthers
  <1>2. /\ \A t \in TxIds : txLock'[t] \in {txLock[t], Free, p}
        /\ \A a \in Accounts : accLock'[a] \in {accLock[a], Free, p}
        /\ \/ pc'[p] \notin {"start", "awrite", "done"}
           \/ HoldsNothing(p)'
           \/ pc[p] \in {"start", "awrite"} /\ UNCHANGED <<txLock, accLock>>
    <2>1. CASE Start(p) \/ Find(p)
      <3>1. pc'[p] \notin {"start", "awrite", "done"}
        BY <2>1 DEF Start, StartCreate, StartTimed, StartUntimed, StartBulkPatch, Find,
                    FindForPost, FindForCancel, FindForPatch, FindForDelete, FindForDuplicate,
                    Fail, Found, Apply, Typed, TypeOK
      <3>2. UNCHANGED <<txLock, accLock>>
        BY <2>1 DEF Start, StartCreate, StartTimed, StartUntimed, StartBulkPatch, Find,
                    FindForPost, FindForCancel, FindForPatch, FindForDelete, FindForDuplicate,
                    tableVars
      <3> QED
        BY <3>1, <3>2
    <2>2. CASE WriteTransaction(p) \/ DeleteTransaction(p) \/ InsertTransaction(p)
      BY <2>2 DEF WriteTransaction, DeleteTransaction, InsertTransaction, Apply, accTable,
                  Typed, TypeOK
    <2>3. CASE BulkStatus(p) \/ ReadAccount(p)
      BY <2>3 DEF BulkStatus, ReadAccount, tableVars, Typed, TypeOK
    <2>4. CASE AdjustAccount(p)
      BY <2>4 DEF AdjustAccount, Apply, txTable, Typed, TypeOK
    <2>5. CASE AccountRequest(p)
      BY <2>5 DEF AccountRequest, FindAccount, WriteAccount, tableVars, txTable
    <2>6. CASE Commit(p) \/ Discard(p)
      BY <2>6, LedgerAssumption DEF Commit, Discard, Unlock, HoldsNothing
    <2> QED
      BY <2>1, <2>2, <2>3, <2>4, <2>5, <2>6
      DEF Progress, Write, Rollback, DeadlockVictim, Abort
  <1>3. HoldersRun(p)'
    BY <1>2 DEF HoldersRun, HoldsNothing
  <1>4. ASSUME NEW q \in Requests \ {p} PROVE HoldersRun(q)'
    <2>1. /\ \A t \in TxIds : txLock'[t] = q => txLock[t] = q
          /\ \A a \in Accounts : accLock'[a] = q => accLock[a] = q
      BY <1>2, LedgerAssumption
    <2> QED
      BY <1>1, <2>1 DEF OnlyLocalsOf, HoldersRun, HoldsNothing
  <1> QED
    BY <1>3, <1>4

\* Requests that all wait for each other contain a circle: the smallest such set.
LEMMA WaitersMakeACircle ==
    ASSUME IsFiniteSet(Requests), NEW W \in SUBSET Requests, W # {},
           \A p \in W : \E q \in W : WaitsFor(p, q)
    PROVE  \E p \in W : OnCycle(p)
  <1> DEFINE Closed == {S \in SUBSET W : S # {} /\ \A p \in S : \E q \in S : WaitsFor(p, q)}
             Sizes == {Cardinality(S) : S \in Closed}
  <1>1. \A S \in SUBSET W : IsFiniteSet(S) /\ Cardinality(S) \in Nat
    <2> TAKE S \in SUBSET W
    <2>1. S \in SUBSET Requests
      OBVIOUS
    <2>2. IsFiniteSet(S)
      BY <2>1, FS_Subset
    <2> QED
      BY <2>2, FS_CardinalityType
  <1>2. Sizes \in SUBSET Nat /\ Sizes # {}
    <2>1. W \in Closed
      OBVIOUS
    <2> QED
      BY <1>1, <2>1
  <1>3. PICK S \in Closed : \A T \in Closed : Cardinality(S) <= Cardinality(T)
    <2>1. PICK x \in Sizes : \A y \in Sizes : x <= y
      <3> HIDE DEF Sizes
      <3> QED
        BY <1>2, HasLeast
    <2> QED
      BY <2>1
  <1> DEFINE Waited == {q \in S : \E r \in S : WaitsFor(r, q)}
  <1>4. Waited \in Closed
    <2>1. PICK p \in S : TRUE
      BY <1>3
    <2>2. PICK q \in S : WaitsFor(p, q)
      BY <1>3
    <2>3. Waited # {}
      BY <2>2
    <2>4. \A r \in Waited : \E s \in Waited : WaitsFor(r, s)
      BY <1>3
    <2> QED
      BY <1>3, <2>3, <2>4
  <1>5. Waited = S
    <2>1. IsFiniteSet(S) /\ Cardinality(S) \in Nat /\ Cardinality(Waited) \in Nat
      BY <1>1, <1>3, <1>4
    <2>2. Cardinality(S) <= Cardinality(Waited)
      BY <1>3, <1>4
    <2>3. Waited \in SUBSET S
      OBVIOUS
    <2>4. Cardinality(Waited) <= Cardinality(S)
      BY <2>1, <2>3, FS_Subset
    <2>5. Cardinality(S) = Cardinality(Waited)
      BY <2>1, <2>2, <2>4
    <2> HIDE DEF Waited
    <2> QED
      BY <2>1, <2>3, <2>5, FS_Subset
  <1>6. Circle(S)
    BY <1>3, <1>5 DEF Circle
  <1>7. S \in SUBSET Requests /\ S # {} /\ S \in SUBSET W
    BY <1>3
  <1> QED
    BY <1>6, <1>7 DEF OnCycle

LEMMA HolderRuns ==
    ASSUME Typed, NEW p \in Requests, NEW q \in Requests, HoldersRun(q), WaitsFor(p, q)
    PROVE  Running(q)
  <1>1. \/ tgt[p] \in TxIds /\ txLock[tgt[p]] = q
        \/ acct[p] \in Accounts /\ accLock[acct[p]] = q
    BY DEF WaitsFor, Typed, Targeted
  <1> QED
    BY <1>1 DEF HoldersRun, HoldsNothing, Running

\* Bulk requests may wait for each other in a circle, but then Postgres has a victim: as
\* long as any of finitely many requests runs, one of them need not wait or is on a circle.
\* Nobody is ever stuck behind a request that has returned.
THEOREM SomebodyMoves ==
    ASSUME IsFiniteSet(Requests)
    PROVE  Spec => []SomebodyMayMove
  <1> DEFINE Inv == Typed /\ \A q \in Requests : HoldersRun(q)
  <1>1. Init => Inv
    BY InitTyped, LedgerAssumption DEF Init, HoldersRun, HoldsNothing
  <1>2. Inv /\ [Next]_vars => Inv'
    <2> SUFFICES ASSUME Inv, [Next]_vars PROVE Inv'
      OBVIOUS
    <2>1. Typed'
      BY StepTyped
    <2>2. CASE UNCHANGED vars
      BY <2>1, <2>2 DEF vars, HoldersRun, HoldsNothing
    <2> QED
      BY <2>1, <2>2, HoldersStay DEF Next
  <1>3. Inv => SomebodyMayMove
    <2> SUFFICES ASSUME Inv, NEW r \in Requests, Running(r),
                        \A p \in Requests : Running(p) => Waits(p) /\ ~OnCycle(p)
                 PROVE  FALSE
      BY DEF SomebodyMayMove
    <2> DEFINE W == {p \in Requests : Running(p)}
    <2>1. W \in SUBSET Requests /\ W # {}
      OBVIOUS
    <2>2. \A p \in W : \E q \in W : WaitsFor(p, q)
      BY HolderRuns DEF Waits
    <2>3. \E p \in W : OnCycle(p)
      <3> HIDE DEF W
      <3> QED
        BY <2>1, <2>2, WaitersMakeACircle
    <2> QED
      BY <2>3
  <1> QED
    BY <1>1, <1>2, <1>3, PTL DEF Spec

=============================================================================
