------------------------- MODULE MCTransactionsApi -------------------------
(***************************************************************************)
(* Small instances of TransactionsApi for TLC: two accounts, two requests, *)
(* three transaction ids of which one has a row at the start.              *)
(***************************************************************************)
EXTENDS TransactionsApi, LedgerInvariant, TLC

CONSTANTS t1, t2, t3, p1, p2

MCAccounts == {1, 2}
MCTxIds == {t1, t2, t3}

Transfer == [type |-> "transfer", amount |-> 2, from |-> 1, to |-> 2]
Income   == [type |-> "income", amount |-> 5, from |-> NoAccount, to |-> 2]
ToItself == [type |-> "transfer", amount |-> 1, from |-> 1, to |-> 1]

\* A body that takes both balances, one that takes only the second, and one the
\* domain rejects: bulk requests can lock in opposite orders and fail holding locks.
MCShapes == {Transfer, Income, ToItself}

MCTables == {(t1 :> Row(Transfer, "planned", 0)) @@ (t2 :> NoRow) @@ (t3 :> NoRow)}

MCOpening == [a \in MCAccounts |-> 10]

\* Two requests for a single row, or a bulk request and one of those that contend with
\* it for the row and the accounts. Two bulk requests have more states than all of
\* these: of them only two bulk creations are taken. The endpoints that take a body are
\* tried with one other each. The requests are interchangeable, so that a pair of kinds is
\* taken in one order.
Order == <<"delete", "post", "cancel", "updateAccount">>

Contenders == {"post", "delete", "updateAccount"}

Pairs == {<<Order[i], Order[j]>> : <<i, j>> \in {x \in (1..4) \X (1..4) : x[1] <= x[2]}}
         \cup {"createBulk", "patchBulk"} \X Contenders
         \cup {"createBulk"} \X {"createBulk"}
         \cup {"patch", "duplicate"} \X {"post"} \cup {"create"} \X {"updateAccount"}

MCInit == ApiInit /\ <<kind[p1], kind[p2]>> \in Pairs

MCSpec == MCInit /\ [][ApiNext]_<<vars, apiVars>> /\ ApiFairness
=============================================================================
