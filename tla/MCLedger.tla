------------------------------ MODULE MCLedger ------------------------------
(***************************************************************************)
(* Small instances of Ledger for TLC: two accounts and three transaction   *)
(* ids, of which at most two have rows at the start.                       *)
(***************************************************************************)
EXTENDS Ledger, TLC

CONSTANTS t1, t2, t3

MCAccounts == {1, 2}
MCTxIds == {t1, t2, t3}

Transfer == [type |-> "transfer", amount |-> 2, from |-> 1, to |-> 2]
Expense  == [type |-> "expense", amount |-> 3, from |-> 1, to |-> NoAccount]
ToItself == [type |-> "transfer", amount |-> 1, from |-> 1, to |-> 1]

MCShapes == {Transfer, Expense, ToItself}

Table(r1, r2) == (t1 :> r1) @@ (t2 :> r2) @@ (t3 :> NoRow)

MCOneTable == {Table(Row(Transfer, "planned", 0), Row(Expense, "posted", 0))}

MCOpening == [a \in MCAccounts |-> 10]

RequestSymmetry == Permutations(Requests)

\* Three requests for a single row, in every combination, or a bulk request, one for
\* a row of its batch and one that only reads: restoring an account nobody archives.
WithBulk == {"patchBulk", "post", "restoreAccount"}

MCInit ==
    /\ Init
    /\ \/ \A p \in Requests : kind[p] \notin BulkKinds
       \/ {kind[p] : p \in Requests} = WithBulk

MCSpec == MCInit /\ [][Next]_vars
=============================================================================
