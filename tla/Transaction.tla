---------------------------- MODULE Transaction ----------------------------
(***************************************************************************)
(* The Transaction entity of internal/domain/transactions and the balance  *)
(* arithmetic of internal/app/accounting: which rows are well formed, what *)
(* posting and cancelling do to a row, and how much a posted row adds to   *)
(* the balance of an account.                                              *)
(*                                                                         *)
(* Abstracted data: category, subcategory, comment, dates and currency     *)
(* never influence a balance or a status and are left out (transactions    *)
(* are RUB only, transactions_handler.go:577); `ver` is the updated_at     *)
(* column, the optimistic-lock token.                                      *)
(***************************************************************************)
EXTENDS Integers

CONSTANTS Accounts,     \* account ids, naturals ordered like the sorted id strings
          NoAccount     \* a NULL account reference

ASSUME AccountsAssumption == Accounts \subseteq Nat /\ NoAccount \notin Accounts

Types == {"income", "expense", "transfer", "investment", "saving"}

\* "none" is the status of an id that has no row in the table.
Statuses == {"none", "planned", "posted", "cancelled"}

AccountRef == Accounts \cup {NoAccount}

\* What a client proposes: the fields a balance depends on.
Shape == [type : Types, amount : Nat, from : AccountRef, to : AccountRef]

TransactionRow == [status : Statuses, type : Types, amount : Nat,
                   from : AccountRef, to : AccountRef, ver : Nat]

NoRow == [status |-> "none", type |-> "income", amount |-> 0,
          from |-> NoAccount, to |-> NoAccount, ver |-> 0]

Exists(row) == row.status # "none"

Row(shape, status, ver) ==
    [status |-> status, type |-> shape.type, amount |-> shape.amount,
     from |-> shape.from, to |-> shape.to, ver |-> ver]

\* A row as a client sees it: everything but the lock token.
EntryOf(row) ==
    [status |-> row.status, type |-> row.type, amount |-> row.amount,
     from |-> row.from, to |-> row.to]

----------------------------------------------------------------------------
\* NewTransaction rejects every other combination of type and accounts.
ValidShape(s) ==
    CASE s.type = "income"   -> s.to # NoAccount /\ s.from = NoAccount
      [] s.type = "transfer" -> /\ s.from # NoAccount
                                /\ s.to # NoAccount
                                /\ s.from # s.to
      [] OTHER               -> s.from # NoAccount /\ s.to = NoAccount

\* Variant for testing the properties: Post forgets the already-posted check.
CanPostTwice(row) == row.status \in {"planned", "posted"}

CanPost(row) == row.status = "planned"

CanCancel(row) == row.status \in {"planned", "posted"}

Post(row, now) == [row EXCEPT !.status = "posted", !.ver = now]

\* Variant for testing the properties: the status is spelt differently.
CancelMisspelt(row, now) == [row EXCEPT !.status = "canceled", !.ver = now]

Cancel(row, now) == [row EXCEPT !.status = "cancelled", !.ver = now]

----------------------------------------------------------------------------
Incoming(row, a) == IF row.type \in {"income", "transfer"} /\ row.to = a
                    THEN row.amount ELSE 0

Outgoing(row, a) == IF row.type # "income" /\ row.from = a
                    THEN row.amount ELSE 0

\* What transactionAccountDeltas returns for account a.
Delta(row, a) == Incoming(row, a) - Outgoing(row, a)

\* The accounts applyTransactionBalanceEffect writes: zero deltas are skipped.
Affected(row) == {a \in Accounts : Delta(row, a) # 0}

\* The share of a row in the balance of account a: only posted rows count.
Posting(row, a) == IF row.status = "posted" THEN Delta(row, a) ELSE 0

=============================================================================
