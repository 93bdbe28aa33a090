------------------------------- MODULE Books -------------------------------
(***************************************************************************)
(* What the accounting services promise their clients, without requests,   *)
(* locks or lock tokens: a book of transactions and, for every account, a  *)
(* balance that agrees with the book. One step is one successful request;  *)
(* a bulk request moves several entries at once.                           *)
(***************************************************************************)
EXTENDS Transaction, Functions

CONSTANTS TxIds, Opening

VARIABLES book, balance

Entry == [status : Statuses, type : Types, amount : Nat,
          from : AccountRef, to : AccountRef]

Shown(entries, a) ==
    Opening[a] + SumFunction([t \in TxIds |-> Posting(entries[t], a)])

----------------------------------------------------------------------------
(***************************************************************************)
(* The moves of an entry. A bulk patch may amend and post in one step.     *)
(***************************************************************************)
Recorded(e, f) == e.status = "none" /\ f.status \in {"planned", "posted"}

Amended(e, f) == e.status = "planned" /\ f.status = "planned"

Posted(e, f) == e.status = "planned" /\ f.status = "posted"

Dropped(e, f) == e.status = "planned" /\ f.status = "cancelled"

Reversed(e, f) == e.status = "posted" /\ f = [e EXCEPT !.status = "cancelled"]

Removed(e, f) == e.status \in {"planned", "cancelled"} /\ f.status = "none"

Move(e, f) == \/ Recorded(e, f)
              \/ Amended(e, f)
              \/ Posted(e, f)
              \/ Dropped(e, f)
              \/ Reversed(e, f)
              \/ Removed(e, f)

Init ==
    /\ book \in [TxIds -> Entry]
    /\ balance = [a \in Accounts |-> Shown(book, a)]

Settle ==
    /\ book' \in [TxIds -> Entry]
    /\ \A t \in TxIds : book'[t] = book[t] \/ Move(book[t], book'[t])
    /\ balance' = [a \in Accounts |-> Shown(book', a)]

Spec == Init /\ [][Settle]_<<book, balance>>
=============================================================================
