--------------------------- MODULE AtomicRequests ---------------------------
(***************************************************************************)
(* What the endpoints of transactions and accounts promise each client, as *)
(* if requests came one at a time: a request takes effect at one moment,   *)
(* that of its answer, or not at all. A success means that exactly what    *)
(* was asked for has happened, to the entry as it then was; a refusal that *)
(* nothing has; after a 500, or an answer that was lost, it is one of the  *)
(* two. There are no statements, drafts, locks, versions or clocks here.   *)
(***************************************************************************)
EXTENDS Books, Endpoints

CONSTANTS
    Requests,
    MaxItems,   \* transactions in a bulk request
    NoTx        \* the transaction of an answer that is about none

VARIABLES
    kind,       \* the endpoint each request calls
    answer      \* its answer, and the transaction that it is about

----------------------------------------------------------------------------
Creating == {"create", "duplicate"}
Single == Creating \cup {"patch", "delete", "post", "cancel"}
Bulk == {"createBulk", "patchBulk"}

\* Edits may leave an entry as it is, but not touch a cancelled one.
Edited(e, f) == \/ Amended(e, f) /\ ValidShape(f)
                \/ e.status = "posted" /\ f = e

\* What each endpoint makes of entry e.
Asked(k, e, f) ==
    \/ k \in Creating \cup {"createBulk"} /\ Recorded(e, f) /\ ValidShape(f)
    \/ k \in {"patch", "patchBulk"} /\ Edited(e, f)
    \/ k = "patchBulk" /\ (Posted(e, f) \/ Dropped(e, f)) /\ ValidShape(f)
    \/ k = "patchBulk" /\ Reversed(e, f)
    \/ k = "post" /\ CanPost(e) /\ f = [e EXCEPT !.status = "posted"]
    \/ k = "cancel" /\ CanCancel(e) /\ f = [e EXCEPT !.status = "cancelled"]
    \/ k = "delete" /\ Removed(e, f)

\* Entry t is changed as asked, and no other.
One(k, t) ==
    /\ Asked(k, book[t], book'[t])
    /\ \A u \in TxIds \ {t} : book'[u] = book[u]

\* The entries of the items are changed as asked, and no other; an edit of several
\* items may leave an entry as it was, a creation records one at least.
Several(k) ==
    \E items \in [1..MaxItems -> TxIds] :
        /\ \A u \in TxIds : \/ book'[u] = book[u]
                            \/ Asked(k, book[u], book'[u]) /\ \E i \in 1..MaxItems : items[i] = u
        /\ k = "createBulk" => \E i \in 1..MaxItems : book'[items[i]] # book[items[i]]

TakesEffect(k, t) ==
    \/ k \in Single /\ t \in TxIds /\ One(k, t)
    \/ k \in Bulk /\ Several(k)
    \/ k \notin Single \cup Bulk /\ book' = book

----------------------------------------------------------------------------
Codes == Successes \cup Refusals \cup {"500"}

Unanswered == [code |-> "none", tx |-> NoTx]

RequestsInit ==
    /\ Init
    /\ answer = [p \in Requests |-> Unanswered]

Answer(p) ==
    /\ answer[p] = Unanswered
    /\ \E code \in Codes, t \in TxIds \cup {NoTx} :
         /\ answer' = [answer EXCEPT ![p] = [code |-> code, tx |-> t]]
         /\ \/ code \notin Refusals /\ TakesEffect(kind[p], t)
            \/ code \notin Successes /\ book' = book
    /\ book' \in [TxIds -> Entry]
    /\ balance' = [a \in Accounts |-> Shown(book', a)]
    /\ UNCHANGED kind

RequestsNext == \E p \in Requests : Answer(p)

RequestsSpec == RequestsInit /\ [][RequestsNext]_<<book, balance, kind, answer>>
=============================================================================
