------------------------- MODULE IdentityInvariant -------------------------
(***************************************************************************)
(* The inductive invariant of Identity behind TokensPay, OverForGood and   *)
(* ResetEndsSessions: what a request is about at each statement, what a    *)
(* transaction has locked, what its drafts contain, and which sessions a   *)
(* password reset has dealt with. At the end, what can be said of progress *)
(* without fairness.                                                       *)
(***************************************************************************)
EXTENDS Identity, FiniteSets

\* What no UPDATE changes in a row that is stored.
UserKept(r, new) == r.present => new.present
SessionKept(r, new) ==
    r.present => new.present /\ new.user = r.user /\ new.expires = r.expires
TokenKept(r, new) ==
    r.present => new.present /\ new.user = r.user /\ new.purpose = r.purpose

Kept(t, new) ==
    /\ \A u \in Users : UserKept(t[u], new[u])
    /\ \A s \in Sessions : SessionKept(t[s], new[s])
    /\ \A k \in Tokens : TokenKept(t[k], new[k])

\* What the request is about while it carries out its statements.
UserStatements == {"authenticated", "issue", "insert"}
SessionStatements == {"touch", "revoke"}
TokenStatements == {"user", "mark", "end", "fail"}
SharedStatements == {"stamp", "select", "sweep"}

OnToken(p) == tgt[p] \in Tokens /\ rows[tgt[p]].present /\ rows[tgt[p]].purpose = PurposeOf(p)

Targeted(p) ==
    /\ pc[p] \in UserStatements => tgt[p] \in Users /\ rows[tgt[p]].present
    /\ pc[p] \in SessionStatements => tgt[p] \in Sessions /\ rows[tgt[p]].present
    /\ pc[p] \in TokenStatements \cup {"find"} => kind[p] \in TransactionKinds
    /\ pc[p] \in TokenStatements => OnToken(p)
    /\ pc[p] \in SharedStatements =>
         \/ kind[p] \in TransactionKinds /\ OnToken(p)
         \/ kind[p] = "logoutAll" /\ tgt[p] \in Users
         \/ /\ kind[p] \notin TransactionKinds \cup {"logoutAll"}
            /\ pc[p] = "stamp" /\ tgt[p] \in Sessions /\ rows[tgt[p]].present

\* No reading is mistaken for NULL, and none is from the future.
ClockRead(p) ==
    /\ now[p] <= clock
    /\ pc[p] \in {"touch", "revoke", "user", "select", "sweep", "mark", "end"} => now[p] > 0

\* From UpdateUser on, the transaction of p holds the row of its user.
InTransaction(p) ==
    kind[p] \in TransactionKinds /\ pc[p] \in {"select", "sweep", "mark", "end", "fail"}

\* So does the UPDATE of LogoutAll hold the rows it has written.
HoldsLocks(p) == \/ InTransaction(p)
                 \/ kind[p] = "logoutAll" /\ pc[p] = "sweep"

\* The locks of a transaction: its user, its sessions, its token. A session found revoked
\* is locked as well, but not written.
LocksOf(p) ==
    \A i \in Items : lock[i] = p =>
        /\ HoldsLocks(p)
        /\ \/ InTransaction(p) /\ i = UserOf(p)
           \/ i \in Sessions /\ rows[i].present /\ (rows[i].revoked # 0 => draft[i] = rows[i])
           \/ pc[p] = "end" /\ i = tgt[p]

\* Only its column of the user's row is changed.
UserDrafted(p) ==
    InTransaction(p) =>
        LET u == UserOf(p) IN
        /\ lock[u] = p
        /\ pc[p] # "fail" => draft[u].updated = now[p]
        /\ IF kind[p] = "resetPassword"
           THEN draft[u].verified = rows[u].verified
           ELSE draft[u].password = rows[u].password /\ draft[u].verified

TokenDrafted(p) ==
    pc[p] = "end" =>
        /\ lock[tgt[p]] = p
        /\ rows[tgt[p]].used = 0
        /\ draft[tgt[p]] = [rows[tgt[p]] EXCEPT !.used = now[p]]

\* Session s is over as soon as p commits.
Revoking(p, s) == lock[s] = p /\ draft[s].revoked # 0

\* The sessions a password reset has to end: selected, then locked and revoked.
Ended(p) ==
    kind[p] = "resetPassword" =>
        /\ \A s \in known[p] : rows[s].present
        /\ \A s \in known[p] :
             rows[s].user = UserOf(p) /\ ActiveSession(rows[s], now[p]) =>
               /\ pc[p] = "sweep" => s \in matched[p] \/ Revoking(p, s)
               /\ pc[p] \in {"mark", "end"} => Revoking(p, s)

\* The UPDATE has come to one of the sessions it has still to write.
SweepPlaced(p) ==
    /\ \A s \in matched[p] : rows[s].present
    /\ pc[p] # "sweep" => matched[p] = {}
    /\ IF matched[p] = {} THEN cursor[p] = Null ELSE cursor[p] \in matched[p]

RequestInvariant(p) ==
    /\ Targeted(p)
    /\ ClockRead(p)
    /\ LocksOf(p)
    /\ UserDrafted(p)
    /\ TokenDrafted(p)
    /\ Ended(p)
    /\ SweepPlaced(p)

\* Nothing is uncommitted in an unlocked row.
UnlockedSettled == \A i \in Items : lock[i] = Free => draft[i] = rows[i]

IdentityInvariant ==
    /\ clock > 0
    /\ UnlockedSettled
    /\ Kept(rows, draft)
    /\ ForeignKeys(rows)
    /\ \A p \in Requests : RequestInvariant(p)

\* What every step preserves: the two only hold together, a row being what its type says
\* because of what its writer has read.
Inv == TypeOK /\ IdentityInvariant
----------------------------------------------------------------------------
(***************************************************************************)
(* Progress, as far as it can be said without fairness: who may wait for   *)
(* whom, and that no request ever has to start again.                      *)
(***************************************************************************)
\* RevokeAllByUserID locks the sessions of a user in no particular order, so two of them
\* may each wait for a session the other has. But a reset has locked the user before, and
\* nothing else takes two rows: whoever waits in a circle is in the middle of this
\* statement and waits for one of the same user, and one of the two is a logout
\* everywhere, which locks sessions without the user (LogoutAll, ResetPassword).
OnlyLogoutsDeadlock ==
    \A S \in SUBSET Requests : Circle(S) =>
        \A p, q \in S : WaitsFor(p, q) =>
            /\ pc[p] = "sweep"
            /\ UserOf(p) = UserOf(q)
            /\ "logoutAll" \in {kind[p], kind[q]}

\* What this rests on: p takes sessions of its user only.
SessionsOfUser(p) ==
    /\ \A s \in matched[p] : rows[s].user = UserOf(p)
    /\ \A s \in Sessions : lock[s] = p => rows[s].user = UserOf(p)

Running(p) == pc[p] \notin {"start", "done"}

Waits(p) == \E q \in Requests : WaitsFor(p, q)

\* As long as a request runs, one of them need not wait, or is on a circle that Postgres
\* breaks.
SomebodyMayMove ==
    (\E p \in Requests : Running(p)) =>
        \E p \in Requests : Running(p) /\ (Waits(p) => OnCycle(p))

\* The steps request p has still to take at most, one for each session it may revoke.
StepsLeft(p) ==
    CASE pc[p] = "start" -> 8 + Cardinality(Sessions)
      [] pc[p] = "find" -> 7 + Cardinality(Sessions)
      [] pc[p] = "stamp" -> 6 + Cardinality(Sessions)
      [] pc[p] = "user" -> 5 + Cardinality(Sessions)
      [] pc[p] = "select" -> 4 + Cardinality(Sessions)
      [] pc[p] = "sweep" -> 3 + Cardinality(matched[p])
      [] pc[p] = "authenticated" -> 3
      [] pc[p] \in {"issue", "mark"} -> 2
      [] pc[p] = "done" -> 0
      [] OTHER -> 1

\* Every step takes one request nearer to its end and leaves the others where they are.
NobodyIsDelayed ==
    [][\E p \in Requests :
          /\ StepsLeft(p)' \in 0..StepsLeft(p) - 1
          /\ \A q \in Requests \ {p} : StepsLeft(q)' = StepsLeft(q)]_vars
=============================================================================
