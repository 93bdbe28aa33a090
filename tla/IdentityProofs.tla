--------------------------- MODULE IdentityProofs ---------------------------
(***************************************************************************)
(* Inv is inductive, and what follows from it: TokensPay, OverForGood,     *)
(* ResetEndsSessions and, with the answers of IdentityApi,                 *)
(* LoggedOutStaysOut, for every set of users, sessions, tokens and         *)
(* requests, every clock and every lifetime.                               *)
(*                                                                         *)
(* A step belongs to one request p. It leaves alone the variables of every *)
(* other request (OthersKept) and every row another one has locked         *)
(* (HeldKept), and it never takes back what a stored row is (Grown). That  *)
(* preserves the invariant of the other requests (OtherRequest); what is   *)
(* left for each action is its own request and the tables. The last        *)
(* section shows which requests may wait for each other in a circle, that  *)
(* somebody can always go on, and that no request begins again.            *)
(***************************************************************************)
EXTENDS IdentityInvariant, IdentityApi, FiniteSetTheorems, WellFoundedInduction,
        TLAPS

OthersKept(p) ==
    /\ kind' = kind
    /\ clock' \in Nat /\ clock' >= clock
    /\ \A q \in Requests \ {p} :
          /\ pc'[q] = pc[q]
          /\ tgt'[q] = tgt[q]
          /\ now'[q] = now[q]
          /\ matched'[q] = matched[q]
          /\ cursor'[q] = cursor[q]
          /\ known'[q] = known[q]

HeldKept(p) ==
    \A i \in Items :
        /\ lock'[i] \in {lock[i], Free, p}
        /\ lock[i] \notin {Free, p} =>
              lock'[i] = lock[i] /\ draft'[i] = draft[i] /\ rows'[i] = rows[i]

Grown ==
    /\ Kept(rows, rows')
    /\ \A s \in Sessions : rows[s].present /\ rows[s].revoked # 0 => rows'[s] = rows[s]

TablesSound == UnlockedSettled /\ Kept(rows, draft) /\ ForeignKeys(rows)

\* The variables of a request and of the locks have their types.
RequestsTyped ==
    /\ lock \in [Items -> Requests \cup {Free}]
    /\ clock \in Nat
    /\ kind \in [Requests -> AllKinds]
    /\ pc \in [Requests -> {"start", "authenticated", "find", "stamp", "issue", "insert",
                            "touch", "revoke", "user", "select", "sweep", "mark", "end",
                            "fail", "done"}]
    /\ tgt \in [Requests -> Items \cup {Null}]
    /\ now \in [Requests -> Nat]
    /\ matched \in [Requests -> SUBSET Sessions]
    /\ cursor \in [Requests -> Sessions \cup {Null}]
    /\ known \in [Requests -> SUBSET Sessions]

\* What is shown of every step of p.
StepSound(p) ==
    /\ OthersKept(p)
    /\ HeldKept(p)
    /\ Grown
    /\ rows' \in Tables /\ draft' \in Tables
    /\ RequestsTyped'
    /\ TablesSound'
    /\ RequestInvariant(p)'

----------------------------------------------------------------------------
(***************************************************************************)
(* Rows.                                                                   *)
(***************************************************************************)
LEMMA KindsOfItems ==
    /\ Items = Users \cup Sessions \cup Tokens
    /\ \A u \in Users : u \in Items /\ u \notin Sessions /\ u \notin Tokens /\ u # Null
    /\ \A s \in Sessions : s \in Items /\ s \notin Users /\ s \notin Tokens /\ s # Null
    /\ \A k \in Tokens : k \in Items /\ k \notin Users /\ k \notin Sessions /\ k # Null
    /\ Free \notin Requests
  BY IdentityAssumption DEF Items

LEMMA RowTypes ==
    ASSUME NEW t \in Tables
    PROVE  /\ \A u \in Users : t[u] \in UserRow
           /\ \A s \in Sessions : t[s] \in SessionRow /\ (t[s].present => t[s].user \in Users)
           /\ \A k \in Tokens : t[k] \in TokenRow /\ (t[k].present => t[k].user \in Users)
           /\ t \in [Items -> UserRow \cup SessionRow \cup TokenRow]
           /\ \A i \in Items : t[i] \in RowsOf(i)
  BY KindsOfItems DEF Tables, RowsOf

LEMMA RowsOfKinds ==
    /\ \A u \in Users : RowsOf(u) = UserRow
    /\ \A s \in Sessions : RowsOf(s) = {r \in SessionRow : r.present => r.user \in Users}
    /\ \A k \in Tokens : RowsOf(k) = {r \in TokenRow : r.present => r.user \in Users}
    /\ \A i \in Items : RowsOf(i) \subseteq UserRow \cup SessionRow \cup TokenRow
  BY KindsOfItems DEF RowsOf

\* A table put together row by row.
LEMMA Tabled ==
    ASSUME NEW t, t = [i \in Items |-> t[i]], \A i \in Items : t[i] \in RowsOf(i)
    PROVE  t \in Tables
  BY RowsOfKinds DEF Tables

LEMMA TablesExcept ==
    ASSUME NEW t \in Tables, NEW i \in Items, NEW r \in RowsOf(i)
    PROVE  [t EXCEPT ![i] = r] \in Tables
  <1>1. [t EXCEPT ![i] = r] \in [Items -> UserRow \cup SessionRow \cup TokenRow]
    BY RowTypes, RowsOfKinds
  <1>2. \A j \in Items : [t EXCEPT ![i] = r][j] \in RowsOf(j)
    BY RowTypes
  <1> QED
    BY <1>1, <1>2 DEF Tables

LEMMA KeptIsReflexive == ASSUME NEW t PROVE Kept(t, t)
  BY DEF Kept, UserKept, SessionKept, TokenKept

\* No stored row is lost when one row is replaced by a version of it.
LEMMA KeptExcept ==
    ASSUME NEW t \in Tables, NEW new \in Tables, NEW i \in Items, NEW r,
           Kept(t, new),
           i \in Users => UserKept(t[i], r),
           i \in Sessions => SessionKept(t[i], r),
           i \in Tokens => TokenKept(t[i], r)
    PROVE  Kept(t, [new EXCEPT ![i] = r])
  <1>1. \A j \in Items : [new EXCEPT ![i] = r][j] = IF j = i THEN r ELSE new[j]
    BY RowTypes
  <1> QED
    BY <1>1, KindsOfItems DEF Kept

----------------------------------------------------------------------------
(***************************************************************************)
(* Who has locked what.                                                    *)
(***************************************************************************)
LEMMA OwnerStored ==
    ASSUME Inv, NEW p \in Requests, OnToken(p)
    PROVE  /\ tgt[p] \in Tokens /\ tgt[p] \in Items
           /\ UserOf(p) = rows[tgt[p]].user
           /\ UserOf(p) \in Users
           /\ rows[UserOf(p)].present
  BY RowTypes, KindsOfItems
  DEF Inv, TypeOK, IdentityInvariant, ForeignKeys, OnToken, UserOf

LEMMA TransactionOnToken ==
    ASSUME Inv, NEW p \in Requests, InTransaction(p)
    PROVE  OnToken(p)
  <1>1. Targeted(p)
    BY DEF Inv, IdentityInvariant, RequestInvariant
  <1>2. CASE pc[p] \in {"select", "sweep"}
    BY <1>1, <1>2 DEF Targeted, InTransaction, SharedStatements, TransactionKinds
  <1>3. CASE pc[p] \in {"mark", "end", "fail"}
    BY <1>1, <1>3 DEF Targeted, TokenStatements
  <1> QED
    BY <1>2, <1>3 DEF InTransaction

LEMMA IdleHoldsNothing ==
    ASSUME Inv, NEW p \in Requests, ~HoldsLocks(p), NEW i \in Items
    PROVE  lock[i] # p
  BY DEF Inv, IdentityInvariant, RequestInvariant, LocksOf

LEMMA Idle ==
    ASSUME NEW p \in Requests,
           pc[p] \in {"start", "authenticated", "find", "stamp", "issue", "insert", "touch",
                     "revoke", "user"}
    PROVE  ~HoldsLocks(p) /\ ~InTransaction(p)
  BY DEF HoldsLocks, InTransaction

\* A request that holds no locks is not in the middle of RevokeAllByUserID.
LEMMA IdleSweepsNothing ==
    ASSUME Inv, NEW p \in Requests, ~HoldsLocks(p)
    PROVE  pc[p] # "sweep" /\ matched[p] = {} /\ cursor[p] = Null /\ ~InTransaction(p)
  <1>1. Targeted(p) /\ SweepPlaced(p)
    BY DEF Inv, IdentityInvariant, RequestInvariant
  <1>2. pc[p] # "sweep" /\ ~InTransaction(p)
    BY <1>1 DEF Targeted, SharedStatements, HoldsLocks, InTransaction
  <1> QED
    BY <1>1, <1>2 DEF SweepPlaced

\* Whom a request that holds locks is about.
LEMMA HolderIsAbout ==
    ASSUME Inv, NEW p \in Requests, HoldsLocks(p)
    PROVE  \/ OnToken(p)
           \/ kind[p] = "logoutAll" /\ tgt[p] \in Users /\ pc[p] = "sweep"
  <1>1. CASE InTransaction(p)
    BY <1>1, TransactionOnToken
  <1>2. CASE kind[p] = "logoutAll" /\ pc[p] = "sweep"
    BY <1>2 DEF Inv, IdentityInvariant, RequestInvariant, Targeted, SharedStatements,
                TransactionKinds
  <1> QED
    BY <1>1, <1>2 DEF HoldsLocks

LEMMA Locked ==
    ASSUME Inv, NEW p \in Requests, NEW i \in Items, lock[i] = p
    PROVE  /\ HoldsLocks(p)
           /\ rows[i].present
           /\ i \in Users => InTransaction(p) /\ i = UserOf(p)
           /\ i \in Sessions => (rows[i].revoked # 0 => draft[i] = rows[i])
           /\ i \in Tokens => pc[p] = "end" /\ i = tgt[p]
  <1>1. /\ HoldsLocks(p)
        /\ \/ InTransaction(p) /\ i = UserOf(p)
           \/ i \in Sessions /\ rows[i].present /\ (rows[i].revoked # 0 => draft[i] = rows[i])
           \/ pc[p] = "end" /\ i = tgt[p]
    BY DEF Inv, IdentityInvariant, RequestInvariant, LocksOf
  <1>2. CASE InTransaction(p)
    <2>1. OnToken(p)
      BY <1>2, TransactionOnToken
    <2> QED
      BY <1>1, <1>2, <2>1, OwnerStored, KindsOfItems DEF OnToken
  <1>3. CASE ~InTransaction(p)
    BY <1>1, <1>3, KindsOfItems DEF HoldsLocks
  <1> QED
    BY <1>2, <1>3

LEMMA AbsentUnlocked ==
    ASSUME Inv, NEW i \in Items, ~rows[i].present
    PROVE  lock[i] = Free
  BY Locked DEF Inv, TypeOK

----------------------------------------------------------------------------
(***************************************************************************)
(* The other requests.                                                     *)
(***************************************************************************)
LEMMA OnTokenKept ==
    ASSUME Inv, NEW q \in Requests, OnToken(q), Grown, kind' = kind, tgt'[q] = tgt[q]
    PROVE  OnToken(q)' /\ UserOf(q)' = UserOf(q)
  BY DEF Grown, Kept, TokenKept, OnToken, UserOf, PurposeOf

LEMMA OtherRequest ==
    ASSUME Inv, NEW p \in Requests, NEW q \in Requests \ {p},
           OthersKept(p), HeldKept(p), Grown
    PROVE  RequestInvariant(q)'
  <1>1. RequestInvariant(q) /\ q # Free /\ q # p
    BY KindsOfItems DEF Inv, IdentityInvariant
  <1>2. /\ pc'[q] = pc[q] /\ tgt'[q] = tgt[q] /\ now'[q] = now[q]
        /\ matched'[q] = matched[q] /\ cursor'[q] = cursor[q] /\ known'[q] = known[q]
        /\ kind' = kind
        /\ clock' \in Nat /\ clock \in Nat /\ clock <= clock' /\ now[q] \in Nat
    BY DEF OthersKept, Inv, TypeOK
  <1>3. \A i \in Items : lock'[i] = q => lock[i] = q /\ rows'[i] = rows[i]
    BY <1>1 DEF HeldKept
  <1>4. \A i \in Items :
          lock[i] = q => lock'[i] = q /\ draft'[i] = draft[i] /\ rows'[i] = rows[i]
    BY <1>1 DEF HeldKept
  <1>5. OnToken(q) => OnToken(q)' /\ UserOf(q)' = UserOf(q)
    BY <1>2, OnTokenKept
  <1>6. (InTransaction(q)' <=> InTransaction(q)) /\ (HoldsLocks(q)' <=> HoldsLocks(q))
    BY <1>2 DEF InTransaction, HoldsLocks
  <1>7. \A i \in Items : rows[i].present => rows'[i].present
    BY KindsOfItems DEF Grown, Kept, UserKept, SessionKept, TokenKept
  <1>8. Targeted(q)'
    <2>1. Targeted(q)
      BY <1>1 DEF RequestInvariant
    <2>2. tgt[q] \in Users \cup Sessions /\ rows[tgt[q]].present => rows'[tgt[q]].present
      BY <1>7, KindsOfItems
    <2> QED
      BY <1>2, <1>5, <2>1, <2>2 DEF Targeted
  <1>9. ClockRead(q)'
    BY <1>1, <1>2 DEF RequestInvariant, ClockRead
  <1>10. LocksOf(q)'
    <2> SUFFICES ASSUME NEW i \in Items, lock'[i] = q
                 PROVE  /\ HoldsLocks(q)'
                        /\ \/ InTransaction(q)' /\ i = UserOf(q)'
                           \/ /\ i \in Sessions /\ rows'[i].present
                              /\ rows'[i].revoked # 0 => draft'[i] = rows'[i]
                           \/ pc'[q] = "end" /\ i = tgt'[q]
      BY DEF LocksOf
    <2>1. lock[i] = q /\ rows'[i] = rows[i] /\ draft'[i] = draft[i]
      BY <1>3, <1>4
    <2>2. InTransaction(q) => UserOf(q)' = UserOf(q)
      BY <1>5, TransactionOnToken
    <2> QED
      BY <1>1, <1>2, <1>6, <2>1, <2>2 DEF RequestInvariant, LocksOf
  <1>11. UserDrafted(q)'
    <2> SUFFICES ASSUME InTransaction(q) PROVE UserDrafted(q)'
      BY <1>6 DEF UserDrafted
    <2>1. OnToken(q) /\ UserOf(q)' = UserOf(q) /\ UserOf(q) \in Items
      BY <1>5, TransactionOnToken, OwnerStored, KindsOfItems
    <2>2. UserDrafted(q) /\ lock[UserOf(q)] = q
      BY <1>1 DEF RequestInvariant, UserDrafted
    <2>3. /\ lock'[UserOf(q)] = q /\ draft'[UserOf(q)] = draft[UserOf(q)]
          /\ rows'[UserOf(q)] = rows[UserOf(q)]
      BY <1>4, <2>1, <2>2
    <2> QED
      BY <1>2, <2>1, <2>2, <2>3 DEF UserDrafted
  <1>12. TokenDrafted(q)'
    <2> SUFFICES ASSUME pc[q] = "end" PROVE TokenDrafted(q)'
      BY <1>2 DEF TokenDrafted
    <2>1. tgt[q] \in Items
      BY <1>1, KindsOfItems DEF RequestInvariant, Targeted, TokenStatements, OnToken
    <2> QED
      BY <1>1, <1>2, <1>4, <2>1 DEF RequestInvariant, TokenDrafted
  <1>13. Ended(q)'
    <2> SUFFICES ASSUME kind[q] = "resetPassword" PROVE Ended(q)'
      BY <1>2 DEF Ended
    <2>1. known[q] \subseteq Sessions /\ Ended(q) /\ \A s \in known[q] : rows[s].present
      BY <1>1 DEF RequestInvariant, Ended, Inv, TypeOK
    <2>2. \A s \in known[q] : rows'[s].present
      BY <1>7, <2>1, KindsOfItems
    <2> SUFFICES ASSUME NEW s \in known[q], rows'[s].user = UserOf(q)',
                        ActiveSession(rows'[s], now'[q]), pc[q] \in {"sweep", "mark", "end"}
                 PROVE  /\ pc[q] = "sweep" => s \in matched[q] \/ Revoking(q, s)'
                        /\ pc[q] \in {"mark", "end"} => Revoking(q, s)'
      BY <1>2, <2>2 DEF Ended, Revoking
    <2>3. OnToken(q) /\ UserOf(q)' = UserOf(q)
      BY <1>5, TransactionOnToken DEF InTransaction, TransactionKinds
    <2>4. rows[s].user = UserOf(q) /\ ActiveSession(rows[s], now[q])
      BY <1>2, <2>1, <2>3 DEF Grown, Kept, SessionKept, ActiveSession
    <2> QED
      BY <1>4, <2>1, <2>4, KindsOfItems DEF Ended, Revoking
  <1>14. SweepPlaced(q)'
    <2>1. matched[q] \subseteq Items /\ SweepPlaced(q)
      BY <1>1, KindsOfItems DEF RequestInvariant, Inv, TypeOK
    <2> QED
      BY <1>2, <1>7, <2>1 DEF SweepPlaced
  <1> QED
    BY <1>8, <1>9, <1>10, <1>11, <1>12, <1>13, <1>14 DEF RequestInvariant

----------------------------------------------------------------------------
(***************************************************************************)
(* The request of the step.                                                *)
(***************************************************************************)
LEMMA ReadClockType ==
    ASSUME Inv, NEW p \in Requests, ReadClock(p)
    PROVE  /\ clock' \in Nat /\ clock' >= clock /\ clock' > 0
           /\ now' = [now EXCEPT ![p] = clock']
  BY IdentityAssumption DEF ReadClock, Inv, TypeOK, IdentityInvariant

\* How far the clock may move in a step.
ClockForward == clock' \in Nat /\ clock' >= clock

LEMMA ReturnKeepsOthers ==
    ASSUME Inv, NEW p \in Requests, Return(p), ClockForward
    PROVE  OthersKept(p)
  BY DEF Return, OthersKept, ClockForward, Inv, TypeOK

LEMMA ReturnTyped ==
    ASSUME Inv, NEW p \in Requests, Return(p), ClockForward,
           lock' \in [Items -> Requests \cup {Free}]
    PROVE  RequestsTyped'
  BY DEF Return, RequestsTyped, ClockForward, Inv, TypeOK

LEMMA ReturnOwn ==
    ASSUME Inv, NEW p \in Requests, Return(p), ClockForward,
           \A i \in Items : lock'[i] # p
    PROVE  RequestInvariant(p)'
  <1>1. /\ pc'[p] = "done" /\ now'[p] = 0 /\ matched'[p] = {} /\ cursor'[p] = Null
        /\ known'[p] = {} /\ clock' \in Nat
    BY DEF Return, ClockForward, Inv, TypeOK
  <1>2. Targeted(p)' /\ ClockRead(p)' /\ TokenDrafted(p)' /\ SweepPlaced(p)'
    BY <1>1 DEF Targeted, ClockRead, TokenDrafted, SweepPlaced,
                UserStatements, SessionStatements, TokenStatements, SharedStatements
  <1>3. LocksOf(p)' /\ UserDrafted(p)' /\ Ended(p)'
    BY <1>1 DEF LocksOf, UserDrafted, Ended, InTransaction
  <1> QED
    BY <1>2, <1>3 DEF RequestInvariant

\* A request that holds no lock goes on to a statement outside of a transaction, or to
\* one before the first write of its transaction.
LEMMA GoOnSound ==
    ASSUME Inv, NEW p \in Requests, NEW i \in Items \cup {Null}, NEW next,
           GoOn(p, i, next), ClockForward, Grown,
           ~HoldsLocks(p), UNCHANGED lock,
           next \in {"authenticated", "find", "stamp", "issue", "insert", "touch", "revoke",
                     "user", "select"},
           next = "select" => kind[p] = "logoutAll",
           now' \in [Requests -> Nat], \A q \in Requests \ {p} : now'[q] = now[q],
           known' \in [Requests -> SUBSET Sessions],
           \A q \in Requests \ {p} : known'[q] = known[q],
           kind[p] = "resetPassword" => \A s \in known'[p] : rows'[s].present,
           Targeted(p)', ClockRead(p)'
    PROVE  OthersKept(p) /\ RequestsTyped' /\ RequestInvariant(p)'
  <1>1. OthersKept(p)
    BY DEF GoOn, OthersKept, ClockForward, Inv, TypeOK
  <1>2. RequestsTyped'
    BY DEF GoOn, RequestsTyped, ClockForward, Inv, TypeOK
  <1>3. pc'[p] = next /\ kind' = kind /\ matched'[p] = {} /\ cursor'[p] = Null
    BY IdleSweepsNothing DEF GoOn, Inv, TypeOK
  <1>4. ~InTransaction(p)'
    BY <1>3 DEF InTransaction, TransactionKinds
  <1>5. LocksOf(p)' /\ UserDrafted(p)' /\ TokenDrafted(p)'
    BY <1>3, <1>4, IdleHoldsNothing DEF LocksOf, UserDrafted, TokenDrafted
  <1>6. Ended(p)'
    BY <1>3 DEF Ended
  <1>7. SweepPlaced(p)'
    BY <1>3 DEF SweepPlaced
  <1> QED
    BY <1>1, <1>2, <1>5, <1>6, <1>7 DEF RequestInvariant

----------------------------------------------------------------------------
(***************************************************************************)
(* The tables.                                                             *)
(***************************************************************************)
\* Tables that are left alone.
LEMMA TablesUnchanged ==
    ASSUME Inv, NEW p \in Requests, UNCHANGED tables
    PROVE  /\ HeldKept(p) /\ Grown /\ TablesSound'
           /\ rows' \in Tables /\ draft' \in Tables
  <1>1. HeldKept(p) /\ rows' \in Tables /\ draft' \in Tables
    BY DEF HeldKept, tables, Inv, TypeOK
  <1>2. Grown
    BY KeptIsReflexive DEF Grown, tables
  <1>3. TablesSound'
    BY DEF TablesSound, UnlockedSettled, Kept, ForeignKeys, tables, Inv, IdentityInvariant
  <1> QED
    BY <1>1, <1>2, <1>3

\* A statement that commits by itself, on an unlocked row.
LEMMA WrittenAlone ==
    ASSUME Inv, NEW p \in Requests, NEW i \in Items, NEW new \in RowsOf(i),
           WriteAlone(i, new), lock[i] = Free,
           i \in Users => UserKept(rows[i], new),
           i \in Sessions => SessionKept(rows[i], new),
           i \in Tokens => TokenKept(rows[i], new),
           i \in Sessions /\ rows[i].present => rows[i].revoked = 0,
           i \in Sessions \cup Tokens /\ new.present => rows[new.user].present
    PROVE  /\ HeldKept(p) /\ Grown /\ TablesSound'
           /\ rows' \in Tables /\ draft' \in Tables
  <1>1. rows' \in Tables /\ draft' \in Tables
    BY TablesExcept DEF WriteAlone, Inv, TypeOK
  <1>2. /\ \A j \in Items : rows'[j] = IF j = i THEN new ELSE rows[j]
        /\ \A j \in Items : draft'[j] = IF j = i THEN new ELSE draft[j]
        /\ lock' = lock
    BY RowTypes DEF WriteAlone, Inv, TypeOK
  <1>3. HeldKept(p)
    BY <1>2 DEF HeldKept
  <1>4. Kept(rows, rows')
    BY KeptIsReflexive, KeptExcept DEF WriteAlone, Inv, TypeOK
  <1>5. Grown
    BY <1>2, <1>4, KindsOfItems DEF Grown
  <1>6. UnlockedSettled'
    BY <1>2 DEF UnlockedSettled, Inv, IdentityInvariant
  <1>7. Kept(rows', draft')
    <2>1. \A j \in Items : \/ rows'[j] = rows[j] /\ draft'[j] = draft[j]
                           \/ rows'[j] = draft'[j]
      BY <1>2
    <2> QED
      BY <2>1, KindsOfItems
      DEF Kept, UserKept, SessionKept, TokenKept, Inv, IdentityInvariant
  <1>8. ForeignKeys(rows')
    <2> SUFFICES ASSUME NEW j \in Sessions \cup Tokens, rows'[j].present
                 PROVE  rows'[rows'[j].user].present
      BY DEF ForeignKeys
    <2>1. rows'[j].user \in Users
      BY <1>1, RowTypes
    <2>2. rows[rows'[j].user].present
      BY <1>2, KindsOfItems DEF Inv, IdentityInvariant, ForeignKeys
    <2> QED
      BY <1>4, <2>1, <2>2 DEF Kept, UserKept
  <1> QED
    BY <1>1, <1>3, <1>5, <1>6, <1>7, <1>8 DEF TablesSound

\* A statement inside a transaction.
LEMMA WrittenInTx ==
    ASSUME Inv, NEW p \in Requests, NEW i \in Items, NEW new \in RowsOf(i),
           WriteInTx(p, i, new), RowFree(p, i),
           i \in Users => UserKept(rows[i], new),
           i \in Sessions => SessionKept(rows[i], new),
           i \in Tokens => TokenKept(rows[i], new)
    PROVE  /\ HeldKept(p) /\ Grown /\ TablesSound'
           /\ rows' \in Tables /\ draft' \in Tables
           /\ lock' \in [Items -> Requests \cup {Free}]
  <1>1. rows' \in Tables /\ draft' \in Tables
    BY TablesExcept DEF WriteInTx, Inv, TypeOK
  <1>2. /\ \A j \in Items : draft'[j] = IF j = i THEN new ELSE draft[j]
        /\ \A j \in Items : lock'[j] = IF j = i THEN p ELSE lock[j]
        /\ rows' = rows /\ lock' \in [Items -> Requests \cup {Free}]
    BY RowTypes DEF WriteInTx, Inv, TypeOK
  <1>3. HeldKept(p)
    BY <1>2 DEF HeldKept, RowFree
  <1>4. Grown
    BY <1>2, KeptIsReflexive DEF Grown
  <1>5. UnlockedSettled'
    BY <1>2, KindsOfItems DEF UnlockedSettled, Inv, IdentityInvariant
  <1>6. Kept(rows', draft')
    BY <1>2, KeptExcept DEF WriteInTx, Inv, TypeOK, IdentityInvariant
  <1>7. ForeignKeys(rows')
    BY <1>2 DEF Inv, IdentityInvariant
  <1> QED
    BY <1>1, <1>2, <1>3, <1>4, <1>5, <1>6, <1>7 DEF TablesSound

----------------------------------------------------------------------------
(***************************************************************************)
(* Steps that write nothing.                                               *)
(***************************************************************************)
LEMMA ReturnsSound ==
    ASSUME Inv, NEW p \in Requests, Return(p), UNCHANGED tables, ClockForward,
           ~HoldsLocks(p)
    PROVE  StepSound(p)
  <1>1. lock' = lock /\ lock \in [Items -> Requests \cup {Free}]
    BY DEF tables, Inv, TypeOK
  <1>2. \A i \in Items : lock'[i] # p
    BY <1>1, IdleHoldsNothing
  <1> QED
    BY <1>1, <1>2, TablesUnchanged, ReturnKeepsOthers, ReturnTyped, ReturnOwn DEF StepSound

LEMMA ReturnUnchangedSound ==
    ASSUME Inv, NEW p \in Requests, ReturnUnchanged(p), ~HoldsLocks(p)
    PROVE  StepSound(p)
  BY ReturnsSound DEF ReturnUnchanged, ClockForward, Inv, TypeOK

\* A request that has read and goes on, having written nothing.
LEMMA ReadSound ==
    ASSUME Inv, NEW p \in Requests, NEW i \in Items \cup {Null}, NEW next,
           GoOn(p, i, next), UNCHANGED <<tables, known>>, ClockForward, ~HoldsLocks(p),
           next \in {"authenticated", "find", "stamp", "issue", "insert", "touch", "revoke",
                     "user", "select"},
           next = "select" => kind[p] = "logoutAll",
           now' \in [Requests -> Nat], \A q \in Requests \ {p} : now'[q] = now[q],
           Targeted(p)', ClockRead(p)'
    PROVE  StepSound(p)
  <1>1. kind[p] = "resetPassword" => \A s \in known'[p] : rows'[s].present
    BY DEF Ended, tables, Inv, IdentityInvariant, RequestInvariant
  <1>2. known' \in [Requests -> SUBSET Sessions] /\ known' = known /\ UNCHANGED lock
    BY DEF tables, Inv, TypeOK
  <1>3. /\ HeldKept(p) /\ Grown /\ TablesSound'
        /\ rows' \in Tables /\ draft' \in Tables
    BY TablesUnchanged
  <1>4. OthersKept(p) /\ RequestsTyped' /\ RequestInvariant(p)'
    BY <1>1, <1>2, <1>3, GoOnSound
  <1> QED
    BY <1>3, <1>4 DEF StepSound

LEMMA SameTables ==
    ASSUME Inv, UNCHANGED tables
    PROVE  rows' = rows /\ lock' = lock /\ draft' = draft
  BY DEF tables

\* The state of a request that goes on.
LEMMA WentOn ==
    ASSUME Inv, NEW p \in Requests, NEW i, NEW next, GoOn(p, i, next)
    PROVE  pc'[p] = next /\ tgt'[p] = i /\ kind' = kind
  BY DEF GoOn, Inv, TypeOK

LEMMA ForwardBy ==
    ASSUME Inv, NEW d \in ClockSteps, clock' = clock + d
    PROVE  ClockForward /\ clock' > 0
  BY IdentityAssumption DEF ClockForward, Inv, TypeOK, IdentityInvariant

LEMMA NotMoved == ASSUME Inv, UNCHANGED clock PROVE ClockForward /\ clock' > 0
  BY DEF ClockForward, Inv, TypeOK, IdentityInvariant

LEMMA SameReadings ==
    ASSUME Inv, UNCHANGED now
    PROVE  now' \in [Requests -> Nat]
  BY DEF Inv, TypeOK

LEMMA FindUserSound == ASSUME Inv, NEW p \in Requests, FindUser(p) PROVE StepSound(p)
  <1>1. ~HoldsLocks(p)
    BY Idle DEF FindUser
  <1>2. CASE ReturnUnchanged(p)
    BY <1>1, <1>2, ReturnUnchangedSound
  <1>3. ASSUME NEW u \in Users, rows[u].present, GoOn(p, u, "issue"),
               UNCHANGED <<tables, clock, now, known>>
        PROVE  StepSound(p)
    <2>1. Targeted(p)' /\ ClockRead(p)'
      BY <1>3, WentOn, SameTables
      DEF Targeted, ClockRead, UserStatements, SessionStatements, TokenStatements,
          SharedStatements, Inv, IdentityInvariant, RequestInvariant
    <2> QED
      BY <1>1, <1>3, <2>1, KindsOfItems, NotMoved, SameReadings, ReadSound
  <1> QED
    BY <1>2, <1>3 DEF FindUser

LEMMA FindByRefreshTokenSound ==
    ASSUME Inv, NEW p \in Requests, FindByRefreshToken(p) PROVE StepSound(p)
  <1>1. ~HoldsLocks(p)
    BY Idle DEF FindByRefreshToken
  <1>2. PICK s \in Sessions, d \in ClockSteps :
          /\ clock' = clock + d
          /\ UNCHANGED tables
          /\ IF ActiveSession(rows[s], clock')
             THEN GoOn(p, s, "stamp") /\ UNCHANGED <<now, known>>
             ELSE Return(p)
    BY DEF FindByRefreshToken
  <1>3. ClockForward
    BY <1>2, ForwardBy
  <1>4. CASE Return(p)
    BY <1>1, <1>2, <1>3, <1>4, ReturnsSound
  <1>5. CASE GoOn(p, s, "stamp") /\ UNCHANGED <<now, known>> /\ rows[s].present
    <2>1. Targeted(p)'
      BY <1>2, <1>5, WentOn, SameTables
      DEF Targeted, UserStatements, SessionStatements, TokenStatements, SharedStatements,
          FindByRefreshToken, RefreshTokenKinds, TransactionKinds
    <2>2. ClockRead(p)'
      BY <1>3, <1>5, WentOn
      DEF ClockRead, ClockForward, Inv, TypeOK, IdentityInvariant, RequestInvariant
    <2> QED
      BY <1>1, <1>2, <1>3, <1>5, <2>1, <2>2, KindsOfItems, SameReadings, ReadSound
  <1> QED
    BY <1>2, <1>4, <1>5 DEF ActiveSession

LEMMA VerifyAccessTokenSound ==
    ASSUME Inv, NEW p \in Requests, VerifyAccessToken(p) PROVE StepSound(p)
  <1>1. ~HoldsLocks(p)
    BY Idle DEF VerifyAccessToken
  <1>2. CASE ReturnUnchanged(p)
    BY <1>1, <1>2, ReturnUnchangedSound
  <1>3. ASSUME NEW s \in Sessions, rows[s].present,
               GoOn(p, IF kind[p] = "logoutAll" THEN rows[s].user ELSE s, "stamp"),
               UNCHANGED <<tables, clock, now, known>>
        PROVE  StepSound(p)
    <2>1. rows[s].user \in Users
      BY <1>3, RowTypes DEF Inv, TypeOK
    <2>2. Targeted(p)'
      BY <1>3, <2>1, WentOn, SameTables
      DEF Targeted, UserStatements, SessionStatements, TokenStatements, SharedStatements,
          VerifyAccessToken, TransactionKinds
    <2>3. ClockRead(p)'
      BY <1>3, WentOn DEF ClockRead, Inv, IdentityInvariant, RequestInvariant
    <2> QED
      BY <1>1, <1>3, <2>1, <2>2, <2>3, KindsOfItems, NotMoved, SameReadings, ReadSound
  <1> QED
    BY <1>2, <1>3 DEF VerifyAccessToken

LEMMA AuthenticateSound ==
    ASSUME Inv, NEW p \in Requests, Authenticate(p) PROVE StepSound(p)
  <1>1. ~HoldsLocks(p)
    BY Idle DEF Authenticate
  <1>2. PICK s \in Sessions, d \in ClockSteps :
          /\ clock' = clock + d
          /\ UNCHANGED tables
          /\ IF ActiveSession(rows[s], clock')
             THEN GoOn(p, rows[s].user, "authenticated") /\ UNCHANGED <<now, known>>
             ELSE Return(p)
    BY DEF Authenticate
  <1>3. ClockForward
    BY <1>2, ForwardBy
  <1>4. CASE Return(p)
    BY <1>1, <1>2, <1>3, <1>4, ReturnsSound
  <1>5. CASE /\ GoOn(p, rows[s].user, "authenticated") /\ UNCHANGED <<now, known>>
             /\ rows[s].present
    <2>1. rows[s].user \in Users /\ rows[rows[s].user].present
      BY <1>5, RowTypes DEF Inv, TypeOK, IdentityInvariant, ForeignKeys
    <2>2. Targeted(p)'
      BY <1>2, <1>5, <2>1, WentOn, SameTables
      DEF Targeted, UserStatements, SessionStatements, TokenStatements, SharedStatements
    <2>3. ClockRead(p)'
      BY <1>3, <1>5, WentOn
      DEF ClockRead, ClockForward, Inv, TypeOK, IdentityInvariant, RequestInvariant
    <2> QED
      BY <1>1, <1>2, <1>3, <1>5, <2>1, <2>2, <2>3, KindsOfItems, SameReadings, ReadSound
  <1> QED
    BY <1>2, <1>4, <1>5 DEF ActiveSession

LEMMA BeginTxSound == ASSUME Inv, NEW p \in Requests, BeginTx(p) PROVE StepSound(p)
  <1>1. ~HoldsLocks(p) /\ kind[p] \in TransactionKinds
    BY Idle DEF BeginTx
  <1>2. ClockForward /\ now' = [now EXCEPT ![p] = clock'] /\ now[p] \in Nat
    BY ReadClockType DEF BeginTx, ClockForward, Inv, TypeOK
  <1>3. GoOn(p, tgt[p], "find") /\ UNCHANGED tables /\ tgt[p] \in Items \cup {Null}
    BY DEF BeginTx, Inv, TypeOK
  <1>4. known' = [known EXCEPT ![p] = {s \in Sessions : rows[s].present}]
    BY DEF BeginTx
  <1>5. known' \in [Requests -> SUBSET Sessions] /\ \A s \in known'[p] : rows'[s].present
    BY <1>3, <1>4, SameTables DEF Inv, TypeOK
  <1>6. /\ HeldKept(p) /\ Grown /\ TablesSound'
        /\ rows' \in Tables /\ draft' \in Tables
    BY <1>3, TablesUnchanged
  <1>7. Targeted(p)' /\ ClockRead(p)'
    BY <1>1, <1>2, <1>3, WentOn
    DEF Targeted, ClockRead, UserStatements, SessionStatements, TokenStatements,
        SharedStatements, ClockForward, Inv, TypeOK
  <1>8. now' \in [Requests -> Nat]
    BY <1>2 DEF ClockForward, Inv, TypeOK
  <1>9. OthersKept(p) /\ RequestsTyped' /\ RequestInvariant(p)'
    BY <1>1, <1>2, <1>3, <1>4, <1>5, <1>6, <1>7, <1>8, SameTables, GoOnSound
    DEF Inv, TypeOK
  <1> QED
    BY <1>6, <1>9 DEF StepSound

LEMMA FindOwnSessionSound ==
    ASSUME Inv, NEW p \in Requests, FindOwnSession(p) PROVE StepSound(p)
  <1>1. ~HoldsLocks(p)
    BY Idle DEF FindOwnSession
  <1>2. CASE ReturnUnchanged(p)
    BY <1>1, <1>2, ReturnUnchangedSound
  <1>3. ASSUME NEW s \in Sessions, NEW d \in ClockSteps, rows[s].present,
               clock' = clock + d, UNCHANGED tables,
               IF ActiveSession(rows[s], clock')
               THEN /\ GoOn(p, s, "revoke")
                    /\ now' = [now EXCEPT ![p] = clock']
                    /\ UNCHANGED known
               ELSE Return(p)
        PROVE  StepSound(p)
    <2>1. ClockForward /\ clock' > 0
      BY <1>3, ForwardBy
    <2>2. CASE Return(p)
      BY <1>1, <1>3, <2>1, <2>2, ReturnsSound
    <2>3. CASE GoOn(p, s, "revoke") /\ now' = [now EXCEPT ![p] = clock'] /\ UNCHANGED known
      <3>1. Targeted(p)' /\ ClockRead(p)' /\ now' \in [Requests -> Nat]
        BY <1>3, <2>1, <2>3, WentOn, SameTables
        DEF Targeted, ClockRead, UserStatements, SessionStatements, TokenStatements,
            SharedStatements, ClockForward, Inv, TypeOK
      <3> QED
        BY <1>1, <1>3, <2>1, <2>3, <3>1, KindsOfItems, ReadSound DEF Inv, TypeOK
    <2> QED
      BY <1>3, <2>2, <2>3
  <1> QED
    BY <1>2, <1>3 DEF FindOwnSession

LEMMA FindUnverifiedSound ==
    ASSUME Inv, NEW p \in Requests, FindUnverified(p) PROVE StepSound(p)
  <1>1. ~HoldsLocks(p)
    BY Idle DEF FindUnverified
  <1>2. tgt[p] \in Users /\ rows[tgt[p]].present
    BY DEF FindUnverified, Inv, IdentityInvariant, RequestInvariant, Targeted, UserStatements
  <1>3. CASE ReturnUnchanged(p)
    BY <1>1, <1>3, ReturnUnchangedSound
  <1>4. CASE GoOn(p, tgt[p], "issue") /\ UNCHANGED <<tables, clock, now, known>>
    <2>1. Targeted(p)' /\ ClockRead(p)'
      BY <1>2, <1>4, WentOn, SameTables
      DEF Targeted, ClockRead, UserStatements, SessionStatements, TokenStatements,
          SharedStatements, Inv, IdentityInvariant, RequestInvariant
    <2> QED
      BY <1>1, <1>2, <1>4, <2>1, KindsOfItems, NotMoved, SameReadings, ReadSound
  <1> QED
    BY <1>3, <1>4 DEF FindUnverified

LEMMA FindTokenSound == ASSUME Inv, NEW p \in Requests, FindToken(p) PROVE StepSound(p)
  <1>1. ~HoldsLocks(p) /\ kind[p] \in TransactionKinds
    BY Idle
    DEF FindToken, Inv, IdentityInvariant, RequestInvariant, Targeted, TokenStatements
  <1>2. CASE ReturnUnchanged(p)
    BY <1>1, <1>2, ReturnUnchangedSound
  <1>3. ASSUME NEW k \in Tokens, rows[k].present, rows[k].purpose = PurposeOf(p),
               GoOn(p, k, "stamp"), UNCHANGED <<tables, clock, now, known>>
        PROVE  StepSound(p)
    <2>1. OnToken(p)'
      BY <1>3, WentOn, SameTables DEF OnToken, PurposeOf
    <2>2. Targeted(p)' /\ ClockRead(p)'
      BY <1>1, <1>3, <2>1, WentOn
      DEF Targeted, ClockRead, UserStatements, SessionStatements, TokenStatements,
          SharedStatements, Inv, IdentityInvariant, RequestInvariant
    <2> QED
      BY <1>1, <1>3, <2>2, KindsOfItems, NotMoved, SameReadings, ReadSound
  <1> QED
    BY <1>2, <1>3 DEF FindToken, ValidToken

\* Reading the clock on the way to the next statement.
LEMMA ReadingSound ==
    ASSUME Inv, NEW p \in Requests, NEW next, ReadClock(p), GoOn(p, tgt[p], next),
           UNCHANGED <<tables, known>>, ~HoldsLocks(p),
           next \in {"issue", "insert", "touch", "revoke", "user", "select"},
           next = "select" => kind[p] = "logoutAll",
           Targeted(p)'
    PROVE  StepSound(p)
  <1>1. ClockForward /\ clock' > 0 /\ now' = [now EXCEPT ![p] = clock']
    BY ReadClockType DEF ClockForward
  <1>2. /\ now' \in [Requests -> Nat] /\ \A q \in Requests \ {p} : now'[q] = now[q]
        /\ ClockRead(p)' /\ tgt[p] \in Items \cup {Null}
    BY <1>1 DEF ClockForward, ClockRead, Inv, TypeOK
  <1> QED
    BY <1>1, <1>2, ReadSound

LEMMA StampSound == ASSUME Inv, NEW p \in Requests, Stamp(p) PROVE StepSound(p)
  <1>1. ~HoldsLocks(p) /\ pc[p] = "stamp" /\ Targeted(p)
    BY Idle DEF Stamp, Inv, IdentityInvariant, RequestInvariant
  <1>2. pc'[p] = AfterStamp(p) /\ tgt'[p] = tgt[p] /\ kind' = kind /\ rows' = rows
    BY WentOn, SameTables DEF Stamp
  <1>3. /\ AfterStamp(p) \in {"touch", "revoke", "user", "select"}
        /\ AfterStamp(p) = "select" <=> kind[p] = "logoutAll"
        /\ AfterStamp(p) = "user" <=> kind[p] \in TransactionKinds
    BY DEF AfterStamp, TransactionKinds
  <1>4. Targeted(p)'
    <2>1. OnToken(p) => OnToken(p)'
      BY <1>2 DEF OnToken, PurposeOf
    <2> QED
      BY <1>1, <1>2, <1>3, <2>1
      DEF Targeted, UserStatements, SessionStatements, TokenStatements, SharedStatements
  <1> QED
    BY <1>1, <1>3, <1>4, ReadingSound DEF Stamp

LEMMA IssueSound == ASSUME Inv, NEW p \in Requests, Issue(p) PROVE StepSound(p)
  <1>1. ~HoldsLocks(p) /\ tgt[p] \in Users /\ rows[tgt[p]].present
    BY Idle
    DEF Issue, Inv, IdentityInvariant, RequestInvariant, Targeted, UserStatements
  <1>2. Targeted(p)'
    BY <1>1, WentOn, SameTables
    DEF Issue, Targeted, UserStatements, SessionStatements, TokenStatements, SharedStatements
  <1> QED
    BY <1>1, <1>2, ReadingSound DEF Issue

----------------------------------------------------------------------------
(***************************************************************************)
(* Steps that write.                                                       *)
(***************************************************************************)
LEMMA WrittenAndReturned ==
    ASSUME Inv, NEW p \in Requests, NEW i \in Items, NEW new \in RowsOf(i),
           WriteAlone(i, new), lock[i] = Free,
           i \in Users => UserKept(rows[i], new),
           i \in Sessions => SessionKept(rows[i], new),
           i \in Tokens => TokenKept(rows[i], new),
           i \in Sessions /\ rows[i].present => rows[i].revoked = 0,
           i \in Sessions \cup Tokens /\ new.present => rows[new.user].present,
           Return(p), ClockForward, ~HoldsLocks(p)
    PROVE  StepSound(p)
  <1>1. /\ HeldKept(p) /\ Grown /\ TablesSound'
        /\ rows' \in Tables /\ draft' \in Tables
    BY WrittenAlone
  <1>2. lock' = lock /\ lock \in [Items -> Requests \cup {Free}]
    BY DEF WriteAlone, Inv, TypeOK
  <1>3. \A j \in Items : lock'[j] # p
    BY <1>2, IdleHoldsNothing
  <1> QED
    BY <1>1, <1>2, <1>3, ReturnKeepsOthers, ReturnTyped, ReturnOwn DEF StepSound

LEMMA InsertUserSound == ASSUME Inv, NEW p \in Requests, InsertUser(p) PROVE StepSound(p)
  <1>1. ~HoldsLocks(p)
    BY Idle DEF InsertUser
  <1>2. CASE ReturnUnchanged(p)
    BY <1>1, <1>2, ReturnUnchangedSound
  <1>3. ASSUME NEW u \in Users, NEW password \in Passwords, ~rows[u].present, ReadClock(p),
               WriteAlone(u, [present |-> TRUE, password |-> password,
                              verified |-> FALSE, updated |-> clock']),
               GoOn(p, u, "issue"), UNCHANGED known
        PROVE  StepSound(p)
    <2> DEFINE new == [present |-> TRUE, password |-> password,
                       verified |-> FALSE, updated |-> clock']
    <2>1. ClockForward /\ clock' > 0 /\ now' = [now EXCEPT ![p] = clock']
      BY <1>3, ReadClockType DEF ClockForward
    <2>2. new \in RowsOf(u) /\ u \in Items /\ UserKept(rows[u], new)
      BY <1>3, <2>1, KindsOfItems, RowsOfKinds DEF ClockForward, UserRow, UserKept
    <2>3. lock[u] = Free
      BY <1>3, <2>2, AbsentUnlocked
    <2>4. /\ HeldKept(p) /\ Grown /\ TablesSound'
          /\ rows' \in Tables /\ draft' \in Tables
      BY <1>3, <2>2, <2>3, WrittenAlone, KindsOfItems
    <2>5. rows'[u].present /\ UNCHANGED lock
      BY <1>3, RowTypes, <2>2 DEF WriteAlone, Inv, TypeOK
    <2>6. Targeted(p)' /\ ClockRead(p)' /\ now' \in [Requests -> Nat]
      BY <1>3, <2>1, <2>5, WentOn
      DEF Targeted, ClockRead, UserStatements, SessionStatements, TokenStatements,
          SharedStatements, ClockForward, Inv, TypeOK
    <2>7. kind[p] = "resetPassword" => \A s \in known'[p] : rows'[s].present
      BY <1>3 DEF InsertUser, Grown, Kept, SessionKept, Inv, TypeOK, IdentityInvariant,
                  RequestInvariant, Ended
    <2>8. OthersKept(p) /\ RequestsTyped' /\ RequestInvariant(p)'
      BY <1>1, <1>3, <2>1, <2>2, <2>4, <2>5, <2>6, <2>7, GoOnSound DEF Inv, TypeOK
    <2> QED
      BY <2>4, <2>5, <2>8 DEF StepSound
  <1> QED
    BY <1>2, <1>3 DEF InsertUser

LEMMA InsertSessionSound ==
    ASSUME Inv, NEW p \in Requests, InsertSession(p) PROVE StepSound(p)
  <1>1. ~HoldsLocks(p) /\ tgt[p] \in Users /\ rows[tgt[p]].present
    BY Idle
    DEF InsertSession, Inv, IdentityInvariant, RequestInvariant, Targeted, UserStatements
  <1>2. PICK s \in Sessions, d \in ClockSteps :
          /\ ~rows[s].present
          /\ clock' = clock + d
          /\ IF NewSession(p).expires > clock'
             THEN WriteAlone(s, NewSession(p))
             ELSE UNCHANGED tables
    BY DEF InsertSession
  <1>3. ClockForward /\ Return(p)
    BY <1>2, ForwardBy DEF InsertSession
  <1>4. CASE UNCHANGED tables
    BY <1>1, <1>3, <1>4, ReturnsSound
  <1>5. CASE WriteAlone(s, NewSession(p))
    <2>1. NewSession(p) \in RowsOf(s) /\ NewSession(p).user = tgt[p]
      <3>1. now[p] + SessionTTL \in Nat
        BY IdentityAssumption DEF Inv, TypeOK
      <3>2. NewSession(p) \in SessionRow /\ NewSession(p).user = tgt[p]
        BY <1>1, <3>1 DEF NewSession, SessionRow
      <3> QED
        BY <1>1, <3>2, RowsOfKinds
    <2>2. s \in Items /\ lock[s] = Free /\ SessionKept(rows[s], NewSession(p))
      BY <1>2, AbsentUnlocked, KindsOfItems DEF SessionKept
    <2> QED
      BY <1>1, <1>2, <1>3, <1>5, <2>1, <2>2, KindsOfItems, WrittenAndReturned
  <1> QED
    BY <1>2, <1>4, <1>5

LEMMA InsertTokenSound == ASSUME Inv, NEW p \in Requests, InsertToken(p) PROVE StepSound(p)
  <1>1. ~HoldsLocks(p) /\ tgt[p] \in Users /\ rows[tgt[p]].present
    BY Idle
    DEF InsertToken, Inv, IdentityInvariant, RequestInvariant, Targeted, UserStatements
  <1>2. PICK k \in Tokens, d \in ClockSteps :
          /\ ~rows[k].present
          /\ clock' = clock + d
          /\ IF NewToken(p).expires > clock'
             THEN WriteAlone(k, NewToken(p))
             ELSE UNCHANGED tables
    BY DEF InsertToken
  <1>3. ClockForward /\ Return(p)
    BY <1>2, ForwardBy DEF InsertToken
  <1>4. CASE UNCHANGED tables
    BY <1>1, <1>3, <1>4, ReturnsSound
  <1>5. CASE WriteAlone(k, NewToken(p))
    <2>1. NewToken(p) \in RowsOf(k) /\ NewToken(p).user = tgt[p]
      <3>1. now[p] + TokenTTL \in Nat
        BY IdentityAssumption DEF Inv, TypeOK
      <3>2. NewToken(p) \in TokenRow /\ NewToken(p).user = tgt[p]
        BY <1>1, <3>1 DEF NewToken, TokenRow, PurposeOf, Purposes
      <3> QED
        BY <1>1, <3>2, RowsOfKinds
    <2>2. k \in Items /\ lock[k] = Free /\ TokenKept(rows[k], NewToken(p))
      BY <1>2, AbsentUnlocked, KindsOfItems DEF TokenKept
    <2> QED
      BY <1>1, <1>2, <1>3, <1>5, <2>1, <2>2, KindsOfItems, WrittenAndReturned
  <1> QED
    BY <1>2, <1>4, <1>5

\* The session a request has found.
LEMMA SessionFound ==
    ASSUME Inv, NEW p \in Requests, pc[p] \in {"touch", "revoke"}, RowFree(p, tgt[p])
    PROVE  /\ ~HoldsLocks(p)
           /\ tgt[p] \in Sessions /\ tgt[p] \in Items /\ rows[tgt[p]].present
           /\ lock[tgt[p]] = Free
           /\ rows[tgt[p]] \in SessionRow
           /\ rows[tgt[p]].user \in Users /\ rows[rows[tgt[p]].user].present
  <1>1. ~HoldsLocks(p)
    BY Idle
  <1>2. tgt[p] \in Sessions /\ rows[tgt[p]].present
    BY DEF Inv, IdentityInvariant, RequestInvariant, Targeted, SessionStatements
  <1>3. lock[tgt[p]] = Free
    BY <1>1, <1>2, IdleHoldsNothing, KindsOfItems DEF RowFree
  <1> QED
    BY <1>1, <1>2, <1>3, RowTypes, KindsOfItems
    DEF Inv, TypeOK, IdentityInvariant, ForeignKeys

LEMMA TouchLastUsedAtSound ==
    ASSUME Inv, NEW p \in Requests, TouchLastUsedAt(p) PROVE StepSound(p)
  <1> DEFINE new == [rows[tgt[p]] EXCEPT !.used = now[p]]
  <1>1. /\ ~HoldsLocks(p)
        /\ tgt[p] \in Sessions /\ tgt[p] \in Items /\ rows[tgt[p]].present
        /\ lock[tgt[p]] = Free
        /\ rows[tgt[p]] \in SessionRow
        /\ rows[tgt[p]].user \in Users /\ rows[rows[tgt[p]].user].present
    BY SessionFound DEF TouchLastUsedAt
  <1>2. ClockForward /\ Return(p)
    BY NotMoved DEF TouchLastUsedAt
  <1>3. CASE UNCHANGED tables
    BY <1>1, <1>2, <1>3, ReturnsSound
  <1>4. CASE Touches(p) /\ WriteAlone(tgt[p], new)
    <2>1. new \in RowsOf(tgt[p]) /\ new.user = rows[tgt[p]].user
      BY <1>1, RowsOfKinds DEF SessionRow, Inv, TypeOK
    <2>2. SessionKept(rows[tgt[p]], new) /\ rows[tgt[p]].revoked = 0
      BY <1>1, <1>4 DEF SessionKept, SessionRow, Touches, ActiveSession
    <2> QED
      BY <1>1, <1>2, <1>4, <2>1, <2>2, KindsOfItems, WrittenAndReturned
  <1> QED
    BY <1>3, <1>4 DEF TouchLastUsedAt

LEMMA RevokeByIDSound == ASSUME Inv, NEW p \in Requests, RevokeByID(p) PROVE StepSound(p)
  <1> DEFINE new == [rows[tgt[p]] EXCEPT !.revoked = now[p]]
  <1>1. /\ ~HoldsLocks(p)
        /\ tgt[p] \in Sessions /\ tgt[p] \in Items /\ rows[tgt[p]].present
        /\ lock[tgt[p]] = Free
        /\ rows[tgt[p]] \in SessionRow
        /\ rows[tgt[p]].user \in Users /\ rows[rows[tgt[p]].user].present
    BY SessionFound DEF RevokeByID
  <1>2. ClockForward /\ Return(p)
    BY NotMoved DEF RevokeByID
  <1>3. CASE UNCHANGED tables
    BY <1>1, <1>2, <1>3, ReturnsSound
  <1>4. CASE rows[tgt[p]].revoked = 0 /\ WriteAlone(tgt[p], new)
    <2>1. new \in RowsOf(tgt[p]) /\ new.user = rows[tgt[p]].user
      BY <1>1, RowsOfKinds DEF SessionRow, Inv, TypeOK
    <2>2. SessionKept(rows[tgt[p]], new)
      BY <1>1 DEF SessionKept, SessionRow
    <2> QED
      BY <1>1, <1>2, <1>4, <2>1, <2>2, KindsOfItems, WrittenAndReturned
  <1> QED
    BY <1>3, <1>4 DEF RevokeByID

\* The rest of the snapshot, and the session the UPDATE comes to.
LEMMA CameTo ==
    ASSUME Inv, NEW p \in Requests, NEW rest \in SUBSET Sessions, ComeTo(p, rest)
    PROVE  /\ matched' \in [Requests -> SUBSET Sessions]
           /\ cursor' \in [Requests -> Sessions \cup {Null}]
           /\ matched'[p] = rest
           /\ IF rest = {} THEN cursor'[p] = Null ELSE cursor'[p] \in rest
           /\ \A q \in Requests \ {p} : matched'[q] = matched[q] /\ cursor'[q] = cursor[q]
  <1>1. /\ matched' \in [Requests -> SUBSET Sessions] /\ matched'[p] = rest
        /\ \A q \in Requests \ {p} : matched'[q] = matched[q]
    BY DEF ComeTo, Inv, TypeOK
  <1>2. PICK s \in (IF rest = {} THEN {Null} ELSE rest) : cursor' = [cursor EXCEPT ![p] = s]
    BY DEF ComeTo
  <1>3. s \in Sessions \cup {Null} /\ cursor \in [Requests -> Sessions \cup {Null}]
    BY DEF Inv, TypeOK
  <1>4. /\ cursor' \in [Requests -> Sessions \cup {Null}] /\ cursor'[p] = s
        /\ \A q \in Requests \ {p} : cursor'[q] = cursor[q]
    BY <1>2, <1>3
  <1> QED
    BY <1>1, <1>2, <1>4

LEMMA SelectSessionsSound ==
    ASSUME Inv, NEW p \in Requests, SelectSessions(p) PROVE StepSound(p)
  <1> DEFINE selected == {s \in Sessions : ActiveSession(rows[s], now[p])
                                           /\ rows[s].user = UserOf(p)}
  <1>1. /\ pc[p] = "select" /\ pc' = [pc EXCEPT ![p] = "sweep"] /\ pc'[p] = "sweep"
        /\ kind' = kind /\ tgt' = tgt
        /\ now' = now /\ known' = known /\ clock' = clock
        /\ RequestInvariant(p)
    BY DEF SelectSessions, Inv, TypeOK, IdentityInvariant
  <1>2. rows' = rows /\ lock' = lock /\ draft' = draft /\ UNCHANGED tables
    BY SameTables DEF SelectSessions
  <1>3. /\ matched' \in [Requests -> SUBSET Sessions]
        /\ cursor' \in [Requests -> Sessions \cup {Null}]
        /\ matched'[p] = selected
        /\ IF selected = {} THEN cursor'[p] = Null ELSE cursor'[p] \in selected
        /\ \A q \in Requests \ {p} : matched'[q] = matched[q] /\ cursor'[q] = cursor[q]
    <2>1. ComeTo(p, selected) /\ selected \in SUBSET Sessions
      BY DEF SelectSessions
    <2> HIDE DEF selected
    <2> QED
      BY <2>1, CameTo
  <1>4. OthersKept(p) /\ RequestsTyped'
    <2> HIDE DEF selected
    <2>1. OthersKept(p)
      BY <1>1, <1>3 DEF OthersKept, Inv, TypeOK
    <2>2. RequestsTyped'
      BY <1>1, <1>2, <1>3 DEF RequestsTyped, Inv, TypeOK
    <2> QED
      BY <2>1, <2>2
  <1>5. /\ UserOf(p)' = UserOf(p) /\ (InTransaction(p)' <=> InTransaction(p))
        /\ HoldsLocks(p) => HoldsLocks(p)'
    BY <1>1, <1>2 DEF UserOf, InTransaction, HoldsLocks
  <1>6. Targeted(p)' /\ ClockRead(p)'
    BY <1>1, <1>2
    DEF RequestInvariant, Targeted, ClockRead, OnToken, PurposeOf, UserStatements,
        SessionStatements, TokenStatements, SharedStatements
  <1>7. LocksOf(p)' /\ UserDrafted(p)' /\ TokenDrafted(p)'
    BY <1>1, <1>2, <1>5 DEF RequestInvariant, LocksOf, UserDrafted, TokenDrafted
  <1>8. Ended(p)'
    <2>1. known[p] \subseteq Sessions
      BY DEF Inv, TypeOK
    <2> QED
      BY <1>1, <1>2, <1>3, <1>5, <2>1 DEF RequestInvariant, Ended
  <1>9. SweepPlaced(p)'
    BY <1>1, <1>2, <1>3 DEF SweepPlaced, ActiveSession
  <1>10. RequestInvariant(p)'
    BY <1>6, <1>7, <1>8, <1>9 DEF RequestInvariant
  <1> QED
    BY <1>2, <1>4, <1>10, TablesUnchanged DEF StepSound

\* The row RevokeAllByUserID has come to, and what becomes of it.
LEMMA SweptRow ==
    ASSUME Inv, NEW p \in Requests, SweepSession(p)
    PROVE  /\ HoldsLocks(p)
           /\ cursor[p] \in Sessions /\ cursor[p] \in Items /\ cursor[p] \in matched[p]
           /\ rows[cursor[p]].present
           /\ Swept(p, cursor[p]) \in RowsOf(cursor[p])
           /\ SessionKept(rows[cursor[p]], Swept(p, cursor[p]))
           /\ Swept(p, cursor[p]).revoked # 0
           /\ rows[cursor[p]].revoked # 0 => Swept(p, cursor[p]) = rows[cursor[p]]
  <1> DEFINE s == cursor[p]
  <1>1. RequestInvariant(p) /\ pc[p] = "sweep" /\ matched[p] # {}
    BY DEF SweepSession, Inv, IdentityInvariant
  <1>2. HoldsLocks(p)
    BY <1>1 DEF RequestInvariant, Targeted, SharedStatements, HoldsLocks, InTransaction
  <1>3. s \in Sessions /\ s \in Items /\ s \in matched[p] /\ rows[s].present
    BY <1>1, KindsOfItems DEF RequestInvariant, SweepPlaced, Inv, TypeOK
  <1>4. rows[s] \in SessionRow /\ rows[s].user \in Users /\ now[p] \in Nat /\ now[p] > 0
    BY <1>1, <1>3, RowTypes DEF RequestInvariant, ClockRead, Inv, TypeOK
  <1>5. [rows[s] EXCEPT !.revoked = now[p]] \in RowsOf(s) /\ rows[s] \in RowsOf(s)
    BY <1>3, <1>4, RowsOfKinds DEF SessionRow
  <1>6. /\ SessionKept(rows[s], [rows[s] EXCEPT !.revoked = now[p]])
        /\ SessionKept(rows[s], rows[s])
        /\ [rows[s] EXCEPT !.revoked = now[p]].revoked = now[p]
    BY <1>3, <1>4 DEF SessionKept, SessionRow
  <1> QED
    BY <1>2, <1>3, <1>4, <1>5, <1>6 DEF Swept

LEMMA SweepSessionSound ==
    ASSUME Inv, NEW p \in Requests, SweepSession(p) PROVE StepSound(p)
  <1> DEFINE s == cursor[p]
             new == Swept(p, s)
  <1>1. /\ pc[p] = "sweep" /\ RowFree(p, s) /\ WriteInTx(p, s, new)
        /\ ComeTo(p, matched[p] \ {s})
        /\ UNCHANGED <<clock, kind, pc, tgt, now, known>>
        /\ RequestInvariant(p)
    BY DEF SweepSession, Inv, IdentityInvariant
  <1>2. /\ HoldsLocks(p)
        /\ s \in Sessions /\ s \in Items /\ s \in matched[p]
        /\ rows[s].present
        /\ new \in RowsOf(s)
        /\ SessionKept(rows[s], new)
        /\ new.revoked # 0
        /\ rows[s].revoked # 0 => new = rows[s]
    BY SweptRow
  <1> HIDE DEF new, s
  <1>3. /\ HeldKept(p) /\ Grown /\ TablesSound'
        /\ rows' \in Tables /\ draft' \in Tables
        /\ lock' \in [Items -> Requests \cup {Free}]
    BY <1>1, <1>2, KindsOfItems, WrittenInTx
  <1>4. /\ rows' = rows
        /\ \A i \in Items : draft'[i] = IF i = s THEN new ELSE draft[i]
        /\ \A i \in Items : lock'[i] = IF i = s THEN p ELSE lock[i]
    BY <1>1, <1>2, RowTypes DEF WriteInTx, Inv, TypeOK
  <1>5. /\ matched' \in [Requests -> SUBSET Sessions]
        /\ cursor' \in [Requests -> Sessions \cup {Null}]
        /\ matched'[p] = matched[p] \ {s}
        /\ IF matched'[p] = {} THEN cursor'[p] = Null ELSE cursor'[p] \in matched'[p]
        /\ \A q \in Requests \ {p} : matched'[q] = matched[q] /\ cursor'[q] = cursor[q]
    <2>1. matched[p] \ {s} \in SUBSET Sessions
      BY DEF Inv, TypeOK
    <2> QED
      BY <1>1, <2>1, CameTo
  <1>6. OthersKept(p) /\ RequestsTyped'
    BY <1>1, <1>3, <1>5 DEF OthersKept, RequestsTyped, Inv, TypeOK
  <1>7. /\ UserOf(p)' = UserOf(p) /\ HoldsLocks(p)'
        /\ InTransaction(p)' <=> InTransaction(p)
    BY <1>1, <1>2, <1>4 DEF UserOf, InTransaction, HoldsLocks
  <1>8. Targeted(p)' /\ ClockRead(p)' /\ TokenDrafted(p)'
    BY <1>1, <1>4
    DEF RequestInvariant, Targeted, ClockRead, TokenDrafted, OnToken, PurposeOf,
        UserStatements, SessionStatements, TokenStatements, SharedStatements
  <1>9. LocksOf(p)'
    BY <1>1, <1>2, <1>4, <1>7 DEF RequestInvariant, LocksOf
  <1>10. UserDrafted(p)'
    <2>1. InTransaction(p) => UserOf(p) \in Users
      BY TransactionOnToken, OwnerStored
    <2> QED
      BY <1>1, <1>2, <1>4, <1>7, <2>1, KindsOfItems DEF RequestInvariant, UserDrafted
  <1>11. Ended(p)'
    <2>1. known[p] \subseteq Items /\ Ended(p)
      BY <1>1, KindsOfItems DEF RequestInvariant, Inv, TypeOK
    <2> QED
      BY <1>1, <1>2, <1>4, <1>5, <1>7, <2>1 DEF Ended, Revoking
  <1>12. SweepPlaced(p)'
    BY <1>1, <1>4, <1>5 DEF RequestInvariant, SweepPlaced
  <1>13. RequestInvariant(p)'
    BY <1>8, <1>9, <1>10, <1>11, <1>12 DEF RequestInvariant
  <1> QED
    BY <1>3, <1>6, <1>13 DEF StepSound

----------------------------------------------------------------------------
(***************************************************************************)
(* The transactions' writes to users and tokens, and their end.            *)
(***************************************************************************)
\* The user's row is the first a transaction writes.
LEMMA UserWritten ==
    ASSUME Inv, NEW p \in Requests, pc[p] = "user", RowFree(p, UserOf(p)),
           NEW new, WriteInTx(p, UserOf(p), new),
           NEW next \in {"select", "mark"}, pc' = [pc EXCEPT ![p] = next],
           UNCHANGED <<clock, kind, tgt, now, matched, cursor, known>>,
           new \in UserRow, new.present, new.updated = now[p],
           IF kind[p] = "resetPassword"
           THEN new.verified = rows[UserOf(p)].verified /\ next = "select"
           ELSE new.password = rows[UserOf(p)].password /\ new.verified
    PROVE  StepSound(p)
  <1>1. RequestInvariant(p) /\ ~HoldsLocks(p) /\ matched[p] = {} /\ cursor[p] = Null
    BY Idle, IdleSweepsNothing DEF Inv, IdentityInvariant
  <1>2. kind[p] \in TransactionKinds /\ OnToken(p)
    BY <1>1 DEF RequestInvariant, Targeted, TokenStatements
  <1>3. UserOf(p) \in Users /\ UserOf(p) \in Items
    BY <1>2, OwnerStored, KindsOfItems
  <1>4. new \in RowsOf(UserOf(p)) /\ UserKept(rows[UserOf(p)], new)
    BY <1>3, RowsOfKinds DEF UserKept
  <1>5. /\ HeldKept(p) /\ Grown /\ TablesSound'
        /\ rows' \in Tables /\ draft' \in Tables
        /\ lock' \in [Items -> Requests \cup {Free}]
    BY <1>3, <1>4, KindsOfItems, WrittenInTx
  <1>6. /\ draft'[UserOf(p)] = new /\ rows' = rows
        /\ lock'[UserOf(p)] = p
        /\ \A i \in Items : lock'[i] = p => i = UserOf(p)
    BY <1>1, <1>3, RowTypes, IdleHoldsNothing DEF WriteInTx, Inv, TypeOK
  <1>7. OthersKept(p) /\ RequestsTyped'
    BY <1>5 DEF OthersKept, RequestsTyped, Inv, TypeOK
  <1>8. pc'[p] = next /\ UserOf(p)' = UserOf(p) /\ InTransaction(p)' /\ OnToken(p)'
    BY <1>2, <1>6 DEF UserOf, InTransaction, OnToken, PurposeOf, Inv, TypeOK
  <1>9. Targeted(p)' /\ ClockRead(p)' /\ TokenDrafted(p)' /\ SweepPlaced(p)'
    BY <1>1, <1>2, <1>6, <1>8
    DEF RequestInvariant, Targeted, ClockRead, TokenDrafted, SweepPlaced, UserStatements,
        SessionStatements, TokenStatements, SharedStatements
  <1>10. LocksOf(p)'
    BY <1>6, <1>8 DEF LocksOf, HoldsLocks
  <1>11. UserDrafted(p)'
    BY <1>6, <1>8 DEF UserDrafted
  <1>12. Ended(p)'
    BY <1>1, <1>6, <1>8 DEF RequestInvariant, Ended
  <1>13. RequestInvariant(p)'
    BY <1>9, <1>10, <1>11, <1>12 DEF RequestInvariant
  <1> QED
    BY <1>5, <1>7, <1>13 DEF StepSound

LEMMA UpdateUserSound == ASSUME Inv, NEW p \in Requests, UpdateUser(p) PROVE StepSound(p)
  <1> DEFINE u == UserOf(p)
             reset(password) == [rows[u] EXCEPT !.password = password, !.updated = now[p]]
             verified == [rows[u] EXCEPT !.verified = TRUE, !.updated = now[p]]
  <1>1. /\ pc[p] = "user" /\ RowFree(p, u)
        /\ UNCHANGED <<clock, kind, tgt, now, matched, cursor, known>>
    BY DEF UpdateUser
  <1>2. OnToken(p)
    BY <1>1 DEF Inv, IdentityInvariant, RequestInvariant, Targeted, TokenStatements
  <1>3. rows[u] \in UserRow /\ rows[u].present /\ now[p] \in Nat
    BY <1>2, OwnerStored, RowTypes DEF Inv, TypeOK
  <1>4. ASSUME kind[p] = "resetPassword", NEW password \in Passwords,
               WriteInTx(p, u, reset(password)), pc' = [pc EXCEPT ![p] = "select"]
        PROVE  StepSound(p)
    <2>1. /\ reset(password) \in UserRow /\ reset(password).present
          /\ reset(password).updated = now[p]
          /\ reset(password).verified = rows[u].verified
      BY <1>3 DEF UserRow
    <2> QED
      BY <1>1, <1>4, <2>1, UserWritten
  <1>5. ASSUME kind[p] # "resetPassword",
               WriteInTx(p, u, verified), pc' = [pc EXCEPT ![p] = "mark"]
        PROVE  StepSound(p)
    <2>1. /\ verified \in UserRow /\ verified.present /\ verified.updated = now[p]
          /\ verified.password = rows[u].password /\ verified.verified
      BY <1>3 DEF UserRow
    <2> QED
      BY <1>1, <1>5, <2>1, UserWritten
  <1> QED
    BY <1>4, <1>5 DEF UpdateUser

LEMMA MarkUsedSound == ASSUME Inv, NEW p \in Requests, MarkUsed(p) PROVE StepSound(p)
  <1> DEFINE k == tgt[p]
             new == [rows[k] EXCEPT !.used = now[p]]
  <1>1. /\ pc[p] = "mark" /\ RowFree(p, k) /\ RequestInvariant(p)
        /\ UNCHANGED <<clock, kind, tgt, now, matched, cursor, known>>
        /\ matched[p] = {} /\ cursor[p] = Null
    BY DEF MarkUsed, Inv, IdentityInvariant, RequestInvariant, SweepPlaced
  <1>2. kind[p] \in TransactionKinds /\ OnToken(p) /\ InTransaction(p)
    BY <1>1 DEF RequestInvariant, Targeted, TokenStatements, InTransaction
  <1>3. k \in Tokens /\ k \in Items /\ UserOf(p) \in Users /\ UserOf(p) \in Items
    BY <1>2, OwnerStored, KindsOfItems
  <1>4. CASE UNCHANGED tables /\ pc' = [pc EXCEPT ![p] = "fail"]
    <2>1. /\ HeldKept(p) /\ Grown /\ TablesSound'
          /\ rows' \in Tables /\ draft' \in Tables
      BY <1>4, TablesUnchanged
    <2>2. rows' = rows /\ lock' = lock /\ draft' = draft
      BY <1>4, SameTables
    <2>3. OthersKept(p) /\ RequestsTyped'
      BY <1>1, <1>4, <2>2 DEF OthersKept, RequestsTyped, Inv, TypeOK
    <2>4. pc'[p] = "fail" /\ UserOf(p)' = UserOf(p) /\ InTransaction(p)' /\ OnToken(p)'
      BY <1>1, <1>2, <1>4, <2>2 DEF UserOf, InTransaction, OnToken, PurposeOf, Inv, TypeOK
    <2>5. Targeted(p)' /\ ClockRead(p)' /\ TokenDrafted(p)' /\ SweepPlaced(p)'
      BY <1>1, <1>2, <2>2, <2>4
      DEF RequestInvariant, Targeted, ClockRead, TokenDrafted, SweepPlaced, UserStatements,
          SessionStatements, TokenStatements, SharedStatements
    <2>6. LocksOf(p)' /\ UserDrafted(p)' /\ Ended(p)'
      BY <1>1, <1>2, <2>2, <2>4
      DEF RequestInvariant, LocksOf, HoldsLocks, UserDrafted, Ended
    <2>7. RequestInvariant(p)'
      BY <2>5, <2>6 DEF RequestInvariant
    <2> QED
      BY <2>1, <2>3, <2>7 DEF StepSound
  <1>5. CASE ValidToken(rows[k], now[p]) /\ WriteInTx(p, k, new)
             /\ pc' = [pc EXCEPT ![p] = "end"]
    <2>1. rows[k] \in TokenRow /\ rows[k].user \in Users /\ now[p] \in Nat
      BY <1>2, <1>3, RowTypes DEF OnToken, Inv, TypeOK
    <2>2. new \in RowsOf(k) /\ TokenKept(rows[k], new)
      BY <1>3, <2>1, RowsOfKinds DEF TokenRow, TokenKept
    <2>3. /\ HeldKept(p) /\ Grown /\ TablesSound'
          /\ rows' \in Tables /\ draft' \in Tables
          /\ lock' \in [Items -> Requests \cup {Free}]
      BY <1>1, <1>3, <1>5, <2>2, KindsOfItems, WrittenInTx
    <2>4. /\ rows' = rows
          /\ \A i \in Items : draft'[i] = IF i = k THEN new ELSE draft[i]
          /\ \A i \in Items : lock'[i] = IF i = k THEN p ELSE lock[i]
      BY <1>3, <1>5, RowTypes DEF WriteInTx, Inv, TypeOK
    <2>5. OthersKept(p) /\ RequestsTyped'
      BY <1>1, <1>5, <2>3 DEF OthersKept, RequestsTyped, Inv, TypeOK
    <2>6. pc'[p] = "end" /\ UserOf(p)' = UserOf(p) /\ InTransaction(p)' /\ OnToken(p)'
      BY <1>1, <1>2, <1>5, <2>4 DEF UserOf, InTransaction, OnToken, PurposeOf, Inv, TypeOK
    <2>7. Targeted(p)' /\ ClockRead(p)' /\ SweepPlaced(p)'
      BY <1>1, <1>2, <2>4, <2>6
      DEF RequestInvariant, Targeted, ClockRead, SweepPlaced, UserStatements,
          SessionStatements, TokenStatements, SharedStatements
    <2>8. LocksOf(p)'
      BY <1>1, <1>2, <1>3, <2>4, <2>6, KindsOfItems DEF RequestInvariant, LocksOf, HoldsLocks
    <2>9. UserDrafted(p)'
      BY <1>1, <1>2, <1>3, <2>4, <2>6, KindsOfItems DEF RequestInvariant, UserDrafted
    <2>10. TokenDrafted(p)'
      BY <1>1, <1>3, <1>5, <2>4 DEF TokenDrafted, ValidToken
    <2>11. Ended(p)'
      <3>1. known[p] \subseteq Sessions
        BY DEF Inv, TypeOK
      <3> QED
        BY <1>1, <1>3, <2>4, <2>6, <3>1, KindsOfItems DEF RequestInvariant, Ended, Revoking
    <2>12. RequestInvariant(p)'
      BY <2>7, <2>8, <2>9, <2>10, <2>11 DEF RequestInvariant
    <2> QED
      BY <2>3, <2>5, <2>12 DEF StepSound
  <1> QED
    BY <1>4, <1>5 DEF MarkUsed

\* The locks of p are given back.
LEMMA Unlocked ==
    ASSUME Inv, NEW p \in Requests, Unlock(p)
    PROVE  /\ lock' \in [Items -> Requests \cup {Free}]
           /\ \A i \in Items : lock'[i] # p /\ lock'[i] \in {lock[i], Free}
           /\ \A i \in Items : lock[i] # p => lock'[i] = lock[i]
  BY KindsOfItems DEF Unlock, Inv, TypeOK

LEMMA DiscardSound == ASSUME Inv, NEW p \in Requests, Discard(p) PROVE StepSound(p)
  <1>1. /\ draft' = [i \in Items |-> IF lock[i] = p THEN rows[i] ELSE draft[i]]
        /\ rows' = rows /\ Return(p) /\ clock' = clock
    BY DEF Discard
  <1>2. /\ lock' \in [Items -> Requests \cup {Free}]
        /\ \A i \in Items : lock'[i] # p /\ lock'[i] \in {lock[i], Free}
        /\ \A i \in Items : lock[i] # p => lock'[i] = lock[i]
    BY Unlocked DEF Discard
  <1>3. rows' \in Tables /\ draft' \in Tables
    <2>1. \A i \in Items : draft'[i] \in RowsOf(i)
      BY <1>1, RowTypes DEF Inv, TypeOK
    <2>2. draft' = [i \in Items |-> draft'[i]]
      BY <1>1
    <2> QED
      BY <1>1, <2>1, <2>2, Tabled DEF Inv, TypeOK
  <1>4. HeldKept(p)
    BY <1>1, <1>2 DEF HeldKept
  <1>5. Grown
    BY <1>1, KeptIsReflexive DEF Grown
  <1>6. TablesSound'
    <2>1. UnlockedSettled'
      BY <1>1, <1>2 DEF UnlockedSettled, Inv, IdentityInvariant
    <2>2. Kept(rows', draft')
      BY <1>1, KindsOfItems
      DEF Kept, UserKept, SessionKept, TokenKept, Inv, IdentityInvariant
    <2> QED
      BY <1>1, <2>1, <2>2 DEF TablesSound, Inv, IdentityInvariant
  <1>7. ClockForward
    BY <1>1, NotMoved
  <1> QED
    BY <1>1, <1>2, <1>3, <1>4, <1>5, <1>6, <1>7, ReturnKeepsOthers, ReturnTyped, ReturnOwn
    DEF StepSound

LEMMA PublishSound == ASSUME Inv, NEW p \in Requests, Publish(p) PROVE StepSound(p)
  <1>1. /\ rows' = [i \in Items |-> IF lock[i] = p THEN draft[i] ELSE rows[i]]
        /\ draft' = draft /\ Return(p) /\ clock' = clock
    BY DEF Publish, Visible
  <1>2. /\ lock' \in [Items -> Requests \cup {Free}]
        /\ \A i \in Items : lock'[i] # p /\ lock'[i] \in {lock[i], Free}
        /\ \A i \in Items : lock[i] # p => lock'[i] = lock[i]
    BY Unlocked DEF Publish
  <1>3. rows' \in Tables /\ draft' \in Tables
    <2>1. \A i \in Items : rows'[i] \in RowsOf(i)
      BY <1>1, RowTypes DEF Inv, TypeOK
    <2>2. rows' = [i \in Items |-> rows'[i]]
      BY <1>1
    <2> QED
      BY <1>1, <2>1, <2>2, Tabled DEF Inv, TypeOK
  <1>4. HeldKept(p)
    BY <1>1, <1>2 DEF HeldKept
  <1>5. Kept(rows, rows')
    BY <1>1, KindsOfItems DEF Kept, UserKept, SessionKept, TokenKept, Inv, IdentityInvariant
  <1>6. Grown
    BY <1>1, <1>5, Locked, KindsOfItems DEF Grown
  <1>7. TablesSound'
    <2>1. UnlockedSettled'
      BY <1>1, <1>2 DEF UnlockedSettled, Inv, IdentityInvariant
    <2>2. Kept(rows', draft')
      <3>1. \A j \in Items : \/ rows'[j] = rows[j] /\ draft'[j] = draft[j]
                             \/ rows'[j] = draft'[j]
        BY <1>1
      <3> QED
        BY <3>1, KindsOfItems
        DEF Kept, UserKept, SessionKept, TokenKept, Inv, IdentityInvariant
    <2>3. ForeignKeys(rows')
      <3> SUFFICES ASSUME NEW j \in Sessions \cup Tokens, rows'[j].present
                   PROVE  rows'[rows'[j].user].present
        BY DEF ForeignKeys
      <3>1. j \in Items /\ rows[j].present
        BY <1>1, Locked, KindsOfItems
      <3>2. rows'[j].user = rows[j].user
        BY <1>5, <3>1 DEF Kept, SessionKept, TokenKept
      <3>3. rows[j].user \in Users
        BY <3>1, RowTypes DEF Inv, TypeOK
      <3> QED
        BY <1>5, <3>1, <3>2, <3>3
        DEF Kept, UserKept, Inv, IdentityInvariant, ForeignKeys
    <2> QED
      BY <2>1, <2>2, <2>3 DEF TablesSound
  <1>8. ClockForward
    BY <1>1, NotMoved
  <1> QED
    BY <1>1, <1>2, <1>3, <1>4, <1>6, <1>7, <1>8, ReturnKeepsOthers, ReturnTyped, ReturnOwn
    DEF StepSound

\* In a transaction the sessions stay locked, alone the statement commits.
LEMMA EndSweepSound ==
    ASSUME Inv, NEW p \in Requests, EndSweep(p) PROVE StepSound(p)
  <1>1. CASE Publish(p)
    BY <1>1, PublishSound
  <1>2. CASE kind[p] \in TransactionKinds
    <2>1. /\ pc[p] = "sweep" /\ matched[p] = {} /\ pc' = [pc EXCEPT ![p] = "mark"]
          /\ UNCHANGED <<tables, clock, kind, tgt, now, matched, cursor, known>>
          /\ RequestInvariant(p)
      BY <1>2 DEF EndSweep, Inv, IdentityInvariant
    <2>2. /\ HeldKept(p) /\ Grown /\ TablesSound'
          /\ rows' \in Tables /\ draft' \in Tables
      BY <2>1, TablesUnchanged
    <2>3. rows' = rows /\ lock' = lock /\ draft' = draft
      BY <2>1, SameTables
    <2>4. OthersKept(p) /\ RequestsTyped'
      BY <2>1, <2>3 DEF OthersKept, RequestsTyped, Inv, TypeOK
    <2>5. OnToken(p) /\ InTransaction(p)
      BY <1>2, <2>1, TransactionOnToken DEF InTransaction
    <2>6. pc'[p] = "mark" /\ UserOf(p)' = UserOf(p) /\ InTransaction(p)' /\ OnToken(p)'
      BY <1>2, <2>1, <2>3, <2>5 DEF UserOf, InTransaction, OnToken, PurposeOf, Inv, TypeOK
    <2>7. Targeted(p)' /\ ClockRead(p)' /\ TokenDrafted(p)' /\ SweepPlaced(p)'
      BY <1>2, <2>1, <2>3, <2>6
      DEF RequestInvariant, Targeted, ClockRead, TokenDrafted, SweepPlaced, UserStatements,
          SessionStatements, TokenStatements, SharedStatements
    <2>8. LocksOf(p)' /\ UserDrafted(p)'
      BY <2>1, <2>3, <2>5, <2>6 DEF RequestInvariant, LocksOf, HoldsLocks, UserDrafted
    <2>9. Ended(p)'
      BY <2>1, <2>3, <2>6 DEF RequestInvariant, Ended, Revoking
    <2>10. RequestInvariant(p)'
      BY <2>7, <2>8, <2>9 DEF RequestInvariant
    <2> QED
      BY <2>2, <2>4, <2>10 DEF StepSound
  <1> QED
    BY <1>1, <1>2 DEF EndSweep

----------------------------------------------------------------------------
(***************************************************************************)
(* The invariant.                                                          *)
(***************************************************************************)
LEMMA StepIsSound ==
    ASSUME Inv, NEW p \in Requests, Start(p) \/ Progress(p) \/ Abort(p)
    PROVE  StepSound(p)
  <1>1. Start(p) => StepSound(p)
    BY InsertUserSound, FindUserSound, FindByRefreshTokenSound, VerifyAccessTokenSound,
       AuthenticateSound, BeginTxSound
    DEF Start
  <1>2. Commit(p) => StepSound(p)
    BY PublishSound DEF Commit
  <1>3. Rollback(p) \/ Abort(p) \/ DeadlockVictim(p) => StepSound(p)
    BY DiscardSound DEF Rollback, Abort, DeadlockVictim
  <1>4. Progress(p) => StepSound(p)
    BY <1>2, <1>3, FindOwnSessionSound, FindUnverifiedSound, FindTokenSound, StampSound,
       IssueSound, InsertSessionSound, InsertTokenSound, TouchLastUsedAtSound,
       RevokeByIDSound, SelectSessionsSound, SweepSessionSound, EndSweepSound,
       UpdateUserSound, MarkUsedSound
    DEF Progress
  <1> QED
    BY <1>1, <1>3, <1>4

LEMMA InitInv == Init => Inv
  <1> SUFFICES ASSUME Init PROVE Inv
    OBVIOUS
  <1>1. rows \in Tables /\ ForeignKeys(rows) /\ draft = rows /\ clock > 0
    BY IdentityAssumption DEF Init, Epoch
  <1>2. TypeOK
    BY <1>1, IdentityAssumption DEF Init, TypeOK, Epoch
  <1>3. UnlockedSettled /\ Kept(rows, draft)
    BY <1>1, KeptIsReflexive DEF UnlockedSettled
  <1>4. ASSUME NEW p \in Requests PROVE RequestInvariant(p)
    <2>1. /\ pc[p] = "start" /\ now[p] = 0 /\ matched[p] = {} /\ cursor[p] = Null
          /\ known[p] = {} /\ clock = 2
          /\ \A i \in Items : lock[i] = Free
      BY DEF Init, Epoch
    <2> QED
      BY <2>1, KindsOfItems
      DEF RequestInvariant, Targeted, ClockRead, LocksOf, UserDrafted, TokenDrafted, Ended,
          SweepPlaced, InTransaction, UserStatements, SessionStatements, TokenStatements,
          SharedStatements
  <1> QED
    BY <1>1, <1>2, <1>3, <1>4 DEF Inv, IdentityInvariant

LEMMA SoundStepInv ==
    ASSUME Inv, NEW p \in Requests, StepSound(p)
    PROVE  Inv'
  <1>1. TypeOK'
    BY DEF StepSound, RequestsTyped, TypeOK
  <1>2. clock' > 0 /\ TablesSound'
    BY DEF StepSound, OthersKept, Inv, TypeOK, IdentityInvariant
  <1>3. \A q \in Requests : RequestInvariant(q)'
    BY OtherRequest DEF StepSound
  <1> QED
    BY <1>1, <1>2, <1>3 DEF Inv, IdentityInvariant, TablesSound

LEMMA StutterInv == Inv /\ UNCHANGED vars => Inv'
  <1> SUFFICES ASSUME Inv, UNCHANGED vars PROVE Inv'
    OBVIOUS
  <1>1. /\ rows' = rows /\ draft' = draft /\ lock' = lock /\ clock' = clock /\ kind' = kind
        /\ pc' = pc /\ tgt' = tgt /\ now' = now /\ matched' = matched /\ cursor' = cursor
        /\ known' = known
    BY DEF vars
  <1>2. TypeOK'
    BY <1>1 DEF Inv, TypeOK
  <1>3. clock' > 0 /\ UnlockedSettled' /\ Kept(rows', draft') /\ ForeignKeys(rows')
    BY <1>1 DEF Inv, IdentityInvariant, UnlockedSettled
  <1>4. ASSUME NEW p \in Requests PROVE RequestInvariant(p)'
    BY <1>1
    DEF Inv, IdentityInvariant, RequestInvariant, Targeted, ClockRead, LocksOf, UserDrafted,
        TokenDrafted, Ended, Revoking, SweepPlaced, HoldsLocks, InTransaction, OnToken, UserOf,
        PurposeOf
  <1> QED
    BY <1>2, <1>3, <1>4 DEF Inv, IdentityInvariant

LEMMA StepInv == Inv /\ [Next]_vars => Inv'
  BY StepIsSound, SoundStepInv, StutterInv DEF Next

\* Every variable holds a value of its type - no session or token is ever stored without
\* its user, neither in a committed nor in an uncommitted row - and each request is about
\* what, has locked what and has drafted what its next statement relies on.
THEOREM IdentityInductive == Spec => []Inv
  BY InitInv, StepInv, PTL DEF Spec

----------------------------------------------------------------------------
(***************************************************************************)
(* What the invariant is for.                                              *)
(***************************************************************************)
\* Only a commit changes a stored user or a stored token.
Quiet == \A i \in Users \cup Tokens : rows[i].present => rows'[i] = rows[i]

LEMMA QuietWhenUnchanged == UNCHANGED tables \/ UNCHANGED rows => Quiet
  BY DEF Quiet, tables

LEMMA QuietExcept ==
    ASSUME Inv, NEW i \in Items, NEW new, WriteAlone(i, new), i \in Sessions \/ ~rows[i].present
    PROVE  Quiet
  BY RowTypes, KindsOfItems DEF Quiet, WriteAlone, Inv, TypeOK

LEMMA QuietUnlessCommit ==
    ASSUME Inv, NEW p \in Requests, Start(p) \/ Progress(p) \/ Abort(p), ~Commit(p)
    PROVE  Quiet
  <1>1. Start(p) => Quiet
    <2>1. InsertUser(p) => Quiet
      BY QuietExcept, QuietWhenUnchanged, KindsOfItems DEF InsertUser, ReturnUnchanged
    <2>2. FindUser(p) \/ FindByRefreshToken(p) \/ VerifyAccessToken(p) => Quiet
      BY QuietWhenUnchanged
      DEF FindUser, FindByRefreshToken, VerifyAccessToken, ReturnUnchanged
    <2>3. Authenticate(p) \/ BeginTx(p) => Quiet
      BY QuietWhenUnchanged DEF Authenticate, BeginTx
    <2> QED
      BY <2>1, <2>2, <2>3 DEF Start
  <1>2. FindOwnSession(p) \/ FindUnverified(p) \/ FindToken(p) => Quiet
    BY QuietWhenUnchanged DEF FindOwnSession, FindUnverified, FindToken, ReturnUnchanged
  <1>3. Stamp(p) \/ Issue(p) \/ SelectSessions(p) => Quiet
    BY QuietWhenUnchanged DEF Stamp, Issue, SelectSessions
  <1>4. InsertSession(p) \/ InsertToken(p) => Quiet
    BY QuietExcept, QuietWhenUnchanged, KindsOfItems DEF InsertSession, InsertToken
  <1>5. TouchLastUsedAt(p) \/ RevokeByID(p) => Quiet
    BY SessionFound, QuietExcept, QuietWhenUnchanged DEF TouchLastUsedAt, RevokeByID
  <1>6. SweepSession(p) \/ EndSweep(p) => Quiet
    <2>1. SweepSession(p) => Quiet
      BY QuietWhenUnchanged DEF SweepSession, WriteInTx
    <2>2. ASSUME EndSweep(p), kind[p] \notin TransactionKinds PROVE Quiet
      <3>1. \A i \in Items : rows'[i] = IF lock[i] = p THEN draft[i] ELSE rows[i]
        BY <2>2 DEF EndSweep, Publish, Visible
      <3>2. \A i \in Users \cup Tokens : i \in Items /\ lock[i] # p
        BY <2>2, Locked, KindsOfItems DEF EndSweep, InTransaction
      <3> QED
        BY <3>1, <3>2 DEF Quiet
    <2> QED
      BY <2>1, <2>2, QuietWhenUnchanged DEF EndSweep
  <1>7. UpdateUser(p) \/ MarkUsed(p) => Quiet
    BY QuietWhenUnchanged DEF UpdateUser, MarkUsed, WriteInTx, tables
  <1>8. Rollback(p) \/ Abort(p) \/ DeadlockVictim(p) => Quiet
    BY QuietWhenUnchanged DEF Rollback, Abort, DeadlockVictim, Discard
  <1> QED
    BY <1>1, <1>2, <1>3, <1>4, <1>5, <1>6, <1>7, <1>8 DEF Progress

\* What a commit does to users and tokens.
LEMMA CommitPays ==
    ASSUME Inv, NEW p \in Requests, Commit(p)
    PROVE  /\ tgt[p] \in Tokens /\ UserOf(p) = rows[tgt[p]].user
           /\ rows[tgt[p]].present /\ rows[tgt[p]].used = 0 /\ now[p] # 0
           /\ rows[tgt[p]].purpose = PurposeOf(p) /\ kind[p] \in TransactionKinds
           /\ rows'[tgt[p]].used = now[p]
           /\ rows'[UserOf(p)].updated = now[p]
           /\ IF kind[p] = "resetPassword"
              THEN rows'[UserOf(p)].verified = rows[UserOf(p)].verified
              ELSE /\ rows'[UserOf(p)].password = rows[UserOf(p)].password
                   /\ rows'[UserOf(p)].verified
           /\ \A k \in Tokens \ {tgt[p]} : rows'[k] = rows[k]
           /\ \A u \in Users \ {UserOf(p)} : rows'[u] = rows[u]
  <1>1. RequestInvariant(p) /\ pc[p] = "end"
        /\ \A i \in Items : rows'[i] = IF lock[i] = p THEN draft[i] ELSE rows[i]
    BY DEF Inv, IdentityInvariant, Commit, Publish, Visible
  <1>2. kind[p] \in TransactionKinds /\ OnToken(p) /\ InTransaction(p)
    BY <1>1 DEF RequestInvariant, Targeted, TokenStatements, InTransaction
  <1>3. /\ tgt[p] \in Tokens /\ tgt[p] \in Items /\ UserOf(p) = rows[tgt[p]].user
        /\ UserOf(p) \in Users /\ UserOf(p) \in Items
    BY <1>2, OwnerStored, KindsOfItems
  <1>4. rows[tgt[p]] \in TokenRow /\ now[p] \in Nat /\ now[p] > 0
    BY <1>1, <1>3, RowTypes DEF RequestInvariant, ClockRead, Inv, TypeOK
  <1>5. /\ rows'[tgt[p]] = [rows[tgt[p]] EXCEPT !.used = now[p]]
        /\ rows[tgt[p]].used = 0
    BY <1>1, <1>3 DEF RequestInvariant, TokenDrafted
  <1>6. /\ rows'[UserOf(p)].updated = now[p]
        /\ IF kind[p] = "resetPassword"
           THEN rows'[UserOf(p)].verified = rows[UserOf(p)].verified
           ELSE /\ rows'[UserOf(p)].password = rows[UserOf(p)].password
                /\ rows'[UserOf(p)].verified
    BY <1>1, <1>2, <1>3 DEF RequestInvariant, UserDrafted
  <1>7. /\ \A k \in Tokens \ {tgt[p]} : rows'[k] = rows[k]
        /\ \A u \in Users \ {UserOf(p)} : rows'[u] = rows[u]
    BY <1>1, Locked, KindsOfItems
  <1> QED
    BY <1>2, <1>3, <1>4, <1>5, <1>6, <1>7 DEF OnToken, TokenRow

\* A password or the verified flag of a stored user changes only in the commit that uses
\* up the one token sent for it; the other column, the other users and the other tokens
\* stay as they are, however many resets, verifications and logins run at once.
THEOREM TokensAccounted == Spec => TokensPay
  <1> DEFINE Paid ==
        /\ \A u \in Users : rows[u].present /\ rows'[u] # rows[u] =>
            \E k \in Tokens :
              /\ Pays(k, u)
              /\ \A other \in Tokens \ {k} : rows'[other] = rows[other]
              /\ IF rows[k].purpose = "password_reset"
                 THEN rows'[u].verified = rows[u].verified
                 ELSE rows'[u].password = rows[u].password /\ rows'[u].verified
        /\ \A u \in Users, k \in Tokens : Pays(k, u) => rows'[u].updated = rows'[k].used
  <1>1. Quiet => Paid
    BY DEF Quiet, Pays
  <1>2. ASSUME Inv, NEW p \in Requests, Commit(p) PROVE Paid
    <2>1. PurposeOf(p) = "password_reset" <=> kind[p] = "resetPassword"
      BY <1>2, CommitPays DEF PurposeOf, TransactionKinds
    <2>2. Pays(tgt[p], UserOf(p))
      BY <1>2, CommitPays DEF Pays
    <2>3. ASSUME NEW u \in Users, rows[u].present, rows'[u] # rows[u]
          PROVE  \E k \in Tokens :
                   /\ Pays(k, u)
                   /\ \A other \in Tokens \ {k} : rows'[other] = rows[other]
                   /\ IF rows[k].purpose = "password_reset"
                      THEN rows'[u].verified = rows[u].verified
                      ELSE rows'[u].password = rows[u].password /\ rows'[u].verified
      <3>1. u = UserOf(p)
        BY <1>2, <2>3, CommitPays
      <3>2. tgt[p] \in Tokens /\ rows[tgt[p]].purpose = PurposeOf(p)
        BY <1>2, CommitPays
      <3>3. \A other \in Tokens \ {tgt[p]} : rows'[other] = rows[other]
        BY <1>2, CommitPays
      <3>4. IF rows[tgt[p]].purpose = "password_reset"
            THEN rows'[u].verified = rows[u].verified
            ELSE rows'[u].password = rows[u].password /\ rows'[u].verified
        BY <1>2, <2>1, <3>1, <3>2, CommitPays
      <3> QED
        BY <2>2, <3>1, <3>2, <3>3, <3>4
    <2>4. ASSUME NEW u \in Users, NEW k \in Tokens, Pays(k, u)
          PROVE  rows'[u].updated = rows'[k].used
      <3>1. k = tgt[p] /\ u = UserOf(p)
        BY <1>2, <2>4, CommitPays DEF Pays
      <3> QED
        BY <1>2, <3>1, CommitPays
    <2> QED
      BY <2>3, <2>4
  <1>3. UNCHANGED vars => Quiet
    BY DEF vars, Quiet
  <1> HIDE DEF Paid
  <1>4. Inv /\ [Next]_vars => [Paid]_vars
    BY <1>1, <1>2, <1>3, QuietUnlessCommit DEF Next
  <1>5. [][Paid]_vars => TokensPay
    BY PTL DEF Paid, TokensPay
  <1> QED
    BY <1>4, <1>5, InitInv, StepInv, PTL DEF Spec

\* A revoked session and a used token are never written again, whichever requests had
\* found them valid before.
THEOREM OverStaysOver == Spec => OverForGood
  <1> DEFINE Over ==
        /\ \A s \in Sessions : rows[s].present /\ rows[s].revoked # 0 => rows'[s] = rows[s]
        /\ \A k \in Tokens : rows[k].present /\ rows[k].used # 0 => rows'[k] = rows[k]
  <1>1. ASSUME Inv, NEW p \in Requests, Start(p) \/ Progress(p) \/ Abort(p) PROVE Over
    <2>1. \A s \in Sessions : rows[s].present /\ rows[s].revoked # 0 => rows'[s] = rows[s]
      BY <1>1, StepIsSound DEF StepSound, Grown
    <2>2. CASE Quiet
      BY <2>1, <2>2 DEF Quiet
    <2>3. CASE Commit(p)
      BY <1>1, <2>1, <2>3, CommitPays
    <2> QED
      BY <1>1, <2>2, <2>3, QuietUnlessCommit
  <1>2. UNCHANGED vars => Over
    BY DEF vars
  <1> HIDE DEF Over
  <1>3. Inv /\ [Next]_vars => [Over]_vars
    BY <1>1, <1>2 DEF Next
  <1>4. [][Over]_vars => OverForGood
    BY PTL DEF Over, OverForGood
  <1> QED
    BY <1>3, <1>4, InitInv, StepInv, PTL DEF Spec

LEMMA CommittedReset ==
    ASSUME Inv, NEW p \in Requests, kind[p] = "resetPassword", Commit(p),
           NEW s \in known[p], rows[s].user = UserOf(p)
    PROVE  s \in Sessions /\ rows'[s].present /\ ~ActiveSession(rows'[s], clock')
  <1>1. StepSound(p)
    BY StepIsSound DEF Progress
  <1>2. /\ \A i \in Items : rows'[i] = IF lock[i] = p THEN draft[i] ELSE rows[i]
        /\ clock' = clock /\ RequestInvariant(p) /\ pc[p] = "end"
    BY DEF Commit, Publish, Visible, Inv, IdentityInvariant
  <1>3. s \in Sessions /\ s \in Items /\ rows[s].present
    BY <1>2, KindsOfItems DEF RequestInvariant, Ended, Inv, TypeOK
  <1>4. rows'[s].present
    BY <1>1, <1>3 DEF StepSound, Grown, Kept, SessionKept
  <1>5. CASE ActiveSession(rows[s], now[p])
    BY <1>2, <1>3, <1>4, <1>5 DEF RequestInvariant, Ended, Revoking, ActiveSession
  <1>6. CASE rows[s].revoked # 0
    BY <1>1, <1>3, <1>4, <1>6 DEF StepSound, Grown, ActiveSession
  <1>7. CASE ~(rows[s].expires > now[p])
    <2>1. rows'[s].expires = rows[s].expires /\ now[p] <= clock'
      BY <1>1, <1>2, <1>3
      DEF StepSound, Grown, Kept, SessionKept, RequestInvariant, ClockRead
    <2>2. rows[s].expires \in Nat /\ now[p] \in Nat /\ clock' \in Nat
      BY <1>2, <1>3, RowTypes DEF SessionRow, Inv, TypeOK
    <2> QED
      BY <1>3, <1>4, <1>7, <2>1, <2>2 DEF ActiveSession
  <1> QED
    BY <1>3, <1>4, <1>5, <1>6, <1>7 DEF ActiveSession

\* When a password reset commits, no session its user had when the request came is active
\* any more, although the reset selects the sessions it revokes several statements after
\* it has begun, while others refresh, revoke and add sessions.
THEOREM ResetEndsThem == Spec => ResetEndsSessions
  <1> DEFINE Effective ==
        \A p \in Requests :
          /\ kind[p] = "resetPassword"
          /\ pc[p] = "end"
          /\ rows' # rows /\ pc'[p] = "done"
          => \A s \in known[p] :
               rows[s].user = UserOf(p) => ~ActiveSession(rows'[s], clock')
  <1>1. ASSUME Inv, NEW q \in Requests, Start(q) \/ Progress(q) \/ Abort(q) PROVE Effective
    <2> SUFFICES ASSUME NEW p \in Requests, kind[p] = "resetPassword", pc[p] = "end",
                        rows' # rows, pc'[p] = "done",
                        NEW s \in known[p], rows[s].user = UserOf(p)
                 PROVE  ~ActiveSession(rows'[s], clock')
      OBVIOUS
    <2>1. StepSound(q)
      BY <1>1, StepIsSound
    <2>2. p = q
      BY <2>1 DEF StepSound, OthersKept
    <2>3. Commit(p)
      BY <1>1, <2>2
      DEF Start, Progress, Abort, Discard, Rollback, InsertUser, FindUser, FindByRefreshToken,
          VerifyAccessToken, Authenticate, BeginTx, FindOwnSession, FindUnverified, FindToken,
          Stamp, Issue, InsertSession, InsertToken, TouchLastUsedAt, RevokeByID,
          SelectSessions, SweepSession, EndSweep, UpdateUser, MarkUsed, DeadlockVictim
    <2> QED
      BY <1>1, <2>2, <2>3, CommittedReset
  <1>2. UNCHANGED vars => Effective
    BY DEF vars
  <1> HIDE DEF Effective
  <1>3. Inv /\ [Next]_vars => [Effective]_vars
    BY <1>1, <1>2 DEF Next
  <1>4. [][Effective]_vars => ResetEndsSessions
    BY PTL DEF Effective, ResetEndsSessions
  <1> QED
    BY <1>3, <1>4, InitInv, StepInv, PTL DEF Spec

----------------------------------------------------------------------------
(***************************************************************************)
(* The handlers.                                                           *)
(***************************************************************************)
LEMMA ApiStepIsStep == [ApiNext]_<<vars, answer>> => [Next]_vars
  <1>1. ASSUME NEW p \in Requests, Refuse(p) \/ Accept(p) \/ Serve(p) \/ Break(p)
        PROVE  [Next]_vars
    BY <1>1 DEF Refuse, Accept, Serve, Break, Next
  <1>2. CASE UNCHANGED <<vars, answer>>
    BY <1>2
  <1> QED
    BY <1>1, <1>2 DEF ApiNext

\* The handlers answer but never touch a row themselves: what is proved of the services
\* holds of the endpoints (ApiSpec adds the answers to the steps of Identity).
THEOREM ApiImplementsIdentity == ApiSpec => Spec
  <1>1. ApiInit => Init
    BY DEF ApiInit
  <1> QED
    BY <1>1, ApiStepIsStep, PTL DEF ApiSpec, Spec

\* What a request has told its client, or is about to.
Codes == Successes \cup Refusals \cup {"500", "none"}

Answers == [code : Codes, ending : SUBSET Sessions]

OverNow(s) == rows[s].present /\ ~ActiveSession(rows[s], clock)

\* A request that has no answer yet ends no more than the sessions there were when it
\* came; a logout everywhere has selected those of them that are active, or revoked them.
EndingKnown(p) ==
    /\ pc[p] \notin {"start", "done"} => answer[p].code = "none"
    /\ \A s \in answer[p].ending : rows[s].present
    /\ pc[p] = "touch" => kind[p] = "refresh"
    /\ kind[p] \notin Enders => answer[p].ending = {}
    /\ kind[p] = "resetPassword" /\ pc[p] \notin {"start", "done"} =>
         answer[p].ending \subseteq known[p]
    /\ kind[p] = "logoutAll" /\ pc[p] = "sweep" =>
         \A s \in answer[p].ending :
            rows[s].user = tgt[p] /\ ActiveSession(rows[s], now[p]) =>
              s \in matched[p] \/ Revoking(p, s)

Told(p) == answer[p].code \in Successes => \A s \in answer[p].ending : OverNow(s)

ApiInv ==
    /\ Inv
    /\ answer \in [Requests -> Answers]
    /\ \A p \in Requests : EndingKnown(p) /\ Told(p)

LEMMA StaysOver ==
    ASSUME ApiInv, NEW p \in Requests, StepSound(p), NEW s \in Sessions, OverNow(s)
    PROVE  OverNow(s)'
  <1>1. s \in Items /\ rows[s].present /\ rows[s].expires \in Nat /\ rows[s].revoked \in Nat
    BY KindsOfItems, RowTypes DEF SessionRow, ApiInv, Inv, TypeOK, OverNow
  <1>2. rows'[s].present /\ rows'[s].expires = rows[s].expires
    BY <1>1 DEF StepSound, Grown, Kept, SessionKept
  <1>3. CASE rows[s].revoked # 0
    BY <1>1, <1>3 DEF StepSound, Grown, OverNow, ActiveSession
  <1>4. CASE rows[s].expires <= clock
    <2>1. clock' >= clock /\ clock' \in Nat /\ clock \in Nat
      BY DEF StepSound, OthersKept, ApiInv, Inv, TypeOK
    <2> QED
      BY <1>1, <1>2, <1>4, <2>1 DEF OverNow, ActiveSession
  <1>5. clock \in Nat
    BY DEF ApiInv, Inv, TypeOK
  <1> QED
    BY <1>1, <1>3, <1>4, <1>5 DEF OverNow, ActiveSession

LEMMA OtherAnswers ==
    ASSUME ApiInv, NEW p \in Requests, StepSound(p),
           NEW q \in Requests \ {p}, answer'[q] = answer[q]
    PROVE  EndingKnown(q)' /\ Told(q)'
  <1>1. /\ pc'[q] = pc[q] /\ kind'[q] = kind[q] /\ tgt'[q] = tgt[q] /\ now'[q] = now[q]
        /\ matched'[q] = matched[q] /\ known'[q] = known[q]
    BY DEF StepSound, OthersKept
  <1>2. EndingKnown(q) /\ Told(q) /\ answer[q].ending \subseteq Sessions
    BY DEF ApiInv, Answers
  <1>3. \A s \in Sessions : rows[s].present =>
          /\ rows'[s].present
          /\ rows'[s].user = rows[s].user
          /\ ActiveSession(rows'[s], now[q]) => ActiveSession(rows[s], now[q])
          /\ Revoking(q, s) => Revoking(q, s)'
    BY KindsOfItems DEF StepSound, Grown, Kept, SessionKept, ActiveSession, HeldKept, Revoking
  <1>4. EndingKnown(q)'
    BY <1>1, <1>2, <1>3 DEF EndingKnown
  <1>5. Told(q)'
    BY <1>2, StaysOver DEF Told
  <1> QED
    BY <1>4, <1>5

\* The codes of the handlers: what a client is told of a session that is to end.
LEMMA HandlerCodes ==
    ASSUME NEW p \in Requests, kind[p] \in AllKinds
    PROVE  /\ Handler(p).refused \subseteq Codes
           /\ Handler(p).success \in Codes
           /\ Handler(p).failure \in Codes
           /\ Handler(p).broken = {"500"}
           /\ kind[p] \in TransactionKinds => Handler(p).failure = "401"
           /\ kind[p] = "revokeSession" => Handler(p).failure = "404"
  <1> DEFINE Declared(e) ==
        /\ e.refused \subseteq Codes /\ e.success \in Codes
        /\ e.failure \in Codes /\ e.broken = {"500"}
  <1>1. \A refused, success, failure :
          /\ Endpoint(refused, success, failure, {"500"}).refused = refused
          /\ Endpoint(refused, success, failure, {"500"}).success = success
          /\ Endpoint(refused, success, failure, {"500"}).failure = failure
          /\ Endpoint(refused, success, failure, {"500"}).broken = {"500"}
    BY DEF Endpoint
  <1>2. Guarded \subseteq Codes /\ Validate \subseteq Codes /\ RequireHTTPS \subseteq Codes
        /\ BeforeHandler \subseteq Codes /\ NewAuthMiddleware \subseteq Codes
    BY DEF Guarded, RequireHTTPS, RateLimited, Validate, BeforeHandler, NewAuthMiddleware,
           Codes, Refusals
  <1>3. {"200", "201", "204", "401", "404", "409"} \subseteq Codes
    BY DEF Codes, Successes, Refusals
  <1>4. Declared(RegisterAuth) /\ Declared(LoginAuth) /\ Declared(RefreshAuth)
        /\ Declared(LogoutAuth) /\ Declared(LogoutAllAuth)
    BY <1>1, <1>2, <1>3 DEF RegisterAuth, LoginAuth, RefreshAuth, LogoutAuth, LogoutAllAuth
  <1>5. Declared(RevokeSessionAuth) /\ Declared(ForgotPasswordAuth)
        /\ Declared(ResetPasswordAuth) /\ Declared(SendVerificationEmailAuth)
        /\ Declared(VerifyEmailAuth)
    BY <1>1, <1>2, <1>3 DEF RevokeSessionAuth, ForgotPasswordAuth, ResetPasswordAuth,
                      SendVerificationEmailAuth, VerifyEmailAuth
  <1>6. /\ ResetPasswordAuth.failure = "401" /\ VerifyEmailAuth.failure = "401"
        /\ RevokeSessionAuth.failure = "404"
    BY <1>1 DEF ResetPasswordAuth, VerifyEmailAuth, RevokeSessionAuth
  <1>7. Declared(Handler(p))
    BY <1>4, <1>5 DEF Handler, AllKinds, TransactionKinds, SignInKinds, TokenKinds,
                      RefreshTokenKinds, AccessTokenKinds
  <1>8. /\ kind[p] \in TransactionKinds => Handler(p).failure = "401"
        /\ kind[p] = "revokeSession" => Handler(p).failure = "404"
    BY <1>6 DEF Handler, TransactionKinds
  <1> QED
    BY <1>7, <1>8

LEMMA Replied ==
    ASSUME ApiInv, NEW p \in Requests, NEW ending \in SUBSET Sessions,
           NEW codes \in SUBSET Codes, Reply(p, ending, codes)
    PROVE  /\ answer' \in [Requests -> Answers]
           /\ \A q \in Requests \ {p} : answer'[q] = answer[q]
           /\ answer'[p].ending = ending
           /\ answer'[p].code \in codes \cup {"500"}
  <1>1. PICK code \in codes \cup {"500"} :
          answer' = [answer EXCEPT ![p] = Answer(code, ending)]
    BY DEF Reply
  <1>2. answer \in [Requests -> Answers]
    BY DEF ApiInv
  <1>3. /\ Answer(code, ending) \in Answers
        /\ Answer(code, ending).ending = ending /\ Answer(code, ending).code = code
    BY DEF Answer, Answers, Codes
  <1> HIDE DEF Answers
  <1> QED
    BY <1>1, <1>2, <1>3

LEMMA BeforeAnswer ==
    ASSUME ApiInv, NEW p \in Requests
    PROVE  /\ answer[p].ending \subseteq Sessions
           /\ Ending(p) \subseteq answer[p].ending
           /\ \A s \in answer[p].ending : s \in Items /\ rows[s].present
           /\ kind[p] \in AllKinds
  BY KindsOfItems DEF ApiInv, Answers, Ending, EndingKnown, Inv, TypeOK

\* The request is refused, or ends where it begins.
LEMMA RejectTold ==
    ASSUME ApiInv, NEW p \in Requests, Start(p), pc'[p] = "done", Reject(p)
    PROVE  ApiInv'
  <1>1. StepSound(p) /\ Inv'
    BY StepIsSound, StepInv DEF ApiInv, Next
  <1>2. PICK ending \in SUBSET Sessions, codes \in SUBSET Codes :
          /\ Reply(p, ending, codes)
          /\ ending = {} \/ \E s \in FoundOver(p) : ending = {s}
    <2>1. {} \in SUBSET Sessions /\ {"401"} \in SUBSET Codes
      BY DEF Codes, Refusals
    <2>2. {Handler(p).failure} \in SUBSET Codes
      BY HandlerCodes, BeforeAnswer
    <2>3. \A ending \in {{}} \cup {{s} : s \in FoundOver(p)} :
             /\ ending \in SUBSET Sessions
             /\ ending = {} \/ \E s \in FoundOver(p) : ending = {s}
      BY DEF FoundOver
    <2> QED
      BY <2>1, <2>2, <2>3 DEF Reject
  <1>3. /\ answer' \in [Requests -> Answers]
        /\ \A q \in Requests \ {p} : answer'[q] = answer[q]
        /\ answer'[p].ending = ending
    BY <1>2, Replied
  <1>4. \A s \in ending : OverNow(s)' /\ kind[p] = "logout"
    <2> SUFFICES ASSUME NEW s \in ending PROVE OverNow(s)' /\ kind[p] = "logout"
      OBVIOUS
    <2>1. s \in Sessions /\ kind[p] = "logout" /\ rows[s].present
          /\ ~ActiveSession(rows[s], clock')
      BY <1>2 DEF FoundOver
    <2>2. /\ rows'[s].present /\ rows'[s].expires = rows[s].expires
          /\ rows[s].revoked # 0 => rows'[s] = rows[s]
      BY <1>1, <2>1 DEF StepSound, Grown, Kept, SessionKept
    <2> QED
      BY <2>1, <2>2 DEF OverNow, ActiveSession
  <1>5. EndingKnown(p)' /\ Told(p)'
    <2>1. kind'[p] = kind[p]
      BY <1>1 DEF StepSound, OthersKept
    <2> QED
      BY <1>3, <1>4, <2>1 DEF EndingKnown, Told, OverNow, Enders
  <1> QED
    BY <1>1, <1>3, <1>5, OtherAnswers DEF ApiInv

LEMMA RefuseTold == ASSUME ApiInv, NEW p \in Requests, Refuse(p) PROVE ApiInv'
  <1>1. UNCHANGED vars /\ pc[p] = "start" /\ Reply(p, {}, Handler(p).refused)
    BY DEF Refuse
  <1>2. /\ answer' \in [Requests -> Answers]
        /\ \A q \in Requests \ {p} : answer'[q] = answer[q]
        /\ answer'[p].ending = {}
    BY <1>1, Replied, HandlerCodes, BeforeAnswer
  <1>3. Inv'
    BY <1>1, StutterInv DEF ApiInv
  <1>4. EndingKnown(p)' /\ Told(p)'
    BY <1>1, <1>2 DEF EndingKnown, Told, vars
  <1>5. \A q \in Requests \ {p} : EndingKnown(q)' /\ Told(q)'
    BY <1>1, <1>2 DEF ApiInv, EndingKnown, Revoking, Told, OverNow, vars
  <1> QED
    BY <1>2, <1>3, <1>4, <1>5 DEF ApiInv

\* The request goes on: it is to end no session that comes later.
LEMMA GoOnTold ==
    ASSUME ApiInv, NEW p \in Requests, Accept(p), pc'[p] # "done"
    PROVE  ApiInv'
  <1>1. StepSound(p) /\ Inv'
    BY StepIsSound, StepInv DEF ApiInv, Accept, Next
  <1> DEFINE present == {s \in Sessions : rows[s].present}
  <1>2. PICK ending \in SUBSET Sessions :
          /\ ending = IF kind[p] \in Enders THEN present ELSE {}
          /\ answer' = [answer EXCEPT ![p] = Answer("none", ending)]
    <2> DEFINE ending == {s \in Sessions : kind[p] \in Enders /\ rows[s].present}
    <2>1. ending \in SUBSET Sessions /\ ending = IF kind[p] \in Enders THEN present ELSE {}
      OBVIOUS
    <2> QED
      BY <2>1 DEF Accept
  <1>3. answer[p] = [code |-> "none", ending |-> {}] /\ answer \in [Requests -> Answers]
    BY DEF Accept, NoAnswer, Answer, ApiInv
  <1>4. /\ answer' \in [Requests -> Answers]
        /\ \A q \in Requests \ {p} : answer'[q] = answer[q]
        /\ answer'[p] = [code |-> "none", ending |-> ending]
    <2>1. answer' = [answer EXCEPT ![p] = [code |-> "none", ending |-> ending]]
      BY <1>2 DEF Answer
    <2>2. [code |-> "none", ending |-> ending] \in Answers
      BY DEF Answers, Codes
    <2> HIDE DEF Answers
    <2> QED
      BY <1>3, <2>1, <2>2
  <1>5. pc'[p] \notin {"touch", "sweep"}
    BY DEF Accept, ApiInv, Inv, TypeOK, Start, InsertUser, FindUser, FindByRefreshToken,
           VerifyAccessToken, Authenticate, BeginTx, GoOn, Return, ReturnUnchanged
  <1>6. kind[p] = "resetPassword" => known'[p] = present
    BY DEF Accept, ApiInv, Inv, TypeOK, Start, InsertUser, FindUser, FindByRefreshToken,
           VerifyAccessToken, Authenticate, BeginTx, RefreshTokenKinds
  <1>7. kind'[p] = kind[p] /\ \A s \in present : rows'[s].present
    BY <1>1 DEF StepSound, OthersKept, Grown, Kept, SessionKept
  <1>8. EndingKnown(p)'
    <2>1. answer'[p].ending = ending /\ answer'[p].code = "none"
      BY <1>4
    <2> HIDE DEF present
    <2>2. ending \subseteq present /\ (kind[p] \notin Enders => ending = {})
      BY <1>2
    <2> QED
      BY <2>1, <2>2, <1>5, <1>6, <1>7 DEF EndingKnown
  <1>9. Told(p)'
    BY <1>4 DEF Told, Successes
  <1> QED
    BY <1>1, <1>4, <1>8, <1>9, OtherAnswers DEF ApiInv

LEMMA AcceptTold == ASSUME ApiInv, NEW p \in Requests, Accept(p) PROVE ApiInv'
  BY RejectTold, GoOnTold DEF Accept

\* A request that has an answer is done, whatever it was told.
LEMMA AnswerTold ==
    ASSUME ApiInv, NEW p \in Requests, StepSound(p), Inv', pc'[p] = "done",
           NEW codes \in SUBSET Codes, Reply(p, Ending(p), codes),
           codes \cap Successes # {} => \A s \in Ending(p) : OverNow(s)'
    PROVE  ApiInv'
  <1>1. Ending(p) \in SUBSET Sessions
    BY BeforeAnswer
  <1>2. /\ answer' \in [Requests -> Answers]
        /\ \A q \in Requests \ {p} : answer'[q] = answer[q]
        /\ answer'[p].ending = Ending(p)
        /\ answer'[p].code \in codes \cup {"500"}
    BY <1>1, Replied
  <1>3. kind'[p] = kind[p] /\ \A s \in Sessions : rows[s].present => rows'[s].present
    BY DEF StepSound, OthersKept, Grown, Kept, SessionKept
  <1>4. EndingKnown(p)'
    BY <1>2, <1>3, BeforeAnswer DEF EndingKnown, ApiInv
  <1>5. Told(p)'
    BY <1>2 DEF Told, Successes
  <1> QED
    BY <1>2, <1>4, <1>5, OtherAnswers DEF ApiInv

LEMMA BreakTold == ASSUME ApiInv, NEW p \in Requests, Break(p) PROVE ApiInv'
  <1>1. StepSound(p) /\ Inv'
    BY StepIsSound, StepInv DEF ApiInv, Break, Next
  <1>2. Handler(p).broken = {"500"} /\ {"500"} \in SUBSET Codes
    BY BeforeAnswer, HandlerCodes DEF Codes
  <1>3. {"500"} \cap Successes = {}
    BY DEF Successes
  <1>4. pc'[p] = "done"
    BY DEF Break, Abort, Discard, Return, ApiInv, Inv, TypeOK
  <1> QED
    BY <1>1, <1>2, <1>3, <1>4, AnswerTold DEF Break

\* The statements before the last one.
LEMMA ProceedTold ==
    ASSUME ApiInv, NEW p \in Requests, Serve(p), pc'[p] # "done"
    PROVE  ApiInv'
  <1>1. StepSound(p) /\ Inv'
    BY StepIsSound, StepInv DEF ApiInv, Serve, Next
  <1>2. UNCHANGED answer /\ Progress(p)
    BY DEF Serve
  <1>3. EndingKnown(p) /\ pc[p] \notin {"start", "done"} /\ UNCHANGED known
    BY <1>2 DEF ApiInv, Inv, TypeOK, Progress, FindOwnSession, FindUnverified, FindToken,
           Stamp, Issue, InsertSession, InsertToken, TouchLastUsedAt, RevokeByID,
           SelectSessions, SweepSession, EndSweep, UpdateUser, MarkUsed, Commit, Publish,
           Rollback, DeadlockVictim, Discard, Return, ReturnUnchanged, GoOn
  <1>4. /\ kind'[p] = kind[p]
        /\ \A s \in answer[p].ending : rows[s].present => rows'[s].present
    BY <1>1, BeforeAnswer DEF StepSound, OthersKept, Grown, Kept, SessionKept
  <1>5. pc'[p] = "touch" => kind[p] = "refresh"
    BY <1>2 DEF ApiInv, Inv, TypeOK, Progress, FindOwnSession, FindUnverified, FindToken,
           Stamp, AfterStamp, Issue, InsertSession, InsertToken, TouchLastUsedAt, RevokeByID,
           SelectSessions, SweepSession, EndSweep, UpdateUser, MarkUsed, Commit, Publish,
           Rollback, DeadlockVictim, Discard, Return, ReturnUnchanged, GoOn
  <1>6. ASSUME kind[p] = "logoutAll", pc'[p] = "sweep",
               NEW s \in answer[p].ending,
               rows'[s].user = tgt'[p], ActiveSession(rows'[s], now'[p])
        PROVE  s \in matched'[p] \/ Revoking(p, s)'
    <2>1. SelectSessions(p) \/ SweepSession(p)
      BY <1>2, <1>6
      DEF ApiInv, Inv, TypeOK, Progress, FindOwnSession, FindUnverified, FindToken,
          Stamp, AfterStamp, Issue, InsertSession, InsertToken, TouchLastUsedAt, RevokeByID,
          EndSweep, UpdateUser, MarkUsed, Commit, Publish, Rollback, DeadlockVictim, Discard,
          Return, ReturnUnchanged, GoOn, TransactionKinds
    <2>2. CASE SelectSessions(p)
      <3>1. UserOf(p) = tgt[p]
        BY <1>6, <2>2, KindsOfItems
        DEF UserOf, SelectSessions, ApiInv, Inv, IdentityInvariant, RequestInvariant, Targeted,
            SharedStatements, TransactionKinds
      <3>2. matched'[p] = {x \in Sessions : ActiveSession(rows[x], now[p])
                                            /\ rows[x].user = UserOf(p)}
        BY <2>2 DEF SelectSessions, ComeTo, ApiInv, Inv, TypeOK
      <3> QED
        BY <1>6, <2>2, <3>1, <3>2, BeforeAnswer DEF SelectSessions, tables
    <2>3. CASE SweepSession(p)
      <3>1. /\ pc[p] = "sweep" /\ rows' = rows /\ tgt' = tgt /\ now' = now
            /\ matched'[p] = matched[p] \ {cursor[p]}
            /\ WriteInTx(p, cursor[p], Swept(p, cursor[p]))
        BY <2>3 DEF SweepSession, WriteInTx, ComeTo, ApiInv, Inv, TypeOK
      <3>2. s \in Items /\ (s \in matched[p] \/ Revoking(p, s))
        BY <1>3, <1>6, <3>1, BeforeAnswer DEF EndingKnown
      <3>3. cursor[p] \in Items /\ Swept(p, cursor[p]).revoked # 0
        BY <2>3, SweptRow DEF ApiInv
      <3>4. /\ draft'[s] = IF s = cursor[p] THEN Swept(p, cursor[p]) ELSE draft[s]
            /\ lock'[s] = IF s = cursor[p] THEN p ELSE lock[s]
        BY <3>1, <3>2, <3>3, RowTypes DEF WriteInTx, ApiInv, Inv, TypeOK
      <3> QED
        BY <3>1, <3>2, <3>3, <3>4 DEF Revoking
    <2> QED
      BY <2>1, <2>2, <2>3
  <1>7. EndingKnown(p)'
    BY <1>2, <1>3, <1>4, <1>5, <1>6 DEF EndingKnown
  <1>8. Told(p)'
    BY <1>2, <1>3 DEF Told, EndingKnown, Successes
  <1>9. answer' \in [Requests -> Answers] /\ \A q \in Requests \ {p} : answer'[q] = answer[q]
    BY <1>2 DEF ApiInv
  <1> QED
    BY <1>1, <1>7, <1>8, <1>9, OtherAnswers DEF ApiInv

\* RevokeByID: the session is revoked now or was before.
LEMMA RevokedByID ==
    ASSUME ApiInv, NEW p \in Requests, RevokeByID(p), NEW s \in Ending(p)
    PROVE  OverNow(s)'
  <1>1. StepSound(p) /\ s \in Sessions /\ s \in Items /\ rows[s].present
    BY StepIsSound, BeforeAnswer DEF ApiInv, Progress
  <1>2. rows'[s].present /\ (rows[s].revoked # 0 => rows'[s] = rows[s])
    BY <1>1 DEF StepSound, Grown, Kept, SessionKept
  <1>3. s = tgt[p] /\ now[p] > 0 /\ now[p] \in Nat
    BY <1>1, KindsOfItems
    DEF Ending, RevokeByID, ApiInv, Inv, TypeOK, IdentityInvariant, RequestInvariant, Targeted,
        SessionStatements, ClockRead
  <1>4. CASE rows[s].revoked # 0
    BY <1>2, <1>4 DEF OverNow, ActiveSession
  <1>5. CASE rows[s].revoked = 0
    <2>1. rows' = [rows EXCEPT ![s] = [rows[s] EXCEPT !.revoked = now[p]]]
      BY <1>3, <1>5 DEF RevokeByID, WriteAlone
    <2>2. rows'[s] = [rows[s] EXCEPT !.revoked = now[p]]
      <3>1. rows \in [Items -> UserRow \cup SessionRow \cup TokenRow]
        BY RowTypes DEF ApiInv, Inv, TypeOK
      <3> QED
        BY <1>1, <2>1, <3>1
    <2>3. rows[s] \in SessionRow
      BY <1>1, RowTypes DEF ApiInv, Inv, TypeOK
    <2>4. rows'[s].revoked = now[p]
      BY <2>2, <2>3 DEF SessionRow
    <2> QED
      BY <1>2, <1>3, <2>4 DEF OverNow, ActiveSession
  <1> QED
    BY <1>4, <1>5

\* RevokeAllByUserID of a logout everywhere: all the user had when the request came.
LEMMA LoggedOutEverywhere ==
    ASSUME ApiInv, NEW p \in Requests, EndSweep(p), pc'[p] = "done", NEW s \in Ending(p)
    PROVE  OverNow(s)'
  <1>1. StepSound(p) /\ s \in Sessions /\ s \in Items /\ rows[s].present
        /\ s \in answer[p].ending
    BY StepIsSound, BeforeAnswer DEF ApiInv, Progress
  <1>2. /\ rows'[s].present /\ rows'[s].expires = rows[s].expires
        /\ rows[s].revoked # 0 => rows'[s] = rows[s]
    BY <1>1 DEF StepSound, Grown, Kept, SessionKept
  <1>3. pc[p] = "sweep" /\ kind[p] \notin TransactionKinds /\ matched[p] = {} /\ Publish(p)
    BY DEF EndSweep, ApiInv, Inv, TypeOK
  <1>4. kind[p] = "logoutAll" /\ tgt[p] \in Users /\ now[p] > 0 /\ now[p] <= clock
    BY <1>3 DEF ApiInv, Inv, IdentityInvariant, RequestInvariant, Targeted, SharedStatements,
               ClockRead
  <1>5. rows[s].user = tgt[p]
    BY <1>1, <1>4, KindsOfItems DEF Ending, UserOf
  <1>6. CASE ActiveSession(rows[s], now[p])
    <2>1. Revoking(p, s)
      BY <1>1, <1>3, <1>4, <1>5, <1>6 DEF ApiInv, EndingKnown
    <2>2. rows'[s] = draft[s]
      BY <1>1, <1>3, <2>1 DEF Publish, Visible, Revoking
    <2> QED
      BY <1>2, <2>1, <2>2 DEF OverNow, ActiveSession, Revoking
  <1>7. CASE rows[s].revoked # 0
    BY <1>2, <1>7 DEF OverNow, ActiveSession
  <1>8. CASE rows[s].expires <= now[p]
    <2>1. rows[s].expires \in Nat
      BY <1>1, RowTypes DEF SessionRow, ApiInv, Inv, TypeOK
    <2>2. now[p] \in Nat /\ clock \in Nat /\ clock' = clock
      BY <1>3 DEF ApiInv, Inv, TypeOK, Publish
    <2> QED
      BY <1>2, <1>4, <1>8, <2>1, <2>2 DEF OverNow, ActiveSession
  <1>9. rows[s].expires \in Nat /\ now[p] \in Nat
    BY <1>1, RowTypes DEF SessionRow, ApiInv, Inv, TypeOK
  <1> QED
    BY <1>1, <1>6, <1>7, <1>8, <1>9 DEF ActiveSession

LEMMA ResetTold ==
    ASSUME ApiInv, NEW p \in Requests, Commit(p), NEW s \in Ending(p)
    PROVE  OverNow(s)'
  <1>1. pc[p] = "end" /\ s \in answer[p].ending /\ s \in Sessions
    BY BeforeAnswer DEF Commit
  <1>2. kind[p] \in TransactionKinds /\ OnToken(p)
    BY <1>1 DEF ApiInv, Inv, IdentityInvariant, RequestInvariant, Targeted, TokenStatements
  <1>3. kind[p] = "resetPassword" /\ s \in known[p]
    BY <1>1, <1>2 DEF ApiInv, EndingKnown, Enders, TransactionKinds
  <1>4. rows[s].user = UserOf(p)
    BY <1>1, <1>2, KindsOfItems DEF Ending, OnToken
  <1> QED
    BY <1>3, <1>4, CommittedReset DEF ApiInv, OverNow

\* A request that ends sessions says so only if they are over.
LEMMA OutcomeTold ==
    ASSUME ApiInv, NEW p \in Requests, Progress(p), pc'[p] = "done",
           Outcome(p) \cap Successes # {}, NEW s \in Ending(p)
    PROVE  OverNow(s)'
  <1>1. kind[p] \in Enders /\ kind[p] \in AllKinds
    BY BeforeAnswer DEF ApiInv, EndingKnown
  <1>2. kind[p] \notin SignInKinds \cup TokenKinds \cup {"refresh"}
    BY <1>1 DEF Enders, SignInKinds, TokenKinds
  <1>3. ~OnCycle(p)
    <2>1. OnCycle(p) => Outcome(p) = {"500"}
      BY HandlerCodes, BeforeAnswer DEF Outcome
    <2> QED
      BY <2>1 DEF Successes
  <1>4. ~FindOwnSession(p)
    <2>1. FindOwnSession(p) => Outcome(p) = {"404"}
      BY <1>3, HandlerCodes, BeforeAnswer DEF FindOwnSession, Outcome, Missed
    <2> QED
      BY <2>1 DEF Successes
  <1>5. ~FindToken(p) /\ ~Rollback(p)
    <2>1. FindToken(p) \/ Rollback(p) => kind[p] \in TransactionKinds
      BY DEF FindToken, Rollback, ApiInv, Inv, IdentityInvariant, RequestInvariant, Targeted,
             TokenStatements
    <2>2. FindToken(p) \/ Rollback(p) => Outcome(p) = {"401"}
      BY <1>3, <2>1, HandlerCodes, BeforeAnswer DEF FindToken, Rollback, Outcome, Missed
    <2> QED
      BY <2>2 DEF Successes
  <1>6. ~TouchLastUsedAt(p)
    BY <1>2 DEF TouchLastUsedAt, ApiInv, EndingKnown
  <1>7. ~(FindUnverified(p) \/ InsertSession(p) \/ InsertToken(p))
    BY <1>1, <1>2 DEF FindUnverified, InsertSession, InsertToken, Enders
  <1>8. ~(Stamp(p) \/ Issue(p) \/ SelectSessions(p) \/ SweepSession(p) \/ UpdateUser(p)
          \/ MarkUsed(p) \/ DeadlockVictim(p))
    BY <1>3 DEF Stamp, AfterStamp, Issue, SelectSessions, SweepSession, UpdateUser, MarkUsed,
                DeadlockVictim, GoOn, ApiInv, Inv, TypeOK
  <1>9. RevokeByID(p) \/ EndSweep(p) \/ Commit(p)
    BY <1>4, <1>5, <1>6, <1>7, <1>8 DEF Progress
  <1> QED
    BY <1>9, RevokedByID, LoggedOutEverywhere, ResetTold

LEMMA ServeTold == ASSUME ApiInv, NEW p \in Requests, Serve(p) PROVE ApiInv'
  <1>1. CASE pc'[p] = "done"
    <2>1. StepSound(p) /\ Inv' /\ Progress(p) /\ Reply(p, Ending(p), Outcome(p))
      BY <1>1, StepIsSound, StepInv DEF ApiInv, Serve, Next
    <2>2. Outcome(p) \in SUBSET Codes
      <3>1. /\ {"500"} \in SUBSET Codes
            /\ {Handler(p).failure} \in SUBSET Codes /\ {Handler(p).success} \in SUBSET Codes
            /\ Handler(p).broken \in SUBSET Codes
        BY HandlerCodes, BeforeAnswer DEF Codes
      <3> QED
        BY <3>1 DEF Outcome
    <2>3. Outcome(p) \cap Successes # {} => \A s \in Ending(p) : OverNow(s)'
      BY <1>1, <2>1, OutcomeTold
    <2> QED
      BY <1>1, <2>1, <2>2, <2>3, AnswerTold
  <1>2. CASE pc'[p] # "done"
    BY <1>2, ProceedTold
  <1> QED
    BY <1>1, <1>2

LEMMA ApiInitInv == ApiInit => ApiInv
  <1> SUFFICES ASSUME ApiInit PROVE ApiInv
    OBVIOUS
  <1>1. Inv
    BY InitInv DEF ApiInit
  <1>2. NoAnswer = [code |-> "none", ending |-> {}] /\ NoAnswer \in Answers
    BY DEF NoAnswer, Answer, Answers, Codes
  <1>3. answer \in [Requests -> Answers] /\ \A p \in Requests : answer[p] = NoAnswer
    BY <1>2 DEF ApiInit
  <1>4. \A p \in Requests : pc[p] = "start"
    BY DEF ApiInit, Init
  <1> QED
    BY <1>1, <1>2, <1>3, <1>4 DEF ApiInv, EndingKnown, Told

LEMMA ApiStepInv == ApiInv /\ [ApiNext]_<<vars, answer>> => ApiInv'
  <1>1. ASSUME ApiInv, UNCHANGED <<vars, answer>> PROVE ApiInv'
    <2>1. Inv'
      BY <1>1, StutterInv DEF ApiInv
    <2> QED
      BY <1>1, <2>1 DEF ApiInv, EndingKnown, Revoking, Told, OverNow, vars
  <1> QED
    BY <1>1, RefuseTold, AcceptTold, ServeTold, BreakTold DEF ApiNext

\* A session is over for good once a client was told so, whatever refreshes, logouts and
\* resets interleave, for any number of requests and every clock.
THEOREM LoggedOutForGood == ApiSpec => []LoggedOutStaysOut
  <1>1. ApiInv => LoggedOutStaysOut
    BY DEF ApiInv, Told, OverNow, LoggedOutStaysOut
  <1> QED
    BY <1>1, ApiInitInv, ApiStepInv, PTL DEF ApiSpec
----------------------------------------------------------------------------
(***************************************************************************)
(* Progress.                                                               *)
(***************************************************************************)
\* What the sessions another request has selected or locked are does not change.
LEMMA OtherSessions ==
    ASSUME Inv, NEW p \in Requests, NEW q \in Requests \ {p}, StepSound(p), SessionsOfUser(q)
    PROVE  SessionsOfUser(q)'
  <1>1. /\ pc'[q] = pc[q] /\ tgt'[q] = tgt[q] /\ matched'[q] = matched[q] /\ kind' = kind
        /\ matched[q] \subseteq Sessions /\ RequestInvariant(q) /\ q # Free
    BY KindsOfItems DEF StepSound, OthersKept, Inv, TypeOK, IdentityInvariant
  <1>2. \A s \in Sessions : rows[s].present => rows'[s].user = rows[s].user
    BY DEF StepSound, Grown, Kept, SessionKept
  <1>3. HoldsLocks(q) => UserOf(q)' = UserOf(q)
    <2>1. OnToken(q) => UserOf(q)' = UserOf(q)
      BY <1>1, OnTokenKept DEF StepSound
    <2>2. tgt[q] \in Users => UserOf(q)' = UserOf(q)
      BY <1>1, KindsOfItems DEF UserOf
    <2> QED
      BY <2>1, <2>2, HolderIsAbout
  <1>4. ASSUME NEW s \in matched[q] PROVE rows'[s].user = UserOf(q)'
    <2>1. HoldsLocks(q)
      BY IdleSweepsNothing
    <2> QED
      BY <1>1, <1>2, <1>3, <2>1 DEF SessionsOfUser, RequestInvariant, SweepPlaced
  <1>5. ASSUME NEW s \in Sessions, lock'[s] = q PROVE rows'[s].user = UserOf(q)'
    <2>1. s \in Items /\ lock[s] = q /\ rows'[s] = rows[s]
      BY <1>1, <1>5, KindsOfItems DEF StepSound, HeldKept
    <2> QED
      BY <1>3, <2>1, Locked DEF SessionsOfUser
  <1> QED
    BY <1>1, <1>4, <1>5 DEF SessionsOfUser

\* RevokeAllByUserID selects and locks sessions of the user, and nothing else does.
LEMMA OwnSessions ==
    ASSUME Inv, NEW p \in Requests, SessionsOfUser(p), Start(p) \/ Progress(p) \/ Abort(p)
    PROVE  SessionsOfUser(p)'
  <1>1. ASSUME matched'[p] = {}, \A s \in Sessions : lock'[s] # p PROVE SessionsOfUser(p)'
    BY <1>1 DEF SessionsOfUser
  <1>2. ASSUME ~HoldsLocks(p), UNCHANGED lock, matched'[p] = {} PROVE SessionsOfUser(p)'
    BY <1>1, <1>2, IdleHoldsNothing, KindsOfItems
  <1>3. ASSUME Return(p) PROVE matched'[p] = {}
    BY <1>3 DEF Return, Inv, TypeOK
  <1>4. ASSUME ~HoldsLocks(p), NEW i, NEW next, GoOn(p, i, next) PROVE matched'[p] = {}
    BY <1>4, IdleSweepsNothing DEF GoOn
  <1>5. CASE Start(p)
    <2>1. ~HoldsLocks(p)
      BY <1>5, Idle DEF Start, InsertUser, FindUser, FindByRefreshToken, VerifyAccessToken,
                        Authenticate, BeginTx
    <2> QED
      BY <1>2, <1>3, <1>4, <1>5, <2>1
      DEF Start, InsertUser, FindUser, FindByRefreshToken, VerifyAccessToken, Authenticate,
          BeginTx, ReturnUnchanged, WriteAlone, tables
  <1>6. CASE FindOwnSession(p) \/ FindUnverified(p) \/ FindToken(p) \/ Issue(p) \/ Stamp(p)
    <2>1. ~HoldsLocks(p)
      BY <1>6, Idle DEF FindOwnSession, FindUnverified, FindToken, Issue, Stamp
    <2> QED
      BY <1>2, <1>3, <1>4, <1>6, <2>1
      DEF FindOwnSession, FindUnverified, FindToken, Issue, Stamp, ReturnUnchanged, tables
  <1>7. CASE InsertSession(p) \/ InsertToken(p) \/ TouchLastUsedAt(p) \/ RevokeByID(p)
    <2>1. ~HoldsLocks(p)
      BY <1>7, Idle DEF InsertSession, InsertToken, TouchLastUsedAt, RevokeByID
    <2> QED
      BY <1>2, <1>3, <1>7, <2>1
      DEF InsertSession, InsertToken, TouchLastUsedAt, RevokeByID, WriteAlone, tables
  <1>8. CASE SelectSessions(p)
    <2>1. /\ UNCHANGED <<rows, lock, tgt, kind>>
          /\ \A s \in matched'[p] : rows[s].user = UserOf(p)
      BY <1>8 DEF SelectSessions, ComeTo, tables, Inv, TypeOK
    <2> QED
      BY <2>1 DEF SessionsOfUser, UserOf
  <1>9. CASE SweepSession(p)
    <2>1. cursor[p] \in matched[p] /\ cursor[p] \in Items
      BY <1>9, SweptRow
    <2>2. /\ UNCHANGED <<rows, tgt, kind>> /\ matched'[p] \subseteq matched[p]
          /\ \A s \in Sessions : lock'[s] = p => lock[s] = p \/ s = cursor[p]
      BY <1>9, <2>1, KindsOfItems DEF SweepSession, WriteInTx, ComeTo, Inv, TypeOK
    <2> QED
      BY <2>1, <2>2 DEF SessionsOfUser, UserOf
  <1>10. ASSUME Publish(p) \/ Discard(p) PROVE SessionsOfUser(p)'
    BY <1>1, <1>3, <1>10, KindsOfItems DEF Publish, Discard, Unlock
  <1>11. CASE EndSweep(p)
    <2>1. CASE UNCHANGED <<tables, tgt, kind, matched>>
      BY <2>1 DEF tables, SessionsOfUser, UserOf
    <2> QED
      BY <1>10, <1>11, <2>1 DEF EndSweep
  <1>12. CASE UpdateUser(p)
    <2>1. ~HoldsLocks(p) /\ matched' = matched
      BY <1>12, Idle DEF UpdateUser
    <2>2. UserOf(p) \in Users
      BY <1>12, OwnerStored
      DEF UpdateUser, Inv, IdentityInvariant, RequestInvariant, Targeted, TokenStatements
    <2>3. \A s \in Sessions : lock'[s] = lock[s]
      BY <1>12, <2>2, KindsOfItems DEF UpdateUser, WriteInTx, Inv, TypeOK
    <2> QED
      BY <1>1, <2>1, <2>3, IdleHoldsNothing, IdleSweepsNothing, KindsOfItems
  <1>13. CASE MarkUsed(p)
    <2>1. tgt[p] \in Tokens
      BY <1>13 DEF MarkUsed, Inv, IdentityInvariant, RequestInvariant, Targeted,
                   TokenStatements, OnToken
    <2>2. UNCHANGED <<rows, tgt, kind, matched>> /\ \A s \in Sessions : lock'[s] = lock[s]
      BY <1>13, <2>1, KindsOfItems DEF MarkUsed, WriteInTx, tables, Inv, TypeOK
    <2> QED
      BY <2>2 DEF SessionsOfUser, UserOf
  <1>14. CASE Commit(p) \/ Rollback(p) \/ DeadlockVictim(p) \/ Abort(p)
    BY <1>10, <1>14 DEF Commit, Rollback, DeadlockVictim, Abort
  <1> QED
    BY <1>5, <1>6, <1>7, <1>8, <1>9, <1>11, <1>12, <1>13, <1>14 DEF Progress

LEMMA SessionsStep ==
    Inv /\ (\A p \in Requests : SessionsOfUser(p)) /\ [Next]_vars
    => \A p \in Requests : SessionsOfUser(p)'
  <1> SUFFICES ASSUME Inv, \A p \in Requests : SessionsOfUser(p), [Next]_vars
               PROVE  \A q \in Requests : SessionsOfUser(q)'
    OBVIOUS
  <1>1. ASSUME NEW p \in Requests, Start(p) \/ Progress(p) \/ Abort(p), NEW q \in Requests
        PROVE  SessionsOfUser(q)'
    BY <1>1, StepIsSound, OtherSessions, OwnSessions
  <1>2. CASE UNCHANGED vars
    BY <1>2 DEF vars, SessionsOfUser, UserOf
  <1> QED
    BY <1>1, <1>2 DEF Next

\* Two transactions about one user are one: each has locked the user.
LEMMA OneTransactionPerUser ==
    ASSUME Inv, NEW p \in Requests, NEW q \in Requests, InTransaction(p), InTransaction(q),
           UserOf(p) = UserOf(q)
    PROVE  p = q
  BY DEF Inv, IdentityInvariant, RequestInvariant, UserDrafted

LEMMA NeededItems ==
    ASSUME Inv, NEW p \in Requests
    PROVE  \A i \in Needs(p) : i \in Items
  <1>1. RequestInvariant(p)
    BY DEF Inv, IdentityInvariant
  <1>2. pc[p] = "user" => UserOf(p) \in Users
    BY <1>1, OwnerStored DEF RequestInvariant, Targeted, TokenStatements
  <1>3. pc[p] \in {"touch", "revoke", "mark"} => tgt[p] \in Sessions \cup Tokens
    BY <1>1 DEF RequestInvariant, Targeted, TokenStatements, SessionStatements, OnToken
  <1>4. matched[p] # {} => cursor[p] \in Sessions
    BY <1>1 DEF RequestInvariant, SweepPlaced, Inv, TypeOK
  <1> QED
    BY <1>2, <1>3, <1>4, KindsOfItems DEF Needs

\* Whoever is waited for holds locks.
LEMMA WaitedForHolds ==
    ASSUME Inv, NEW p \in Requests, NEW q \in Requests, WaitsFor(p, q)
    PROVE  HoldsLocks(q)
  BY NeededItems, Locked DEF WaitsFor

\* A request that holds locks waits for sessions only: the token of a transaction can only
\* be held by one that has the same user.
LEMMA HoldersWaitForSessions ==
    ASSUME Inv, NEW p \in Requests, NEW q \in Requests, HoldsLocks(p), WaitsFor(p, q)
    PROVE  pc[p] = "sweep" /\ matched[p] # {} /\ lock[cursor[p]] = q
  <1>1. PICK i \in Needs(p) : lock[i] = q
    BY DEF WaitsFor
  <1>2. pc[p] # "mark"
    <2> SUFFICES ASSUME pc[p] = "mark" PROVE FALSE
      OBVIOUS
    <2>1. InTransaction(p) /\ OnToken(p)
      BY TransactionOnToken DEF HoldsLocks, InTransaction
    <2>2. i = tgt[p] /\ i \in Tokens /\ i \in Items
      BY <1>1, <2>1, OwnerStored DEF Needs
    <2>3. pc[q] = "end" /\ tgt[q] = tgt[p] /\ HoldsLocks(q)
      BY <1>1, <2>2, Locked
    <2>4. InTransaction(q) /\ UserOf(q) = UserOf(p)
      BY <2>3 DEF HoldsLocks, InTransaction, UserOf
    <2> QED
      BY <2>1, <2>4, OneTransactionPerUser DEF WaitsFor
  <1> QED
    BY <1>1, <1>2 DEF Needs, HoldsLocks, InTransaction

\* Resets, verifications, refreshes and logouts, in any number, wait for each other in a
\* circle only where RevokeAllByUserID of one user runs several times at once, and at most
\* one of the two that meet is a reset: ResetPassword and VerifyEmail take the user first,
\* and everybody but LogoutAll no second row.
THEOREM DeadlocksNeedLogouts == Spec => []OnlyLogoutsDeadlock
  <1> DEFINE All == Inv /\ \A p \in Requests : SessionsOfUser(p)
  <1>1. Init => All
    BY InitInv, KindsOfItems DEF Init, SessionsOfUser
  <1>2. All /\ [Next]_vars => All'
    BY StepInv, SessionsStep
  <1>3. All => OnlyLogoutsDeadlock
    <2> SUFFICES ASSUME All, NEW S \in SUBSET Requests, Circle(S),
                        NEW p \in S, NEW q \in S, WaitsFor(p, q)
                 PROVE  /\ pc[p] = "sweep"
                        /\ UserOf(p) = UserOf(q)
                        /\ "logoutAll" \in {kind[p], kind[q]}
      BY DEF OnlyLogoutsDeadlock
    <2>1. HoldsLocks(p) /\ HoldsLocks(q)
      BY WaitedForHolds DEF Circle
    <2>2. pc[p] = "sweep" /\ matched[p] # {} /\ lock[cursor[p]] = q
      BY <2>1, HoldersWaitForSessions
    <2>3. cursor[p] \in matched[p] /\ cursor[p] \in Sessions
      BY <2>2 DEF Inv, TypeOK, IdentityInvariant, RequestInvariant, SweepPlaced
    <2>4. UserOf(p) = UserOf(q)
      BY <2>2, <2>3 DEF SessionsOfUser
    <2>5. InTransaction(p) /\ InTransaction(q) => p = q
      BY <2>4, OneTransactionPerUser
    <2> QED
      BY <2>1, <2>2, <2>4, <2>5 DEF HoldsLocks, WaitsFor
  <1> QED
    BY <1>1, <1>2, <1>3, PTL DEF Spec

\* A set of numbers has a least one.
Less == {pair \in Nat \X Nat : pair[1] < pair[2]}

LEMMA LeastOfNats ==
    ASSUME NEW T \in SUBSET Nat, T # {}
    PROVE  \E x \in T : \A y \in T : x <= y
  <1>1. IsWellFoundedOn(Less, Nat)
    BY NatLessThanWellFounded DEF OpToRel, Less
  <1>2. PICK x \in T : \A y \in T : ~(<<y, x>> \in Less)
    BY <1>1, WFMin
  <1>3. \A y \in T : x \in Nat /\ y \in Nat /\ ~(y < x)
    BY <1>2 DEF Less
  <1> QED
    BY <1>3

\* Among finitely many requests that all wait for each other, some wait in a circle: take
\* the fewest that do, then each is waited for.
LEMMA FewestWaiters ==
    ASSUME IsFiniteSet(Requests), NEW W \in SUBSET Requests, W # {},
           \A p \in W : \E q \in W : WaitsFor(p, q)
    PROVE  \E p \in W : OnCycle(p)
  <1> DEFINE Stuck(S) == S # {} /\ \A p \in S : \E q \in S : WaitsFor(p, q)
             Sizes == {n \in Nat : \E S \in SUBSET W : Stuck(S) /\ Cardinality(S) = n}
  <1>1. ASSUME NEW S \in SUBSET W PROVE IsFiniteSet(S) /\ Cardinality(S) \in Nat
    <2>1. IsFiniteSet(S)
      BY FS_Subset
    <2> QED
      BY <2>1, FS_CardinalityType
  <1>2. PICK n \in Sizes : \A m \in Sizes : n <= m
    <2>1. Cardinality(W) \in Sizes
      BY <1>1
    <2>2. Sizes \in SUBSET Nat /\ Sizes # {}
      BY <2>1
    <2> HIDE DEF Sizes
    <2> QED
      BY <2>2, LeastOfNats
  <1>3. PICK S \in SUBSET W : Stuck(S) /\ Cardinality(S) = n
    OBVIOUS
  <1> DEFINE WaitedFor == {q \in S : \E p \in S : WaitsFor(p, q)}
  <1>4. WaitedFor \in SUBSET W /\ Stuck(WaitedFor)
    BY <1>3
  <1>5. n <= Cardinality(WaitedFor)
    BY <1>1, <1>2, <1>4
  <1>6. WaitedFor = S
    <2>1. IsFiniteSet(S) /\ Cardinality(S) \in Nat /\ Cardinality(WaitedFor) \in Nat
      BY <1>1, <1>4
    <2>2. WaitedFor \in SUBSET S
      OBVIOUS
    <2> HIDE DEF WaitedFor
    <2>3. Cardinality(WaitedFor) = Cardinality(S)
      BY <1>3, <1>5, <2>1, <2>2, FS_Subset
    <2> QED
      BY <2>1, <2>2, <2>3, FS_Subset
  <1>7. Circle(S) /\ S \in SUBSET Requests /\ S # {}
    BY <1>3, <1>6 DEF Circle
  <1> QED
    BY <1>7 DEF OnCycle

\* As long as any of finitely many requests runs, one of them need not wait for a row, or
\* is on a circle that Postgres breaks: nobody is ever stuck behind a request that has
\* returned.
THEOREM SomebodyMoves ==
    ASSUME IsFiniteSet(Requests)
    PROVE  Spec => []SomebodyMayMove
  <1>1. Inv => SomebodyMayMove
    <2> SUFFICES ASSUME Inv, NEW r \in Requests, Running(r),
                        \A p \in Requests : Running(p) => Waits(p) /\ ~OnCycle(p)
                 PROVE  FALSE
      BY DEF SomebodyMayMove
    <2> DEFINE W == {p \in Requests : Running(p)}
    <2>1. W \in SUBSET Requests /\ W # {}
      OBVIOUS
    <2>2. \A p \in Requests, q \in Requests : WaitsFor(p, q) => Running(q)
      BY WaitedForHolds DEF HoldsLocks, InTransaction, Running
    <2>3. \A p \in W : \E q \in W : WaitsFor(p, q)
      BY <2>2 DEF Waits
    <2> HIDE DEF W
    <2>4. PICK p \in W : OnCycle(p)
      BY <2>1, <2>3, FewestWaiters
    <2> QED
      BY <2>4 DEF W
  <1> QED
    BY <1>1, InitInv, StepInv, PTL DEF Spec

\* A step of p leaves it fewer statements and fewer sessions to revoke.
LEMMA StepShortens ==
    ASSUME IsFiniteSet(Sessions), Inv, NEW p \in Requests, Start(p) \/ Progress(p) \/ Abort(p)
    PROVE  StepsLeft(p)' \in 0..StepsLeft(p) - 1
  <1> DEFINE all == Cardinality(Sessions)
  <1>1. all \in Nat
    BY FS_CardinalityType
  <1>2. ASSUME NEW S \in SUBSET Sessions
        PROVE  IsFiniteSet(S) /\ Cardinality(S) \in Nat /\ Cardinality(S) <= all
    BY <1>1, FS_Subset, FS_CardinalityType
  <1>3. matched[p] \in SUBSET Sessions /\ Cardinality(matched[p]) \in Nat
    BY <1>2 DEF Inv, TypeOK
  <1> HIDE DEF all
  <1>4. ASSUME Return(p), pc[p] # "done" PROVE StepsLeft(p)' \in 0..StepsLeft(p) - 1
    <2>1. pc'[p] = "done"
      BY <1>4 DEF Return, Inv, TypeOK
    <2>2. StepsLeft(p) \in Nat /\ StepsLeft(p) >= 1 /\ StepsLeft(p)' = 0
      BY <1>1, <1>3, <1>4, <2>1 DEF StepsLeft, all, Inv, TypeOK
    <2> QED
      BY <2>2
  <1>5. ASSUME NEW i, NEW next, GoOn(p, i, next) PROVE pc'[p] = next
    BY <1>5 DEF GoOn, Inv, TypeOK
  <1>6. CASE Start(p)
    <2>1. pc[p] = "start"
      BY <1>6 DEF Start, InsertUser, FindUser, FindByRefreshToken, VerifyAccessToken,
                  Authenticate, BeginTx
    <2>2. Return(p) \/ pc'[p] \in {"issue", "stamp", "authenticated", "find"}
      BY <1>5, <1>6 DEF Start, InsertUser, FindUser, FindByRefreshToken, VerifyAccessToken,
                        Authenticate, BeginTx, ReturnUnchanged
    <2> QED
      BY <1>1, <1>4, <2>1, <2>2 DEF StepsLeft, all
  <1>7. CASE FindOwnSession(p) \/ FindUnverified(p)
    <2>1. pc[p] = "authenticated" /\ (Return(p) \/ pc'[p] \in {"revoke", "issue"})
      BY <1>5, <1>7 DEF FindOwnSession, FindUnverified, ReturnUnchanged
    <2> QED
      BY <1>4, <2>1 DEF StepsLeft
  <1>8. CASE FindToken(p)
    <2>1. pc[p] = "find" /\ (Return(p) \/ pc'[p] = "stamp")
      BY <1>5, <1>8 DEF FindToken, ReturnUnchanged
    <2> QED
      BY <1>1, <1>4, <2>1 DEF StepsLeft, all
  <1>9. CASE Stamp(p)
    <2>1. pc[p] = "stamp" /\ pc'[p] \in {"touch", "select", "user", "revoke"}
      BY <1>5, <1>9 DEF Stamp, AfterStamp
    <2> QED
      BY <1>1, <2>1 DEF StepsLeft, all
  <1>10. CASE Issue(p)
    <2>1. pc[p] = "issue" /\ pc'[p] = "insert"
      BY <1>5, <1>10 DEF Issue
    <2> QED
      BY <2>1 DEF StepsLeft
  <1>11. CASE InsertSession(p) \/ InsertToken(p) \/ TouchLastUsedAt(p) \/ RevokeByID(p)
    BY <1>4, <1>11 DEF InsertSession, InsertToken, TouchLastUsedAt, RevokeByID
  <1>12. CASE SelectSessions(p)
    <2>1. /\ pc[p] = "select" /\ pc'[p] = "sweep"
          /\ matched'[p] \in SUBSET Sessions
      BY <1>12 DEF SelectSessions, ComeTo, Inv, TypeOK
    <2>2. Cardinality(matched'[p]) \in Nat /\ Cardinality(matched'[p]) <= all
      BY <1>2, <2>1
    <2>3. StepsLeft(p) = 4 + all /\ StepsLeft(p)' = 3 + Cardinality(matched'[p])
      BY <2>1 DEF StepsLeft, all
    <2> QED
      BY <1>1, <2>2, <2>3
  <1>13. CASE SweepSession(p)
    <2>1. /\ pc[p] = "sweep" /\ pc'[p] = "sweep"
          /\ matched'[p] = matched[p] \ {cursor[p]} /\ cursor[p] \in matched[p]
      BY <1>13, SweptRow DEF SweepSession, ComeTo, Inv, TypeOK
    <2>2. Cardinality(matched'[p]) = Cardinality(matched[p]) - 1
      BY <1>2, <1>3, <2>1, FS_RemoveElement
    <2>3. Cardinality(matched'[p]) \in Nat
      BY <1>2, <1>3, <2>1
    <2>4. /\ StepsLeft(p) = 3 + Cardinality(matched[p])
          /\ StepsLeft(p)' = 3 + Cardinality(matched'[p])
      BY <2>1 DEF StepsLeft
    <2> QED
      BY <1>3, <2>2, <2>3, <2>4
  <1>14. CASE EndSweep(p)
    <2>1. pc[p] = "sweep" /\ (Return(p) \/ pc'[p] = "mark")
      BY <1>14 DEF EndSweep, Publish, Inv, TypeOK
    <2> QED
      BY <1>3, <1>4, <2>1 DEF StepsLeft
  <1>15. CASE UpdateUser(p)
    <2>1. pc[p] = "user" /\ pc'[p] \in {"select", "mark"}
      BY <1>15 DEF UpdateUser, Inv, TypeOK
    <2> QED
      BY <1>1, <2>1 DEF StepsLeft, all
  <1>16. CASE MarkUsed(p)
    <2>1. pc[p] = "mark" /\ pc'[p] \in {"end", "fail"}
      BY <1>16 DEF MarkUsed, Inv, TypeOK
    <2> QED
      BY <2>1 DEF StepsLeft
  <1>17. CASE Commit(p) \/ Rollback(p) \/ Abort(p)
    BY <1>4, <1>17 DEF Commit, Publish, Rollback, Abort, Discard
  <1>18. CASE DeadlockVictim(p)
    <2>1. PICK q \in Requests : WaitsFor(p, q)
      BY <1>18 DEF DeadlockVictim, OnCycle, Circle
    <2>2. pc[p] # "done"
      BY <2>1 DEF WaitsFor, Needs
    <2> QED
      BY <1>4, <1>18, <2>2 DEF DeadlockVictim, Discard
  <1> QED
    BY <1>6, <1>7, <1>8, <1>9, <1>10, <1>11, <1>12, <1>13, <1>14, <1>15, <1>16, <1>17, <1>18
    DEF Progress

\* A request takes eight steps at most and one for each session it revokes, whatever the
\* others do meanwhile. Every step of the system is one of these.
THEOREM RequestsAreShort ==
    ASSUME IsFiniteSet(Sessions)
    PROVE  Spec => NobodyIsDelayed
  <1>1. ASSUME NEW p \in Requests, OthersKept(p), NEW q \in Requests \ {p}
        PROVE  StepsLeft(q)' = StepsLeft(q)
    BY <1>1 DEF OthersKept, StepsLeft
  <1>2. Inv /\ [Next]_vars =>
          \/ \E p \in Requests :
                /\ StepsLeft(p)' \in 0..StepsLeft(p) - 1
                /\ \A q \in Requests \ {p} : StepsLeft(q)' = StepsLeft(q)
          \/ UNCHANGED vars
    BY <1>1, StepShortens, StepIsSound DEF Next, StepSound
  <1> QED
    BY <1>2, InitInv, StepInv, PTL DEF Spec, NobodyIsDelayed

=============================================================================
