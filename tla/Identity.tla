------------------------------ MODULE Identity ------------------------------
(***************************************************************************)
(* Concurrent HTTP requests against the users, sessions and                *)
(* auth_one_time_tokens tables (internal/app/identity and                  *)
(* infra/postgres/auth_repositories.go).                                   *)
(*                                                                         *)
(* Resetting a password and verifying an e-mail address are one database   *)
(* transaction each; every other request is a chain of statements that     *)
(* commit by themselves. A user id stands for a normalized e-mail address, *)
(* which uq_users_normalized_email makes one-to-one. Hashes are injective  *)
(* and tokens are known only to those they were issued to, so a request    *)
(* presents the id of the session or of the token itself.                  *)
(*                                                                         *)
(* SELECTing a session and checking its expiry is one step: a session that *)
(* is over stays so, hence a request that finds it over after reading the  *)
(* clock might as well have selected it then. A statement that addresses   *)
(* one row by its id is one step too: what it may find changed since its   *)
(* snapshot (revoked, used) never changes back. RevokeAllByUserID is a     *)
(* step per row, in any order: it locks the rows of its snapshot one after *)
(* the other, wherever the scan finds them.                                *)
(***************************************************************************)
EXTENDS Integers

CONSTANTS
    Users, Sessions, Tokens,    \* ids
    Passwords,                  \* what clients may choose
    Requests,                   \* HTTP requests, each handled once
    Free,                       \* the holder of an unlocked row
    Null,                       \* SQL NULL
    Kinds,                      \* the endpoints called
    InitialTables,              \* contents of the tables before the requests
    ClockSteps,                 \* how far the clock may have moved between two readings
    SessionTTL, TokenTTL        \* RefreshTokenTTL and the lifetime of one-time tokens

Items == Users \cup Sessions \cup Tokens

Purposes == {"password_reset", "email_verification"}

\* `updated` is updated_at; 0 is a time nothing has happened at.
UserRow == [present : BOOLEAN, password : Passwords \cup {Null}, verified : BOOLEAN,
            updated : Nat]

\* expires_at, last_used_at (0 for NULL) and revoked_at (0 for NULL).
SessionRow == [present : BOOLEAN, user : Users \cup {Null}, expires : Nat, used : Nat,
               revoked : Nat]

\* expires_at and used_at (0 for NULL).
TokenRow == [present : BOOLEAN, user : Users \cup {Null}, purpose : Purposes \cup {Null},
             expires : Nat, used : Nat]

\* A stored session or token belongs to a user (user_id NOT NULL).
RowsOf(i) == CASE i \in Users    -> UserRow
               [] i \in Sessions -> {r \in SessionRow : r.present => r.user \in Users}
               [] OTHER          -> {r \in TokenRow : r.present => r.user \in Users}

Tables == {t \in [Items -> UserRow \cup SessionRow \cup TokenRow] :
              \A i \in Items : t[i] \in RowsOf(i)}

\* user_id REFERENCES users (id).
ForeignKeys(t) == \A i \in Sessions \cup Tokens : t[i].present => t[t[i].user].present

TransactionKinds == {"resetPassword", "verifyEmail"}
SignInKinds == {"register", "login"}
TokenKinds == {"forgotPassword", "sendVerificationEmail"}
RefreshTokenKinds == {"refresh", "logout"}
AccessTokenKinds == {"logoutCurrent", "logoutAll", "revokeSession", "sendVerificationEmail"}
AllKinds == TransactionKinds \cup SignInKinds \cup TokenKinds \cup RefreshTokenKinds
            \cup AccessTokenKinds

\* The time at which the first request may come.
Epoch == 2

ASSUME IdentityAssumption ==
    /\ Users \cap Sessions = {} /\ Users \cap Tokens = {} /\ Sessions \cap Tokens = {}
    /\ Null \notin Users \cup Passwords \cup Items
    /\ Free \notin Requests
    /\ Kinds \subseteq AllKinds
    /\ InitialTables \subseteq {t \in Tables : ForeignKeys(t)}
    /\ ClockSteps \subseteq Nat
    /\ SessionTTL \in Nat \ {0} /\ TokenTTL \in Nat \ {0}

VARIABLES
    rows, draft, lock,  \* committed version, uncommitted version, its writer
    clock,
    \* one entry per request
    kind,       \* the endpoint (never changes)
    pc,         \* the next statement
    tgt,        \* the row the request is about
    now,        \* its last clock reading
    matched,    \* sessions of its snapshot RevokeAllByUserID has still to write
    cursor,     \* the one it has come to
    known       \* history: the sessions there were when a password reset came

tables == <<rows, draft, lock>>
vars == <<rows, draft, lock, clock, kind, pc, tgt, now, matched, cursor, known>>

ActiveSession(r, n) == r.present /\ r.revoked = 0 /\ r.expires > n

\* Variant for testing the properties: used_at IS NULL is left out.
ValidThoughUsed(r, n) == r.present /\ r.expires > n

ValidToken(r, n) == r.present /\ r.used = 0 /\ r.expires > n

PurposeOf(p) == IF kind[p] \in {"resetPassword", "forgotPassword"}
                THEN "password_reset" ELSE "email_verification"

\* The user request p is about: the owner of its token, or the user it addresses.
UserOf(p) == IF tgt[p] \in Tokens THEN rows[tgt[p]].user ELSE tgt[p]

\* The version of row i that request p has written, or the committed one.
Visible(p, i) == IF lock[i] = p THEN draft[i] ELSE rows[i]

RowFree(p, i) == lock[i] \in {Free, p}

ReadClock(p) ==
    \E d \in ClockSteps : clock' = clock + d /\ now' = [now EXCEPT ![p] = clock + d]

Init ==
    /\ rows \in InitialTables
    /\ draft = rows
    /\ lock = [i \in Items |-> Free]
    /\ clock = Epoch
    /\ kind \in [Requests -> Kinds]
    /\ pc = [p \in Requests |-> "start"]
    /\ tgt = [p \in Requests |-> Null]
    /\ now = [p \in Requests |-> 0]
    /\ matched = [p \in Requests |-> {}]
    /\ cursor = [p \in Requests |-> Null]
    /\ known = [p \in Requests |-> {}]

----------------------------------------------------------------------------
(***************************************************************************)
(* Statements, and the end of a request.                                   *)
(***************************************************************************)
\* The handler has returned: its local variables are gone.
Return(p) ==
    /\ pc' = [pc EXCEPT ![p] = "done"]
    /\ tgt' = [tgt EXCEPT ![p] = Null]
    /\ now' = [now EXCEPT ![p] = 0]
    /\ matched' = [matched EXCEPT ![p] = {}]
    /\ cursor' = [cursor EXCEPT ![p] = Null]
    /\ known' = [known EXCEPT ![p] = {}]
    /\ UNCHANGED kind

\* Return without having written anything.
ReturnUnchanged(p) == Return(p) /\ UNCHANGED <<tables, clock>>

\* Go on to the next statement with row i.
GoOn(p, i, next) ==
    /\ pc' = [pc EXCEPT ![p] = next]
    /\ tgt' = [tgt EXCEPT ![p] = i]
    /\ UNCHANGED <<kind, matched, cursor>>

\* databaseFromContext outside WithinTx: the statement commits by itself.
WriteAlone(i, new) ==
    /\ rows' = [rows EXCEPT ![i] = new]
    /\ draft' = [draft EXCEPT ![i] = new]
    /\ UNCHANGED lock

\* databaseFromContext inside WithinTx, and one row of a statement that writes several.
WriteInTx(p, i, new) ==
    /\ draft' = [draft EXCEPT ![i] = new]
    /\ lock' = [lock EXCEPT ![i] = p]
    /\ UNCHANGED rows

Unlock(p) == lock' = [i \in Items |-> IF lock[i] = p THEN Free ELSE lock[i]]

\* What p has written becomes visible to the others.
Publish(p) ==
    /\ rows' = [i \in Items |-> Visible(p, i)]
    /\ Unlock(p)
    /\ Return(p)
    /\ UNCHANGED <<draft, clock>>

\* WithinTx after a nil error.
Commit(p) == pc[p] = "end" /\ Publish(p)

Discard(p) ==
    /\ draft' = [i \in Items |-> IF lock[i] = p THEN rows[i] ELSE draft[i]]
    /\ Unlock(p)
    /\ Return(p)
    /\ UNCHANGED <<rows, clock>>

\* Variant for testing the properties: the database transaction is never ended.
RollbackForgotten(p) == pc[p] = "fail" /\ ReturnUnchanged(p)

\* WithinTx after an error of the service.
Rollback(p) == pc[p] = "fail" /\ Discard(p)

\* A statement, the commit or sending the mail fails: the request is cancelled, the
\* connection is lost, the process dies.
Abort(p) == pc[p] \notin {"start", "fail", "done"} /\ Discard(p)

----------------------------------------------------------------------------
(***************************************************************************)
(* Waiting for a row lock. Postgres breaks a circle of waits by failing a  *)
(* statement of one of the requests on it.                                 *)
(***************************************************************************)
\* The row the next statement of p writes, or goes on with.
Needs(p) == CASE pc[p] \in {"touch", "revoke", "mark"} -> {tgt[p]}
              [] pc[p] = "user" -> {UserOf(p)}
              [] pc[p] = "sweep" /\ matched[p] # {} -> {cursor[p]}
              [] OTHER -> {}

WaitsFor(p, q) == p # q /\ \E i \in Needs(p) : lock[i] = q

Circle(S) == \A p \in S : /\ \E q \in S : WaitsFor(p, q)
                          /\ \E q \in S : WaitsFor(q, p)

OnCycle(p) == \E S \in SUBSET Requests : p \in S /\ Circle(S)

DeadlockVictim(p) == OnCycle(p) /\ Discard(p)

----------------------------------------------------------------------------
(***************************************************************************)
(* How requests begin.                                                     *)
(***************************************************************************)
\* Register: the INSERT of a user, refused when the e-mail address is taken.
InsertUser(p) ==
    /\ pc[p] = "start"
    /\ kind[p] = "register"
    /\ \E u \in Users, password \in Passwords :
         IF rows[u].present
         THEN ReturnUnchanged(p)
         ELSE /\ ReadClock(p)
              /\ WriteAlone(u, [present |-> TRUE, password |-> password,
                                verified |-> FALSE, updated |-> clock'])
              /\ GoOn(p, u, "issue")
              /\ UNCHANGED known

\* Login, and ForgotPassword for a known address.
FindUser(p) ==
    /\ pc[p] = "start"
    /\ kind[p] \in {"login", "forgotPassword"}
    /\ \E u \in Users, password \in Passwords :
         IF rows[u].present /\ (kind[p] = "login" => rows[u].password = password)
         THEN GoOn(p, u, "issue") /\ UNCHANGED <<tables, clock, now, known>>
         ELSE ReturnUnchanged(p)

\* findActiveSessionByRefreshToken.
FindByRefreshToken(p) ==
    /\ pc[p] = "start"
    /\ kind[p] \in RefreshTokenKinds
    /\ \E s \in Sessions, d \in ClockSteps :
         /\ clock' = clock + d
         /\ UNCHANGED tables
         /\ IF ActiveSession(rows[s], clock')
            THEN GoOn(p, s, "stamp") /\ UNCHANGED <<now, known>>
            ELSE Return(p)

\* LogoutCurrent and LogoutAll ask no more than that the access token is genuine.
VerifyAccessToken(p) ==
    /\ pc[p] = "start"
    /\ kind[p] \in {"logoutCurrent", "logoutAll"}
    /\ \E s \in Sessions :
         IF rows[s].present
         THEN /\ GoOn(p, IF kind[p] = "logoutAll" THEN rows[s].user ELSE s, "stamp")
              /\ UNCHANGED <<tables, clock, now, known>>
         ELSE ReturnUnchanged(p)

\* NewAuthMiddleware and AccessAuthService.Authenticate.
Authenticate(p) ==
    /\ pc[p] = "start"
    /\ kind[p] \in {"revokeSession", "sendVerificationEmail"}
    /\ \E s \in Sessions, d \in ClockSteps :
         /\ clock' = clock + d
         /\ UNCHANGED tables
         /\ IF ActiveSession(rows[s], clock')
            THEN GoOn(p, rows[s].user, "authenticated") /\ UNCHANGED <<now, known>>
            ELSE Return(p)

\* ResetPassword and VerifyEmail begin a transaction and read the clock.
BeginTx(p) ==
    /\ pc[p] = "start"
    /\ kind[p] \in TransactionKinds
    /\ ReadClock(p)
    /\ GoOn(p, tgt[p], "find")
    /\ known' = [known EXCEPT ![p] = {s \in Sessions : rows[s].present}]
    /\ UNCHANGED tables

----------------------------------------------------------------------------
(***************************************************************************)
(* What they read before they write.                                       *)
(***************************************************************************)
\* RevokeSession: only a session of one's own that is active.
FindOwnSession(p) ==
    /\ pc[p] = "authenticated"
    /\ kind[p] = "revokeSession"
    /\ \E s \in Sessions :
         IF rows[s].present /\ rows[s].user = tgt[p]
         THEN \E d \in ClockSteps :
                /\ clock' = clock + d
                /\ UNCHANGED tables
                /\ IF ActiveSession(rows[s], clock')
                   THEN /\ GoOn(p, s, "revoke")
                        /\ now' = [now EXCEPT ![p] = clock']
                        /\ UNCHANGED known
                   ELSE Return(p)
         ELSE ReturnUnchanged(p)

\* SendVerificationEmail: nothing is sent to a verified address.
FindUnverified(p) ==
    /\ pc[p] = "authenticated"
    /\ kind[p] = "sendVerificationEmail"
    /\ IF rows[tgt[p]].verified
       THEN ReturnUnchanged(p)
       ELSE GoOn(p, tgt[p], "issue") /\ UNCHANGED <<tables, clock, now, known>>

\* FindActiveByHash; ErrOneTimeTokenNotFound ends the transaction.
FindToken(p) ==
    /\ pc[p] = "find"
    /\ \E k \in Tokens :
         IF ValidToken(rows[k], now[p]) /\ rows[k].purpose = PurposeOf(p)
         THEN GoOn(p, k, "stamp") /\ UNCHANGED <<tables, clock, now, known>>
         ELSE ReturnUnchanged(p)

\* Variant for testing the properties: a reset revokes sessions before it has the user.
AfterStampSessionsFirst(p) == CASE kind[p] = "refresh" -> "touch"
                                [] kind[p] \in {"logoutAll", "resetPassword"} -> "select"
                                [] kind[p] = "verifyEmail" -> "user"
                                [] OTHER -> "revoke"

AfterStamp(p) == CASE kind[p] = "refresh" -> "touch"
                   [] kind[p] = "logoutAll" -> "select"
                   [] kind[p] \in TransactionKinds -> "user"
                   [] OTHER -> "revoke"

\* The clock reading the next statements write.
Stamp(p) ==
    /\ pc[p] = "stamp"
    /\ ReadClock(p)
    /\ GoOn(p, tgt[p], AfterStamp(p))
    /\ UNCHANGED <<tables, known>>

----------------------------------------------------------------------------
(***************************************************************************)
(* Sessions and tokens that are issued.                                    *)
(***************************************************************************)
\* IssueRefreshToken and IssueOneTimeToken: the lifetime counts from here.
Issue(p) ==
    /\ pc[p] = "issue"
    /\ ReadClock(p)
    /\ GoOn(p, tgt[p], "insert")
    /\ UNCHANGED <<tables, known>>

\* Sessions and tokens as NewSession and NewOneTimeToken make them.
NewSession(p) == [present |-> TRUE, user |-> tgt[p], expires |-> now[p] + SessionTTL,
                  used |-> 0, revoked |-> 0]

NewToken(p) == [present |-> TRUE, user |-> tgt[p], purpose |-> PurposeOf(p),
                expires |-> now[p] + TokenTTL, used |-> 0]

\* Another clock reading, which must not be past the expiry, and the INSERT.
InsertSession(p) ==
    /\ pc[p] = "insert"
    /\ kind[p] \in SignInKinds
    /\ \E s \in Sessions, d \in ClockSteps :
         /\ ~rows[s].present
         /\ clock' = clock + d
         /\ IF NewSession(p).expires > clock'
            THEN WriteAlone(s, NewSession(p))
            ELSE UNCHANGED tables
    /\ Return(p)

InsertToken(p) ==
    /\ pc[p] = "insert"
    /\ kind[p] \in TokenKinds
    /\ \E k \in Tokens, d \in ClockSteps :
         /\ ~rows[k].present
         /\ clock' = clock + d
         /\ IF NewToken(p).expires > clock'
            THEN WriteAlone(k, NewToken(p))
            ELSE UNCHANGED tables
    /\ Return(p)

----------------------------------------------------------------------------
(***************************************************************************)
(* Sessions that are used or revoked.                                      *)
(***************************************************************************)
\* Variant for testing the properties: last_used_at is set unconditionally.
TouchesAny(p) == TRUE

\* The WHERE clause of TouchLastUsedAt.
Touches(p) == ActiveSession(rows[tgt[p]], now[p])

TouchLastUsedAt(p) ==
    /\ pc[p] = "touch"
    /\ RowFree(p, tgt[p])
    /\ IF Touches(p)
       THEN WriteAlone(tgt[p], [rows[tgt[p]] EXCEPT !.used = now[p]])
       ELSE UNCHANGED tables
    /\ Return(p)
    /\ UNCHANGED clock

RevokeByID(p) ==
    /\ pc[p] = "revoke"
    /\ RowFree(p, tgt[p])
    /\ IF rows[tgt[p]].revoked = 0
       THEN WriteAlone(tgt[p], [rows[tgt[p]] EXCEPT !.revoked = now[p]])
       ELSE UNCHANGED tables
    /\ Return(p)
    /\ UNCHANGED clock

\* On to the next row of the snapshot, whichever the scan finds next.
ComeTo(p, rest) ==
    /\ matched' = [matched EXCEPT ![p] = rest]
    /\ \E s \in (IF rest = {} THEN {Null} ELSE rest) : cursor' = [cursor EXCEPT ![p] = s]

\* RevokeAllByUserID of LogoutAll and of ResetPassword: the rows of its snapshot ...
SelectSessions(p) ==
    /\ pc[p] = "select"
    /\ ComeTo(p, {s \in Sessions : ActiveSession(rows[s], now[p]) /\ rows[s].user = UserOf(p)})
    /\ pc' = [pc EXCEPT ![p] = "sweep"]
    /\ UNCHANGED <<tables, clock, kind, tgt, now, known>>

\* Variant for testing the properties: a session used meanwhile is spared.
SweptUnlessUsed(p, s) == IF rows[s].revoked = 0 /\ rows[s].used <= now[p]
                         THEN [rows[s] EXCEPT !.revoked = now[p]] ELSE rows[s]

\* ... of which it writes those that have not been revoked meanwhile, and locks all.
Swept(p, s) == IF rows[s].revoked = 0
               THEN [rows[s] EXCEPT !.revoked = now[p]] ELSE rows[s]

SweepSession(p) ==
    LET s == cursor[p] IN
    /\ pc[p] = "sweep"
    /\ matched[p] # {}
    /\ RowFree(p, s)
    /\ WriteInTx(p, s, Swept(p, s))
    /\ ComeTo(p, matched[p] \ {s})
    /\ UNCHANGED <<clock, kind, pc, tgt, now, known>>

\* In a transaction the locks stay; alone, the statement commits.
EndSweep(p) ==
    /\ pc[p] = "sweep"
    /\ matched[p] = {}
    /\ IF kind[p] \in TransactionKinds
       THEN /\ pc' = [pc EXCEPT ![p] = "mark"]
            /\ UNCHANGED <<tables, clock, kind, tgt, now, matched, cursor, known>>
       ELSE Publish(p)

----------------------------------------------------------------------------
(***************************************************************************)
(* The user's row and the one-time token.                                  *)
(***************************************************************************)
\* UpdatePassword or MarkEmailVerified.
UpdateUser(p) ==
    LET u == UserOf(p) IN
    /\ pc[p] = "user"
    /\ RowFree(p, u)
    /\ IF kind[p] = "resetPassword"
       THEN /\ \E password \in Passwords :
                 WriteInTx(p, u, [rows[u] EXCEPT !.password = password, !.updated = now[p]])
            /\ pc' = [pc EXCEPT ![p] = "select"]
       ELSE /\ WriteInTx(p, u, [rows[u] EXCEPT !.verified = TRUE, !.updated = now[p]])
            /\ pc' = [pc EXCEPT ![p] = "mark"]
    /\ UNCHANGED <<clock, kind, tgt, now, matched, cursor, known>>

\* MarkUsed; no row affected is ErrInvalidPasswordResetToken and the like.
MarkUsed(p) ==
    LET k == tgt[p] IN
    /\ pc[p] = "mark"
    /\ RowFree(p, k)
    /\ IF ValidToken(rows[k], now[p])
       THEN /\ WriteInTx(p, k, [rows[k] EXCEPT !.used = now[p]])
            /\ pc' = [pc EXCEPT ![p] = "end"]
       ELSE UNCHANGED tables /\ pc' = [pc EXCEPT ![p] = "fail"]
    /\ UNCHANGED <<clock, kind, tgt, now, matched, cursor, known>>

----------------------------------------------------------------------------
Start(p) == \/ InsertUser(p)
            \/ FindUser(p)
            \/ FindByRefreshToken(p)
            \/ VerifyAccessToken(p)
            \/ Authenticate(p)
            \/ BeginTx(p)

\* What the handler goroutine and Postgres carry out on their own.
Progress(p) == \/ FindOwnSession(p)
               \/ FindUnverified(p)
               \/ FindToken(p)
               \/ Stamp(p)
               \/ Issue(p)
               \/ InsertSession(p)
               \/ InsertToken(p)
               \/ TouchLastUsedAt(p)
               \/ RevokeByID(p)
               \/ SelectSessions(p)
               \/ SweepSession(p)
               \/ EndSweep(p)
               \/ UpdateUser(p)
               \/ MarkUsed(p)
               \/ Commit(p)
               \/ Rollback(p)
               \/ DeadlockVictim(p)

AllDone == \A p \in Requests : pc[p] \in {"start", "done"}

Next == \/ \E p \in Requests : Start(p) \/ Progress(p) \/ Abort(p)
        \/ AllDone /\ UNCHANGED vars

Spec == Init /\ [][Next]_vars

----------------------------------------------------------------------------
(***************************************************************************)
(* Properties.                                                             *)
(***************************************************************************)
\* Every variable holds a value of its type; a session or token belongs to a user.
TypeOK ==
    /\ rows \in Tables
    /\ draft \in Tables
    /\ lock \in [Items -> Requests \cup {Free}]
    /\ clock \in Nat
    /\ kind \in [Requests -> AllKinds]
    /\ pc \in [Requests -> {"start", "authenticated", "find", "stamp", "issue", "insert",
                            "touch", "revoke", "user", "select", "sweep", "mark", "end",
                            "fail", "done"}]
    /\ tgt \in [Requests -> Items \cup {Null}]
    /\ now \in [Requests -> Nat]
    /\ matched \in [Requests -> SUBSET Sessions]
    /\ cursor \in [Requests -> Sessions \cup {Null}]
    /\ known \in [Requests -> SUBSET Sessions]

\* In this step token k of user u is used up.
Pays(k, u) == /\ rows[k].present /\ rows[k].user = u
              /\ rows[k].used = 0 /\ rows'[k].used # 0

\* A password or the verified flag of a user changes only together with the one token
\* that was sent for it, each token pays for one change, and no change of the other
\* column is undone (UpdatePassword, MarkEmailVerified and MarkUsed in one WithinTx).
TokensPay ==
    [][/\ \A u \in Users : rows[u].present /\ rows'[u] # rows[u] =>
            \E k \in Tokens :
              /\ Pays(k, u)
              /\ \A other \in Tokens \ {k} : rows'[other] = rows[other]
              /\ IF rows[k].purpose = "password_reset"
                 THEN rows'[u].verified = rows[u].verified
                 ELSE rows'[u].password = rows[u].password /\ rows'[u].verified
       /\ \A u \in Users, k \in Tokens : Pays(k, u) => rows'[u].updated = rows'[k].used]_vars

\* A session that is revoked and a token that is used stay exactly as they are: no
\* request that found them valid a moment ago writes to them (TouchLastUsedAt,
\* RevokeByID, RevokeAllByUserID, MarkUsed).
OverForGood ==
    [][/\ \A s \in Sessions : rows[s].present /\ rows[s].revoked # 0 => rows'[s] = rows[s]
       /\ \A k \in Tokens : rows[k].present /\ rows[k].used # 0 => rows'[k] = rows[k]]_vars

\* When a password reset takes effect, every session its user had when the request came
\* is over, whatever refreshed or revoked them meanwhile (ResetPassword).
ResetEndsSessions ==
    [][\A p \in Requests :
          /\ kind[p] = "resetPassword"
          /\ pc[p] = "end"
          /\ rows' # rows /\ pc'[p] = "done"
          => \A s \in known[p] :
               rows[s].user = UserOf(p) => ~ActiveSession(rows'[s], clock')]_vars
=============================================================================
