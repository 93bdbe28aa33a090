----------------------------- MODULE MCIdentity -----------------------------
(***************************************************************************)
(* Small instances of Identity for TLC: one user, or one still to be       *)
(* registered, whose sessions and tokens expire soon or late.              *)
(***************************************************************************)
EXTENDS IdentityInvariant, TLC

CONSTANTS u1, u2, s1, s2, s3, s4, k1, k2, k3, k4, w1, w2

NoUser == [present |-> FALSE, password |-> Null, verified |-> FALSE, updated |-> 0]
NoSession == [present |-> FALSE, user |-> Null, expires |-> 0, used |-> 0, revoked |-> 0]
NoToken == [present |-> FALSE, user |-> Null, purpose |-> Null, expires |-> 0, used |-> 0]

User(verified) == [present |-> TRUE, password |-> w1, verified |-> verified, updated |-> 1]
Session(expires) ==
    [present |-> TRUE, user |-> u1, expires |-> expires, used |-> 0, revoked |-> 0]
Token(purpose, expires) ==
    [present |-> TRUE, user |-> u1, purpose |-> purpose, expires |-> expires, used |-> 0]

Soon == 5
Late == 50

\* A user with two sessions and a token of each purpose, with ids left for new ones.
Table(expiry) ==
    [u \in {u1, u2} |-> IF u = u1 THEN User(FALSE) ELSE NoUser]
    @@ [s \in {s1, s2, s3, s4} |-> IF s \in {s1, s2} THEN Session(IF s = s1 THEN Late ELSE expiry)
                                   ELSE NoSession]
    @@ [k \in {k1, k2, k3, k4} |-> CASE k = k1 -> Token("password_reset", expiry)
                                     [] k = k2 -> Token("email_verification", expiry)
                                     [] OTHER  -> NoToken]

MCUsers == {u1, u2}
MCSessions == {s1, s2, s3, s4}
MCTokens == {k1, k2, k3, k4}
MCTables == {Table(Soon), Table(Late)}
=============================================================================
