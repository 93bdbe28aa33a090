---------------------------- MODULE IdentityApi -----------------------------
(***************************************************************************)
(* The HTTP endpoints of users, sessions and one-time tokens on top of     *)
(* Identity: the status code each outcome of a service becomes, and what a *)
(* client that was told it is logged out may rely on.                      *)
(*                                                                         *)
(* Every step of Identity is a step here; the module adds the answers.     *)
(***************************************************************************)
EXTENDS Identity, Endpoints

VARIABLE answer     \* what the client got, and the sessions it asked to end

----------------------------------------------------------------------------
(***************************************************************************)
(* Errors and status codes.                                                *)
(***************************************************************************)
\* What is counted and has to come over HTTPS in production.
Guarded == RequireHTTPS \cup RateLimited

RegisterAuth == Endpoint(Guarded \cup Validate, "201", "409", {"500"})
LoginAuth == Endpoint(Guarded \cup Validate, "200", "401", {"500"})
RefreshAuth == Endpoint(Guarded \cup Validate \cup {"401"}, "200", "401", {"500"})

\* Variant for testing the properties: every error is taken for a session that is over.
LogoutWhatever == Endpoint(RequireHTTPS \cup Validate \cup {"200"}, "200", "200", {"200"})

\* A session that is not there or over is as good as logged out, and so is a client
\* that presents no token at all.
LogoutAuth == Endpoint(RequireHTTPS \cup Validate \cup {"200"}, "200", "200", {"500"})

LogoutAllAuth == Endpoint(RequireHTTPS \cup {"401"}, "200", "401", {"500"})
RevokeSessionAuth == Endpoint(BeforeHandler, "204", "404", {"500"})

\* An unknown address is not told from a known one.
ForgotPasswordAuth == Endpoint(Guarded \cup Validate, "200", "200", {"500"})
ResetPasswordAuth == Endpoint(Guarded \cup Validate, "200", "401", {"500"})

\* A verified address needs no mail.
SendVerificationEmailAuth == Endpoint(Guarded \cup NewAuthMiddleware, "200", "200", {"500"})
VerifyEmailAuth == Endpoint(Guarded \cup Validate, "200", "401", {"500"})

Handler(p) ==
    CASE kind[p] = "register" -> RegisterAuth
      [] kind[p] = "login" -> LoginAuth
      [] kind[p] = "refresh" -> RefreshAuth
      [] kind[p] \in {"logout", "logoutCurrent"} -> LogoutAuth
      [] kind[p] = "logoutAll" -> LogoutAllAuth
      [] kind[p] = "revokeSession" -> RevokeSessionAuth
      [] kind[p] = "forgotPassword" -> ForgotPasswordAuth
      [] kind[p] = "resetPassword" -> ResetPasswordAuth
      [] kind[p] = "sendVerificationEmail" -> SendVerificationEmailAuth
      [] kind[p] = "verifyEmail" -> VerifyEmailAuth

\* The endpoints that end sessions.
Enders == {"logout", "logoutCurrent", "logoutAll", "revokeSession", "resetPassword"}

\* The code with the sessions the request is to end: as long as there is no code, those
\* there were when the request came.
Answer(code, ending) == [code |-> code, ending |-> ending]

NoAnswer == Answer("none", {})

\* An answer that never arrives counts as a 500: neither tells the client what became
\* of the request.
Reply(p, ending, codes) ==
    \E code \in codes \cup {"500"} : answer' = [answer EXCEPT ![p] = Answer(code, ending)]

ApiInit == Init /\ answer = [p \in Requests |-> NoAnswer]

----------------------------------------------------------------------------
(***************************************************************************)
(* Requests that begin.                                                    *)
(***************************************************************************)
\* The handler, or what runs before it, answers without the service.
Refuse(p) ==
    /\ pc[p] = "start"
    /\ answer[p] = NoAnswer
    /\ Reply(p, {}, Handler(p).refused)
    /\ UNCHANGED vars

\* The paths the middleware lets nobody pass on whose session is over.
Protected(p) == kind[p] \in {"revokeSession", "sendVerificationEmail"}

\* What a logout may have found over already.
FoundOver(p) == {s \in Sessions : /\ kind[p] = "logout"
                                  /\ rows[s].present
                                  /\ ~ActiveSession(rows[s], clock')}

\* The service ends the request where it begins.
Reject(p) ==
    IF Protected(p)
    THEN Reply(p, {}, {"401"})
    ELSE \E ending \in {{}} \cup {{s} : s \in FoundOver(p)} :
            Reply(p, ending, {Handler(p).failure})

Accept(p) ==
    /\ answer[p] = NoAnswer
    /\ Start(p)
    /\ IF pc'[p] = "done"
       THEN Reject(p)
       ELSE answer' = [answer EXCEPT ![p] = Answer("none",
              {s \in Sessions : kind[p] \in Enders /\ rows[s].present})]

----------------------------------------------------------------------------
(***************************************************************************)
(* The end of a request.                                                   *)
(***************************************************************************)
\* The sessions a request is to end: one, or all its user had when it came.
Ending(p) == {s \in answer[p].ending : \/ s = tgt[p]
                                       \/ tgt[p] \in Users \cup Tokens /\ rows[s].user = UserOf(p)}

\* A session or token that has expired when it is made is an error of its own.
Expired(p) == now[p] + (IF kind[p] \in SignInKinds THEN SessionTTL ELSE TokenTTL) <= clock'

\* Nothing was found, or the statement affected no row.
Missed(p) == \/ pc[p] \in {"authenticated", "find", "fail"}
             \/ pc[p] = "touch" /\ ~Touches(p)
             \/ pc[p] = "revoke" /\ rows[tgt[p]].revoked # 0

Outcome(p) == IF OnCycle(p)
              THEN Handler(p).broken
              ELSE CASE pc[p] = "insert" /\ Expired(p) -> {"500"}
                     [] Missed(p) -> {Handler(p).failure}
                     [] OTHER -> {Handler(p).success}

Serve(p) ==
    /\ Progress(p)
    /\ IF pc'[p] = "done" THEN Reply(p, Ending(p), Outcome(p)) ELSE UNCHANGED answer

Break(p) == Abort(p) /\ Reply(p, Ending(p), Handler(p).broken)

ApiNext == \/ \E p \in Requests : Refuse(p) \/ Accept(p) \/ Serve(p) \/ Break(p)
           \/ AllDone /\ UNCHANGED <<vars, answer>>

ApiSpec == ApiInit /\ [][ApiNext]_<<vars, answer>>

\* The handler goroutines and Postgres, its deadlock detector included, go on with what
\* has begun.
ApiFairSpec == ApiSpec /\ \A p \in Requests : WF_<<vars, answer>>(Serve(p))

----------------------------------------------------------------------------
(***************************************************************************)
(* Properties.                                                             *)
(***************************************************************************)
\* A session is over for good once a client was told so: the one it logged out of, also
\* when the answer was given for a session that had ended already, and after a logout
\* everywhere or a password reset all its user had when the request came, whatever
\* refreshes and logouts were on their way (LogoutAuth, LogoutAllAuth,
\* RevokeSessionAuth, ResetPasswordAuth).
LoggedOutStaysOut ==
    \A p \in Requests :
        answer[p].code \in Successes =>
            \A s \in answer[p].ending : ~ActiveSession(rows[s], clock)

\* Every request that has begun is answered, in the end and once: a reset that finds its
\* token used gives up its user and all sessions, and where logouts everywhere wait for
\* each other's sessions in a circle, one of them is failed (WithinTx, LogoutAllAuth).
EveryRequestAnswered ==
    \A p \in Requests : (pc[p] # "start") ~> (pc[p] = "done" /\ answer[p].code # "none")
=============================================================================
