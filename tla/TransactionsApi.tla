--------------------------- MODULE TransactionsApi ---------------------------
(***************************************************************************)
(* The HTTP endpoints of transactions and accounts on top of Ledger: what  *)
(* a handler refuses before it calls its service, how it turns the error of*)
(* a service into a status code, what the client is left with when the     *)
(* answer is lost, and how the process is shut down under running requests.*)
(*                                                                         *)
(* Every step of Ledger is a step here; the module adds the answers and    *)
(* decides when a step may be taken (no request starts after the signal).  *)
(***************************************************************************)
EXTENDS Ledger, Endpoints

VARIABLES
    serving,    \* the server: "up", "draining", "closing" or "stopped"
    err,        \* the error a service has returned
    made,       \* the ids a request has taken for new rows (history)
    answer      \* what the client got, and the transaction it asked about

apiVars == <<serving, err, made, answer>>

----------------------------------------------------------------------------
(***************************************************************************)
(* Errors and status codes.                                                *)
(***************************************************************************)
Conflicts == {"ErrConcurrentTransactionUpdate", "ErrTransactionAlreadyPosted",
              "ErrTransactionAlreadyCancelled", "ErrPostedTransactionPatchConflict",
              "ErrCancelledTransactionPatchConflict", "ErrPostedTransactionDeleteConflict"}

\* The domain's errors about a body are one here.
BusinessRules == {"ErrInvalidTransaction"}

\* Those the transaction handlers do not know, ErrConcurrentAccountUpdate among them.
Unknown == {"ErrConcurrentAccountUpdate", "other"}

Errors == {"ErrTransactionNotFound"} \cup Conflicts \cup BusinessRules \cup Unknown

\* Create, patch, duplicate and the bulk endpoints.
WithRules == [e \in Errors |->
    CASE e = "ErrTransactionNotFound" -> "404"
      [] e \in Conflicts -> "409"
      [] e \in BusinessRules -> "422"
      [] OTHER -> "500"]

\* Delete, post and cancel.
WithoutRules == [WithRules EXCEPT !["ErrInvalidTransaction"] = "500"]

\* A BulkItemError is answered by the error it wraps.
BulkRules == WithRules

CreateOne == Endpoint(BeforeHandler, "201", WithRules, {"500"})
DeleteOne == Endpoint(BeforeHandler, "204", WithoutRules, {"500"})
PostOne == Endpoint(BeforeHandler, "200", WithoutRules, {"500"})
CancelOne == Endpoint(BeforeHandler, "200", WithoutRules, {"500"})
CreateMany == Endpoint(BeforeHandler, "201", BulkRules, {"500"})

DuplicateOne == Endpoint(NewAuthMiddleware \cup StrictDetectNullFields, "201", WithRules, {"500"})
PatchMany == Endpoint(NewAuthMiddleware \cup StrictDetectNullFields, "200", BulkRules, {"500"})

\* A body that sets the status is a conflict before anything is read.
PatchOne == Endpoint(NewAuthMiddleware \cup StrictDetectNullFields \cup {"409"}, "200",
                     WithRules, {"500"})

\* The error of an account statement that found another version than the service.
AccountRules == [e \in Errors |-> IF e = "ErrConcurrentAccountUpdate" THEN "409" ELSE "500"]

\* The accounts of the model all exist; a request may name another one. A name can be
\* taken by the time of the statement (unique index on active names).
NoSuchAccount == {"404"}
BeforeAccount == BeforeHandler \cup NoSuchAccount

PatchAccount == Endpoint(BeforeAccount, "200", AccountRules, {"409", "500"})
RestoreAccount == Endpoint(BeforeAccount, "200", AccountRules, {"409", "500"})
ArchiveAccount == Endpoint(BeforeAccount, "200", AccountRules, {"500"})

Handler(p) ==
    CASE kind[p] = "create" -> CreateOne
      [] kind[p] = "patch" -> PatchOne
      [] kind[p] = "duplicate" -> DuplicateOne
      [] kind[p] = "delete" -> DeleteOne
      [] kind[p] = "post" -> PostOne
      [] kind[p] = "cancel" -> CancelOne
      [] kind[p] = "createBulk" -> CreateMany
      [] kind[p] = "patchBulk" -> PatchMany
      [] kind[p] = "updateAccount" -> PatchAccount
      [] kind[p] = "archiveAccount" -> ArchiveAccount
      [] kind[p] = "restoreAccount" -> RestoreAccount

\* "none": not answered yet. An answer that never arrives counts as a 500: neither
\* tells the client whether the request took effect.
NoAnswer == [code |-> "none", tx |-> NoTx]

Reply(p, codes) ==
    \E code \in codes : answer' = [answer EXCEPT ![p] = [code |-> code, tx |-> tgt[p]]]

ApiInit ==
    /\ Init
    /\ serving = "up"
    /\ err = [p \in Requests |-> "none"]
    /\ made = [p \in Requests |-> {}]
    /\ answer = [p \in Requests |-> NoAnswer]

----------------------------------------------------------------------------
(***************************************************************************)
(* The error a service returns in a step that makes it fail.               *)
(***************************************************************************)
\* A row the service has read and does not accept.
Rejection(p, status) ==
    CASE status = "none" -> {"ErrTransactionNotFound"}
      [] op[p] \in {"post", "cancel"} /\ status = "posted" -> {"ErrTransactionAlreadyPosted"}
      [] op[p] \in {"post", "cancel"} /\ status = "cancelled" -> {"ErrTransactionAlreadyCancelled"}
      [] op[p] = "patch" /\ status = "cancelled" -> {"ErrCancelledTransactionPatchConflict"}
      [] op[p] = "patch" /\ status = "posted" -> {"ErrPostedTransactionPatchConflict",
                                                  "ErrInvalidTransaction"}
      [] op[p] = "patch" /\ status = "planned" -> {"ErrInvalidTransaction"}
      [] op[p] = "delete" -> {"ErrPostedTransactionDeleteConflict"}
      [] OTHER -> {"other"}

\* validateBulkPatchStatusTransition.
TransitionError(from) == IF from = "cancelled" THEN "ErrTransactionAlreadyCancelled"
                                               ELSE "ErrPostedTransactionPatchConflict"

\* "no row": the UPDATE or DELETE matched none; the repository asks why later.
ErrorsOf(p) ==
    CASE pc[p] \in {"start", "end"} /\ kind[p] # "patchBulk" -> {"ErrInvalidTransaction"}
      [] pc[p] \in {"start", "end"} -> {"ErrTransactionNotFound"}
      [] pc[p] = "find" -> Rejection(p, VisibleTx(p, tgt[p]).status)
      [] pc[p] = "write" -> {"no row"}
      [] pc[p] = "status" -> {TransitionError(was[p])}
      [] OTHER -> {"ErrConcurrentAccountUpdate"}

\* A statement of p within its database transaction.
Statement(p) ==
    /\ made' = [made EXCEPT ![p] = @ \cup (minted' \ minted)]
    /\ IF pc'[p] = "fail"
       THEN \E e \in ErrorsOf(p) : err' = [err EXCEPT ![p] = e]
       ELSE UNCHANGED err
    /\ UNCHANGED <<serving, answer>>

----------------------------------------------------------------------------
(***************************************************************************)
(* Requests.                                                               *)
(***************************************************************************)
\* The handler answers before it calls the service.
Refuse(p) ==
    /\ serving = "up"
    /\ pc[p] = "start"
    /\ answer[p] = NoAnswer
    /\ Reply(p, Handler(p).refused)
    /\ UNCHANGED <<vars, serving, err, made>>

Accept(p) ==
    /\ pc[p] = "start" => serving = "up" /\ answer[p] = NoAnswer
    /\ Start(p)
    /\ Statement(p)

Proceed(p) == (Find(p) \/ Write(p)) /\ Statement(p)

\* COMMIT took effect; that the client learns of it is another matter.
Complete(p) ==
    /\ Commit(p)
    /\ Reply(p, {Handler(p).success, "500"})
    /\ UNCHANGED <<serving, err, made>>

\* A statement or COMMIT failed, or the deadlock detector chose p.
Break(p) ==
    /\ Abort(p) \/ DeadlockVictim(p)
    /\ Reply(p, Handler(p).broken)
    /\ UNCHANGED <<serving, err, made>>

\* existsByID and statusByID, asked when no row has matched.
Reason(p) ==
    LET status == VisibleTx(p, tgt[p]).status IN
    CASE status = "none" -> "ErrTransactionNotFound"
      [] op[p] = "delete" /\ status = "posted" -> "ErrPostedTransactionDeleteConflict"
      [] OTHER -> "ErrConcurrentTransactionUpdate"

ReportError(p) ==
    /\ Rollback(p)
    /\ Reply(p, {Handler(p).failure[IF err[p] = "no row" THEN Reason(p) ELSE err[p]], "500"})
    /\ err' = [err EXCEPT ![p] = "none"]
    /\ UNCHANGED <<serving, made>>

\* An account that needs no statement is answered as it is.
ReadAccountRow(p) ==
    /\ answer[p] = NoAnswer
    /\ serving = "up"
    /\ FindAccount(p)
    /\ IF pc'[p] = "done" THEN Reply(p, {"200", "500"}) ELSE UNCHANGED answer
    /\ UNCHANGED <<serving, err, made>>

\* Archive reads the account once more when its statement has matched no row.
AccountCodes(p) ==
    LET newest == accounts[acct[p]] IN
    CASE kind[p] = "updateAccount" /\ ~SameVersion(newest, aseen[p]) ->
           {Handler(p).failure["ErrConcurrentAccountUpdate"]}
      [] kind[p] = "archiveAccount" /\ newest.archived -> {"200", "404"}
      [] OTHER -> {"200"}

\* The pool still hands out connections.
WriteAccountRow(p) ==
    /\ serving \in {"up", "draining"}
    /\ WriteAccount(p)
    /\ Reply(p, AccountCodes(p) \cup {"500"})
    /\ UNCHANGED <<serving, err, made>>

----------------------------------------------------------------------------
(***************************************************************************)
(* API.Run after SIGTERM: Shutdown lets no new request in and waits for the*)
(* handlers, but not longer than ten seconds; then Close of the pool waits *)
(* for the connections in use, and the process ends.                       *)
(***************************************************************************)
InTransaction(p) == Running(p) /\ kind[p] \notin AccountKinds

Signal == serving = "up" /\ serving' = "draining" /\ UNCHANGED <<vars, err, made, answer>>

Drained ==
    /\ serving = "draining"
    /\ \A p \in Requests : ~Running(p)
    /\ serving' = "stopped"
    /\ UNCHANGED <<vars, err, made, answer>>

DrainTimeout ==
    /\ serving = "draining"
    /\ \E p \in Requests : Running(p)
    /\ serving' = "closing"
    /\ UNCHANGED <<vars, err, made, answer>>

Exit ==
    /\ serving = "closing"
    /\ \A p \in Requests : ~InTransaction(p)
    /\ serving' = "stopped"
    /\ UNCHANGED <<vars, err, made, answer>>

\* A request without a connection gets none any more.
PoolClosed(p) ==
    /\ serving \in {"closing", "stopped"}
    /\ pc[p] = "awrite"
    /\ Break(p)

----------------------------------------------------------------------------
Serve(p) == \/ Proceed(p)
            \/ Complete(p)
            \/ ReportError(p)
            \/ ReadAccountRow(p)
            \/ WriteAccountRow(p)
            \/ DeadlockVictim(p) /\ Break(p)
            \/ PoolClosed(p)

Stop == Drained \/ DrainTimeout \/ Exit

Idle == (\A p \in Requests : ~Running(p)) /\ UNCHANGED <<vars, apiVars>>

ApiNext == \/ \E p \in Requests : Refuse(p) \/ Accept(p) \/ Serve(p) \/ Break(p)
           \/ Signal
           \/ Stop
           \/ Idle

ApiSpec == ApiInit /\ [][ApiNext]_<<vars, apiVars>>

\* The handler goroutines run, and so does the timer of Shutdown.
ApiFairness ==
    /\ \A p \in Requests : WF_<<vars, apiVars>>(Serve(p))
    /\ WF_<<vars, apiVars>>(Stop)

ApiFairSpec == ApiSpec /\ ApiFairness

----------------------------------------------------------------------------
(***************************************************************************)
(* Properties.                                                             *)
(***************************************************************************)
Succeeded(p) == answer[p].code \in Successes
Refused(p) == answer[p].code \in Refusals

\* The status now of the transaction a request was about.
StatusOf(p) == txns[answer[p].tx].status

\* What a client has been told stays true: once told that a transaction is posted,
\* cancelled or deleted it never finds it planned, uncancelled or there again, and of
\* a refused creation, a bulk one with items already inserted included, no row is ever
\* found (PostTransaction, CancelTransaction, DeleteTransaction and the creating
\* handlers, with requests that read the row before and write it after the answer).
AnswersHold ==
    \A p \in Requests :
        /\ Succeeded(p) /\ kind[p] = "post" => StatusOf(p) # "planned"
        /\ Succeeded(p) /\ kind[p] = "cancel" => StatusOf(p) \in {"cancelled", "none"}
        /\ Succeeded(p) /\ kind[p] = "delete" => StatusOf(p) = "none"
        /\ Refused(p) => \A t \in made[p] : ~Exists(txns[t])

\* To its clients, the server is one that handles each request at a single moment: what
\* a success reports has happened to exactly that row, as it was at that moment, a
\* refused request has changed nothing, and a bulk request is done as a whole. In
\* particular no edit is lost to a posting or cancelling of the row as it was read
\* before, and a lost answer leaves nothing half done (the handlers, WithinTx and the
\* updated_at guards).
Promised == INSTANCE AtomicRequests WITH
    book <- [t \in TxIds |-> EntryOf(txns[t])],
    balance <- [a \in Accounts |-> Balance(accounts[a], a)]

ImplementsAtomicRequests == Promised!RequestsSpec

\* Once told to stop, the process ends, whatever requests are running and whatever
\* they wait for (API.Run: Shutdown with its timeout, then Close of the pool).
ShutdownEnds == (serving = "draining") ~> (serving = "stopped")
=============================================================================
