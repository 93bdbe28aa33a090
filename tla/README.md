# A TLA+ model of moneo-backend

Moneo is a personal-finance backend: a Go HTTP API over Postgres, plus an `ops` command that
repairs and verifies historical rows. But for the counters of a rate limiter it keeps no state
in memory; everything is rows in Postgres that concurrent HTTP requests read and write. So what is hard about it is
what happens *between* two SQL statements of a request, and that is what these modules
model: requests as small state machines, one action per statement, interleaved by Postgres'
READ COMMITTED rules (row locks, re-evaluation of WHERE, commits and rollbacks, aborts at any
statement).

Paths below are relative to `src/internal/`.

## 1. Inventory

### Components, their state and operations

| component | state | operations | modelled in |
|---|---|---|---|
| transactions and account balances (`app/accounting`, `domain/transactions`, `domain/accounting`, two repositories) | tables `transactions`, `accounts` (`balance_minor` is denormalised) | create, patch, delete, post, cancel, duplicate; create and patch in bulk; update, archive, restore account | `Ledger` |
| categories and subcategories (`app/catalog`, `domain/catalog`, two repositories) | tables `categories`, `subcategories` | create, update, archive, restore of each; archive and restore of a category cascade | `Catalog` |
| registration, login, sessions, one-time tokens (`app/identity`, `domain/identity`, `infra/postgres/auth_repositories.go`) | tables `users`, `sessions`, `auth_one_time_tokens` | register, login, refresh, logout (3 ways), revoke session, forgot/reset password, send/verify e-mail | `Identity` |
| repair of historical transactions (`ops/repair/transactions_format_job.go`) | the same `transactions` table; a cursor, a batch, a report in memory | one run: page, patch, report | `Repair` |
| database transactions (`infra/postgres/tx.go`) | the `pgx.Tx` in the context | `WithinTx`, `databaseFromContext` | inside each module: `Commit`, `Rollback`, `Abort`, what a statement sees |
| clock, ids (`infra/clock`, `infra/idgen`) | none | `Now`, `New...ID` | the `clock` variable, fresh ids |
| HTTP handlers, validation, routing (`transport/http`, generated code included) | none | refuse, call a service, turn its result into a status code | `TransactionsApi`, `CatalogApi`, `IdentityApi`, over `Endpoints` |
| start-up and shutdown (`bootstrap`) | the state of the server | serve, drain, close the pool, exit | `TransactionsApi` |
| rate limit (`transport/http/auth_security.go`) | counters behind a mutex | require HTTPS, allow or refuse an attempt, clean up | `RateLimiter` |
| verification of transactions (`ops/repair/transactions_verification_job.go`) | a snapshot, a baseline file | page, count, compare, report | `Verification` |
| money (`domain/shared`), lists and summaries, migrations | none of their own | | not modelled, see section 8 |
| budgeting, debt, goal, investment, membership, recurrence, reporting | | package comments only | nothing to model |

### How they interact

Handlers validate a request and call one application service. A service that changes several
rows runs in `TxManager.WithinTx`; the repositories find the transaction in the context and
fall back to the pool otherwise, so a statement outside of it commits by itself. Services
share nothing but the database. Accounts and transactions interact through
`applyTransactionBalanceEffect`: posting adds to the balances, cancelling takes off.
A category's archive reaches its subcategories through the time stamped on both. The repair
job is a separate process that writes single rows of `transactions` while the API serves; the verification job reads that table in batches while both write it.
Concurrent updates are detected by comparing `updated_at`, which is thereby both a time stamp
and a version.

### What is hard, and what has to hold

* **Accounting.** A request reads an account and writes it back whole; two postings of
  one transaction race; an item of a bulk request fails after others have moved money; a
  transfer locks two accounts and its reverse does too. *Every balance must be the opening
  balance plus exactly the posted transactions; a stale version must never be written back;
  requests must take effect as a whole; single-item requests must not deadlock, and all
  must return.*
* **Catalog.** A cascade takes a category and then its subcategories, while others edit,
  archive, create and restore these. *An archived category shows nothing; a second archive does
  not move the time by which restore finds the subcategories; what its owner archived alone stays archived;
  no edit is undone.*
* **Identity.** One token presented twice; a reset that revokes sessions while they are
  refreshed; a failure between changing the password and using up the token; logouts everywhere that lock
  the same sessions in different orders. *Each
  token pays for one change; after a reset every session there was when it came is over;
  what is over stays over; nothing but logouts everywhere and resets of one user can deadlock, and even then all are answered.*
* **Repair.** Patches are worked out from copies that requests make stale; the job is killed and run again;
  rows come and go behind the cursor. *Nothing a request did is undone; a row in
  the format stays in it; nothing is missed or looked at twice; the report is true; a
  run ends.*
* **Verification.** The scan reads a moving table without a transaction, and works out for itself
  what the repair job would change. *What stood still is counted once and rightly; the report
  hides nothing the repair would do; after a repair the table is clean.*
* **Rate limit.** A request reads the clock before it takes the mutex; counters are
  thrown away when there are many. *A window admits what its rule says and no more, also in bursts
  across windows; who waits as long as Retry-After says is not refused by that window.*
* **Answers.** COMMIT may take effect and its answer be lost; a second request may be answered for
  what a first one did; the pool is closed under requests that did not finish in time. *What a
  client was told for certain stays true; every request is answered; the process ends.*

`PROJECT.json` lists these hazards at their lines, with the property that covers each one.

## 2. Modules

    Transaction ── Books ─┬─ AtomicRequests (abstract specifications)
         └──────── Ledger ┴─ LedgerInvariant ─┬─ LedgerProofs ── LedgerSafety ── AtomicProofs
                     │                        └─ MCLedger             │
      Endpoints ── TransactionsApi ── MCTransactionsApi ──────────────┤ (both Apis are
          │  └──── CatalogApi ─────── MCCatalogApi                    │  proved to implement
          │          │                                                │  their services)
     Shelves ───── Catalog ─ CatalogInvariant ─┬─ CatalogSafety ──────┘
     (abstract)      │                         └─ MCCatalog
          └─────── IdentityApi ─────┬────────── MCIdentityApi
                     │              │
                   Identity ─ IdentityInvariant ── IdentityProofs
                                    └───────────── MCIdentity
    Repair ─ RepairInvariant ─┬─ RepairProofs ── VerificationProofs
      │                       └─ MCRepair          │
      └─ Verification ── MCVerification ───────────┘
    RateLimiter ─ RateLimiterInvariant ─┬─ RateLimiterProofs
                                        └─ MCRateLimiter

Every module `X` has the system and its properties, `XInvariant` the inductive invariant
the proofs use (which TLC checks as well), `MCX` the small instance.

### Ledger (with `Transaction`, `Books`)

`Transaction` is the pure part of `domain/transactions`: which bodies are valid, when a row may be posted
or cancelled, what it adds to which account (`Delta`, `Posting`).

`Ledger` runs the services. `pc[p]` is the next statement of request `p`. For a single
transaction these are `find` (SELECT), `write` (UPDATE/DELETE), `apply`/`adjust` (per account in
id order: SELECT and UPDATE), `insert`, `end` (COMMIT), `fail` (ROLLBACK); `status` is the
GetByID of a bulk patch item, `awrite` the UPDATE of an account request. A row is its committed version
(`txns`, `accounts`), what its lock holder has written (`txDraft`, `accDraft`)
and the holder (`txLock`, `accLock`). A SELECT never waits; an UPDATE waits for the lock and
then evaluates WHERE on the newest version. The balance column is kept as the sum it is: one
coordinate per transaction, so a lost or repeated addition shows which transaction it belongs to.
Bulk requests run their items one after another in one database transaction
(`count`, `op`). `DeadlockVictim` is Postgres ending one request of a circle.

One deliberate abstraction: where the row an UPDATE finds no longer fits its WHERE clause even in
the statement's snapshot, Postgres answers "0 rows" without waiting for the lock; the model waits and then
gets the same answer.

`Books` is the abstract specification: a book of entries that make lawful moves (recorded,
amended, posted, dropped, reversed, removed) and balances that always agree with it. `ImplementsBooks` says
Ledger implements it under `book <- the committed rows`, `balance <- the committed balances`.

`AtomicRequests` is the abstract specification of the endpoints, on top of `Books`: it has no statements, locks,
versions or clock, and one step, `Answer(p)`. A success changes exactly what was asked for, to the entry as it is at
that moment (`Asked`), all items of a bulk request at once (`Several`); a refusal changes nothing; a 500 or a lost answer is one of the two.
`TransactionsApi!ImplementsAtomicRequests` says the handlers and services together implement it, under the same mapping as above with the
requests' kinds and answers: of everything that goes on between the first SELECT and COMMIT clients see nothing.

### Catalog

`rows`, `draft`, `lock` as above, for both tables. Here a statement takes two steps,
since it matters: it selects rows by the versions committed so far, then waits for
their locks, re-evaluates WHERE on the newest versions and writes
(`SelectRow`/`WriteRow`, `SelectChildren`/`WriteChildren`). What it selected from *another* table, the
parent category of `INSERT ... SELECT`, it does not look at again. A unique-name
violation is one of the failures `Abort` stands for. The foreign-key check locks the
parent only FOR KEY SHARE, which does not conflict with updates of other columns.

`Shelves` is the abstract specification: each item is absent, shown, archived (by its owner) or hidden (with
its category), and one step is one successful request, a cascade too. `ImplementsShelves` says Catalog implements it under
`shelf <- ShelfOf(committed row)`. It does not under every interleaving (findings 2 and 3), but it does under all in which requests of the
kinds that those findings need do not overlap (`RequestsApart`).

### Identity

A user id stands for a normalized e-mail address. Password and token hashes are
injective, and a token is known only to whom it was issued, so requests present the id of the
session or token itself. `resetPassword` and `verifyEmail` are database transactions
(`find`, `user`, `select`, `sweep`, `mark`, `end`); the others are chains of statements that
commit by themselves. A SELECT by token and the expiry check after it are one step,
because a session that is over stays over.

`RevokeAllByUserID` is one UPDATE without an ORDER BY, so it is `SelectSessions` (its snapshot), a `SweepSession` per row, in any
order, and `EndSweep`. A row that it finds revoked meanwhile it does not write, but locks. In a reset the locks stay until the transaction
ends; in `LogoutAll` the statement is a transaction of its own and publishes its rows at once when it ends. As `LogoutAll` does
not take the user's row first, two of them, or one and a reset, can each hold a session the other waits for: `DeadlockVictim` is Postgres
ending one of them, whose client gets a 500. `OnlyLogoutsDeadlock` says that there are no other circles.

### Repair

The job is `JobStart`, `JobFetch` (one SELECT), one step per row (`JobSkip`, `JobApply`,
`JobApplyFails`, the last also for an UPDATE whose answer was lost after it took effect) and
`JobStop` (killed, or a failed SELECT). `MaxRuns` bounds how often it is started again. The requests are
those of Ledger, without the accounts: they read in one step and write and commit in another.
That is fine for the job, which holds no lock between statements, waits for a row lock and then
sees what was committed. A bulk request is, to the job, several such requests. Only the
columns matter that the job or a guard looks at: status and the four times, whether the income source is
set, whether one of the other five reserved references is.

`RunComplete` leaves out rows inserted during the run (`born`). That is not for convenience:
`DuplicateByID` copies the income source of a historical row (`app/accounting/transactions.go:698`),
although the transport refuses the field in requests, so a copy made behind the
cursor is out of the format. The next run finds it.

### TransactionsApi, CatalogApi, IdentityApi (with `Endpoints`)

`Endpoints` is the shape of a handler: the answers given before its service is called (authentication,
HTTPS, rate, OpenAPI and body validation, fields that are null), the answer to a success, those to the
errors of the service and those to a statement that fails. Each Api module adds an `answer` per request to the services
it extends, one handler per endpoint as `api_handler_generated.go` has it, and decides the code on the step
that ends the request. Any answer may turn out a 500: the client has lost it, and knows nothing.
Which one of several possible errors a service reports is followed through
(`err`, `Reason`, `NoRowErrors`, `Outcome`), because what a client may conclude depends on it.

`TransactionsApi` also has the server: `Signal`, the drain of `http.Server.Shutdown`, its timeout of ten
seconds (`DrainTimeout`), after which the pool is closed under whatever still runs (`PoolClosed`: such requests
fail or had committed already), and `Exit`.

Two differences between code and expectation that no property states, met on the way: a
posting that fails with `ErrConcurrentAccountUpdate` is a 500, since `isTransactionConflictError`
(`transport/http/api_handler_generated.go:2354`) does not know that error; and the second of two
concurrent archives of a category is answered 404 although the row is there (`ErrCategoryNotFound` when no row was affected).
The bodies of archive and restore answers show the row as it was read, so an edit committed in between is
not in them. Bodies are not modelled.

### Verification

Over `Repair`: `VStart` (options, cutoff, clearing of the baseline), `VFetch` (one SELECT of the next
batch by `id > last`, `updated_at` bound and limit; counts), `VReport` (discrepancies of the snapshot and against the baseline)
and `VStop` (killed, at the write of the file too). `touched` is history:
which ids have changed since the scan began. The counts by status and by class of problem and the number of rows that
need repair are modelled; counts by type and currency, sums and samples are of columns nobody here changes.

### RateLimiter

A request arrives, reads the clock, and is decided later under the mutex (`Decide`, with the clean-up in it).
The client is found behind trusted proxies, and HTTPS required in production. `admitted`
and `refused` are history. `MaxStall` bounds how much time passes between reading the clock and the decision; it is the
one assumption (`StallsAreShort`: no longer than a window, which is minutes in the code) under
which forgetting counters is sound.

## 3. Runs

`tlc -config X.cfg M` in this directory; times are for a few cores.

| run | instance | distinct states | shows |
|---|---|---|---|
| `ledger_requests` (LedgerRequests.cfg) | 3 requests of 9 single-item endpoints, or one bulk patch and two of them; 2 accounts, 3 transaction ids | 744,115 | balances, version check, no deadlock, refinement of Books |
| `transactions_api` (TransactionsApi.cfg) | 2 requests through the handlers, a bulk request of up to 2 items among them, a shutdown; fairness | 206,210 | what a client was told stays true; each request takes effect at its answer, as a whole or not at all (refinement of AtomicRequests); inductive invariant; every request returns; the process ends |
| `ledger_coarse_clock` (LedgerCoarseClock.cfg) | clock may stand still | violation | finding 1 |
| `catalog_cascade` (CatalogCascade.cfg) | 3 requests through the handlers: an archive or a restore of the category and two others; fairness | 345,085 | cascades take effect as a whole and undo each other (refinement of Shelves); inductive invariant; every request is answered |
| `catalog_requests` (CatalogRequests.cfg) | 3 requests of all 8 endpoints through the handlers | 1,760,241 | confirmed edits and archives stay, times of archives are kept |
| `catalog_create_race`, `catalog_restore_race` | 2 and 3 requests | violations | findings 2, 3 |
| `identity_requests` (IdentityRequests.cfg) | 2 requests of all 11 endpoints through the handlers; fairness | 139,355 | all of Identity and IdentityApi: tokens, sessions, resets, which requests may deadlock, every request is answered |
| `repair_live` (RepairLive.cfg) | 2 runs, 1 request of 6 endpoints, 4 ids, batches of 2; fairness | 301,307 | all of Repair |
| `verification` (Verification.cfg) | 1 scan, 1 repair, 1 request of 3 endpoints, 3 ids, batches of 1; fairness | 662,191 | all of Verification |
| `verification_cohort` (VerificationCohort.cfg) | 2 scans around a repair | violation | finding 4 |
| `rate_limiter` (RateLimiter.cfg) | 4 requests, 2 clients (one a proxy), 3 paths, time to 9 | 380,478 | all of RateLimiter |

### Why these bounds

* **Requests.** Each of the race conditions in section 1 needs two requests, findings 1 and 3 need three
  (a reader, and two that change and change back). Repair has one request against the job, and the job
  itself is the second actor; two runs make one repeat the work of the other. Two requests
  against one run, and three Identity requests that refresh, log out of one session or all, reset a password or verify an address (1.1 million states), were checked once as well.
  What holds for *any* number is a matter of the proofs.
* **Accounts and transactions.** Two accounts are what a transfer needs, and two ids
  are enough for a circle of waits; a third id leaves room for a new row. Bodies include a
  transfer, its validity error (`ToItself`), an expense and (in the bulk runs) an income.
* **Catalog.** One category with two subcategories, one of which may be archived on its own:
  requests for different categories touch disjoint rows.
* **Identity.** A registered user, one still to be registered, two sessions and one
  token of each purpose, enough ids for every row two requests can add. Lifetimes of 3 and rows that expire at
  5 or 50 make rows expire in the middle of a request.
* **Repair.** Two tables with a row of every kind of defect, rows in the format, and a free id in
  the middle of the table, where the scan passes it; four ids are two full batches; a limit of three cuts the second.
* **TransactionsApi.** `Pairs` names the endpoints taken together: any two of the single-item ones, those that take a body
  also with an account request, a bulk request with each that contends with it for the row and the accounts, and two bulk creations.
  A bulk patch with another bulk request has been left out, for its number of states: row and account locks are contended for by the other pairs.
* **LedgerRequests.** The one bulk patch (`WithBulk`) meets a post of a row of its batch, and they wait in a circle: the
  deadlock detector has something to do, and `NoDeadlock` has circles to exempt.
* **CatalogApi.** In `catalog_cascade` each trio has an archive of the category (without one there is no
  cascade to break) with two requests that edit, archive or restore, or a restore of it with two requests that create, restore or archive
  single subcategories. Left out is what `RequestsApart` excludes: two restores of one category, and an archive of it beside a
  request that makes one of its subcategories active. These are the two race runs. Each trio is taken in one order, since requests are interchangeable.
  The tables (`MCShelfTables`) have a category that is archived with a subcategory, too.
* **Verification.** Two defective rows around a free id, one row per batch: every
  change falls before, between or behind batches. A second scan compares, with a limit of two.
* **RateLimiter.** Windows of 3 and 2 ticks for one and two attempts, `Second = 2` so that rounding shows,
  `Cap = 1` so that every new counter cleans up, `MaxStall = 1`, and time for four attempts in three windows.
* `ClockSteps = {1}`: only the order and the equality of readings matter. The coarse-clock run adds 0.
* Bounds in the guards: `MaxItems`, `MaxRuns`, `MaxScans`, `MaxClock` (of RateLimiter), the sets of ids. Clocks are bounded by the number of
  requests, each of which reads the clock finitely often.
* Symmetry (of requests) is used in safety runs only.

### Fairness

`WF(Serve(p))` for every request (`ApiFairSpec`): once it has begun, its goroutine and Postgres carry on. `Accept` (clients
need not come), `Refuse` and `Break` (clients need not hang up, statements need not fail) are not fair. In `TransactionsApi` and
`IdentityApi`, serving includes Postgres' deadlock detector, without which two logouts everywhere might wait forever; Catalog has no circles of waits and needs none. The shutdown is fair too: `Drained`, `DrainTimeout` (a timer of the runtime), `Exit`; the signal is not.
Repair has `WF_vars(JobStep)` alone, and Verification the scan's steps alone: a run ends whatever the requests do or fail to do, as long as its own statements are
answered. Every run checks deadlock; a state with nothing left to do stutters explicitly.

## 4. What is proved

TLAPS checks every theorem below for all values of the constants that satisfy the named
assumptions of the modules. Each has the form `Init => I`, `I /\ [Next]_vars => I'`,
`I => P`, with the conjuncts of `I` and the actions of `Next` taken one by one.

| theorem | says |
|---|---|
| `LedgerProofs`, `CatalogSafety`, `RepairProofs!TypeCorrect` | type correctness (part of `IdentityInductive` and `RateInductive` in the others) |
| `LedgerSafety!BalancesCorrect` | `PostingsMatchStatus`: every balance is the opening balance plus the posted transactions |
| `LedgerSafety!AccountLockSound` | `ConcurrentUpdateDetected` |
| `LedgerSafety!TablesAreBooks` | `ImplementsBooks`: rows only make lawful moves, one per commit, and the balances always go with them |
| `AtomicProofs!RequestsAreAtomic` | `ImplementsAtomicRequests`: every request takes effect at the moment of its answer, exactly as asked, or not at all, for any number of requests and items |
| `AtomicProofs!AtomicRequestsAreBooks` | whatever implements `AtomicRequests` keeps the books: the abstract specifications are one above the other |
| `LedgerSafety!AnswersAreKept` | `AnswersHold`: what a client was told of a transaction stays true, through lost answers and a shutdown |
| `LedgerSafety!SingleRequestsNeverDeadlock` | `NoDeadlock`, with any clock |
| `LedgerSafety!SomebodyMoves`, `RequestsAreShort` | as long as one of finitely many requests runs, one of them need not wait or is on a circle that Postgres breaks; and each takes eleven steps per item at most, whatever the others do: the safety half of `EveryRequestReturns` |
| `LedgerSafety!ApiImplementsLedger`, `ApiBalancesCorrect` | refusals, lost answers and a shutdown at any time add no step to the ledger, so the balances are right under them |
| `CatalogSafety!CascadeComplete` | `ArchivedHidesSubcategories`, without requests that create or restore a subcategory (with them it is false: finding 2) |
| `CatalogSafety!ArchivesComplete`, `RestoresComplete` | the same with all requests, as long as no archive of a category overlaps with a create or restore of one of its subcategories; and `RestoredWithCategory`, as long as no two restores of a category overlap |
| `CatalogSafety!CatalogIsShelves` | `ImplementsShelves`, as long as requests stay apart in these two ways and the clock advances |
| `CatalogSafety!ShelvesStayConsistent` | whatever implements `Shelves` shows subcategories with their category and hides them with it |
| `CatalogSafety!ArchiveTimeKept` | `ArchivedOnce` |
| `CatalogSafety!ConfirmedArchivesHide` | `ConfirmedArchiveHides`: what a client was told is archived stays so, with its subcategories, until somebody brings it back |
| `CatalogSafety!ConfirmedEditsStay` | `ConfirmedEditsKept`, as long as the clock advances (`0 \notin ClockSteps`) |
| `CatalogSafety!OwnArchivesStay` | `OwnArchiveKept`, as long as the clock advances: restoring a category does not bring back what its owner archived |
| `CatalogSafety!RequestsNeverDeadlock`, `RequestsAreShort` | who has locked a row never waits, so there are no circles of waits nor queues behind queues; and a request takes seven steps at most: the safety half of `EveryRequestAnswered` |
| `IdentityProofs!DeadlocksNeedLogouts` | `OnlyLogoutsDeadlock`: requests wait in a circle only in the middle of `RevokeAllByUserID` of one user, and of two that wait for one another one is a logout everywhere |
| `IdentityProofs!SomebodyMoves`, `RequestsAreShort` | as long as one of finitely many requests runs, one need not wait or is on a circle that Postgres breaks; and each takes eight steps at most and one per session it may revoke, whatever the others do: the safety half of `EveryRequestAnswered` |
| `CatalogSafety!ApiImplementsCatalog`, `IdentityProofs!ApiImplementsIdentity` | the handlers implement the services |
| `IdentityProofs!TokensAccounted`, `OverStaysOver`, `ResetEndsThem` | `TokensPay`, `OverForGood`, `ResetEndsSessions` |
| `IdentityProofs!LoggedOutForGood` | `LoggedOutStaysOut` |
| `RepairProofs!ReportHolds`, `FormatKept`, `RepairsAreSound` | `ReportTrue`, `AlignedForGood`, `RepairSound` |
| `RepairProofs!RunsAreComplete`, `RunsScanOnce` | `RunComplete`, `ScannedOnce`: paging misses nothing and does nothing twice |
| `RepairProofs!RunsGoOn`, `RunsAreShort`, `VerificationProofs!ScansAreShort` | a run always has a next step and makes at most two for each id and one more, a scan one for each id and two more, whatever happens to the table: the safety half of `EveryRunEnds` and `EveryScanEnds` |
| `VerificationProofs!VerificationIsRepair`, `ReportsAreComplete` | the scan disturbs nothing; `ReportComplete` |
| `VerificationProofs!SnapshotsAreTrue`, `CleanScan` | `SnapshotTrue`, `CleanAfterRepair` |
| `RateLimiterProofs!AttemptsCapped`, `BurstsBounded`, `RetriesHonest` | `WindowsExact`, `BurstBounded`, `RetryAfterHonest` |

and `LedgerInductive`, `CatalogInductive`, `IdentityInductive`, `RepairInductive`, `VerificationInductive`, `RateInductive`, on which they rest.

**Ledger.** `PostingsMatchStatus` speaks of committed rows; what breaks it is a draft, or a
copy read long ago. `LedgerInvariant` therefore says who holds drafts; that no token is from
the future, and that a reading a request will still write is in no copy of that row
(`TokensAreFresh`); hence copies with the same token are equal (`TokensIdentifyRows`); that a
new id is nobody else's; and that each request sees balances which agree with the rows it
sees, apart from what it has still to add (`ViewAgrees`). The assumption is `ClockAdvances`: `0 \notin ClockSteps`.

`TablesAreBooks` adds `BooksInvariant`: an uncommitted row is at any time one lawful move away from
the row it is to replace, however many items of a bulk request have written it, because the moves compose
(amend, then post) and a request that creates rows is not one that changes them. With `LedgerInvariant`, which
says that the row a write starts from is the newest, each commit is a step of `Books`, and `PostingsMatchStatus` gives the balances.
`SingleRequestsNeverDeadlock` rests on `LocksInOrder`: who waits for a transaction row holds nothing, and who waits
for an account holds earlier accounts only. In a circle everybody holds something, so all wait for accounts, and the least of these
(the ids are well-ordered) would have to be later than another.
`AnswersAreKept` follows a row through its request (`Carried`) and after the answer (`Told`). Both rest on
`Established`: the row is nobody's to insert any more, so once it is gone it stays away, and as long as it is there it makes lawful moves only.
Of a request that is refused it says that what it has inserted is `Hidden`: not committed, locked by nobody else, read by nobody.

`RequestsAreAtomic` follows the drafts of a request until its commit: rows are valid bodies wherever they are (`RowsAreValid`); a draft is what
the endpoint makes of the *committed* row, however many items have written it (`WrittenAsAsked`); and each row it has written belongs to an item
it has begun (`ItemsInBounds`). That the committed row is still the one it started from is what `LedgerInvariant` says of lock holders. So the step that
commits and answers is one `Answer` step, and all others stutter.
`SomebodyMoves` and `RequestsAreShort` are as much of progress as can be said without ENABLED and fairness. Nobody leaves a lock behind (`HoldersRun`), so a request
that waits does so for one that runs; if all were waiting and none was on a circle, a smallest set of requests closed under
"waits for" would be a circle after all. `StepsLeft` counts the steps a request has left: every step of the system makes it smaller for one
request and leaves it alone for the others. Together: finitely many requests take finitely many steps, and while one of them runs somebody can take one.
That they *are* taken is fairness.

**Catalog.** Locks are held by cascading requests only, on the category and what
they have swept; drafts keep archive times; and a request in the middle of an archive still reaches
every subcategory that is active (`Reached`). As long as nobody makes a subcategory active
(`NobodyRevives`) the rows of an archived category are `Shielded`. `ConfirmedEditsKept` is about the merge of an
edit into a copy read earlier, and rests on `EditsInvariant`: the reading a request is to write is in
no row, no copy and no other request (`FreshReading`), so a copy that passes the `updated_at` guard has the fields
of the row (`CopyIdentified`); drafts leave fields alone; a new id is nobody else's. `OwnArchiveKept` is about times that look the same:
a restore finds the subcategories to bring back by the archive time of the category. `OwnInvariant` says that no archive time is
from the future, that a reading an archive is still to write is nobody's (`FreshForArchive`), and hence that what its owner
archived never has the time of its category (`OwnTimesApart`) nor the one a restore has read (`Spared`). `CatalogAssumption`
says the same of the initial rows: nothing in them is newer than `Epoch`, and no subcategory was archived by itself at the time of its category.

`ArchivesComplete`, `RestoresComplete` and `CatalogIsShelves` are the complements of findings 2 and 3: they show that the overlaps
those need are the *only* ways past the cascade, as all other requests may interleave and fail at will. The overlap is a hypothesis of the
form `[]RevivesApart`, `[]RestoresApart` (two requests on one category that are both between their first read and their end), not an assumption about the code,
which does nothing to rule it out. `ReviveInvariant`: a request that is to make a subcategory active has its category active, so nothing comes out under an archived one.
`RestoreInvariant`: what is archived with a category has its archive time, and that is the time the one restore has
read, because only another restore makes way for another time (`SeenAsArchived`, `SelectedToRestore`). `ShelfInvariant`: every row says who archived it, and a cascade about
to commit has written exactly what it was to (`SweptExactly`), so its COMMIT is the one step of Shelves. The initial tables have to be of the kind the services leave behind (`HiddenTogether`, `Orderly`: what is hidden has the time of its archived category,
and nothing is shown under it). `0 \notin ClockSteps` is needed since two archives at one time are not told apart by the restore.

`RequestsNeverDeadlock` is simple once the locks are known: cascades lock their category first, and a subcategory is locked only by who holds its category.

**Identity.** A step belongs to one request. What it does to the tables keeps the
invariant of every *other* request (lemma `OtherRequest`: its locks, drafts and the rows
it has found stay), and one lemma per action re-establishes its own. Only `Commit` changes users and tokens, which
gives the action properties. `LoggedOutStaysOut` needs that the sessions a request is to end are those it
has noted when it came, and that it is answered only when each of them is over.

`DeadlocksNeedLogouts` adds `SessionsOfUser`: what a request sweeps and has locked are sessions of its user. Whoever is waited for in a circle
holds a row and waits itself. It cannot wait for the user's row, since then it holds nothing; nor for its token, since then it has the user's row and no
one else can have the token without it. So it is in the middle of a sweep, waiting for a session of the user whose sessions it holds itself,
and so is the one it waits for. If both were resets, both would have locked that user. `SomebodyMoves`: only
who runs is waited for, so if all that run waited, take the fewest requests that all wait for each other. Each of them is waited for, or
those that are would be fewer, so they are a circle (`FewestWaiters`), which Postgres breaks.

**Repair.** The same idea as Ledger's with two kinds of readers: `updated_at` identifies a version
among the table, the requests' copies and the job's batch (`TimesFresh`, `VersionsAgree`). So a write that passes
its guard starts from the row as it is, and what a request makes of a row is in the
format if the row was (`Follows`), and the patch always is (`PatchSound`).
Paging rests on `CursorInvariant`: what waits in the batch lies behind the cursor, and every row
in front of it has an outcome or was inserted meanwhile; `First` is a lower end of the rows that are
left (`FirstIsLowerEnd`), so that a fetch passes nothing by. Counting assumes finitely many ids (`IsFiniteSet(Ids)`).
`RunsAreShort` counts the rows without an outcome: no row gets a second one (the cursor again), so what requests put in the way of a run makes it no longer
than the ids allow.

**Verification.** Every step of a behaviour projects to a step or a stutter of Repair, so Repair's theorems
carry over; the counts agree with each other after every batch, and the classes of the report
and the conditions of the patch are the same case by case. `SnapshotInvariant` is the scan's counterpart of `CursorInvariant`; `CleanInvariant`
says that what needs repair after a run is among what the run reports (`Excused`), so that
a scan that is begun later cannot count more.

**RateLimiter.** `RateInvariant`: the counter of a bucket holds exactly the attempts of its latest
window; a counter that was thrown away belongs to a window no request still to be decided can fall into; windows of a
client do not overlap. `BurstBounded` is then a matter of two windows.

### Only model-checked

* Every liveness property: fairness and ENABLED are beyond the prover. What is proved is their safety half: what is
  under way always has a next step or waits for somebody who has one, and there is a bound on the steps. That they are taken is fairness, and left to TLC.
  Of `ShutdownEnds` not even that is proved: it is about a timer.
* Sums over many rows would need induction over data, which the prover cannot do either. The models avoid them: a balance has one coordinate per transaction.

## 5. Findings

1. **Lost balance update with a coarse clock** (`ledger_coarse_clock`). `AccountRepository.UpdateByID`
   recognises a concurrent change by `updated_at` only. Two requests that read the same
   microsecond write the same version, and a third that has read the first overwrites the
   second. All other results assume that readings differ.
2. **Subcategory created under an archived category** (`catalog_create_race`). `INSERT ... SELECT`
   reads the committed category without locking it; the cascade of a concurrent archive that has
   selected its subcategories before does not see the new row. A test of the repository demands the
   opposite. By `ArchivesComplete` this overlap is the only way to get there.
3. **Subcategories stay hidden after a restore** (`catalog_restore_race`). `RestoreCategory` looks for
   subcategories by the archive time it read before locking the category; another restore and archive
   in between stamp a later one. By `RestoresComplete` it takes two restores at a time.
4. **The frozen cohort thaws** (`verification_cohort`). The report advises `--max-updated-at` for a
   strict comparison before and after a repair, but the repair sets `updated_at`, so exactly the
   repaired rows leave the cohort.

## 6. Variants for testing the properties

Each property is accompanied in `PROJECT.json` by a plausible bug (an operator commented
"Variant for testing the properties" next to the definition it replaces): a dropped `updated_at`
guard, paging by offset, a cascade that forgets the time, and so on. With the variant in
place, TLC finds the property violated in the same instance.

## 7. Plan

1. Sums of balances at the width of int64, and `Money`: the decimal conversion against its definition.
2. Names in Catalog: the unique index on active names is a statement that may fail, so
   what the code does about names is not checked. Two subcategories archived with their category and then given one name
   make every later restore of the category fail with a 500 (`app/catalog/category_management.go:390`).
3. An abstract specification of Identity (accounts with a password, sessions that are over for good, tokens that pay once) as
   `AtomicRequests` and `Shelves` are for the other two, and a proof that Identity implements it.

Modules are written so that they can be proved about: constants with named assumptions, one action per statement,
no RECURSIVE operators, invariants as conjunctions of named parts.

## 8. Not modelled

* Money: `ParseMoneyFromREST` and `FormatMoney` are a function each, without state; amounts are unbounded integers here and
  the code adds int64 without an overflow check.
* Creating an account: an account is reachable by another request only once its INSERT has committed, and is then
  an account of the initial state.
* Lists, summaries and other read-only endpoints: they change nothing, and no other component reads what they return. They are single
  statements but for the list of transactions, whose items and total are two (`ListByUser`, `CountByUser`): the total may not match the
  page when a request commits in between. Nothing in the repository promises that it does.
* Decoding, messages and bodies of answers. One thing decoding does matters to the models: on PATCH and duplicate, a field that is null counts as
  not sent (`optionalStringFromPtr`, `transport/http/api_handler_generated.go:2070`), so a null comment is answered 200 and clears nothing.
* The gin handlers of `catalog_handler.go`, `transactions_handler.go` and `auth_handler.go`: the router registers
  `APIHandler` instead (`transport/http/router.go`); their validators are in use and are part of `Validate`.
* Generated types and bindings of `generated/api.gen.go` beyond the list of operations; configuration and wiring; migrations.
  The constraints of the schema that the code relies on are in the models.
* A deployment in which `APP_ENV=production` without TLS or a trusted proxy refuses every authentication request
  (`DefaultAuthSecurityConfig` trusts no forwarded header): configuration is a constant of `RateLimiter`.
* Password hashing, JWTs, e-mail delivery: hashes are injective, tokens unforgeable, a sent
  token reaches its user or not at all.
* Retries of clients: there are no idempotency keys, so a repeated request is just another request.
