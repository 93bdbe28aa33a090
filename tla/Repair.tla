------------------------------- MODULE Repair -------------------------------
(***************************************************************************)
(* The ops job transactions-format (internal/ops/repair) over the          *)
(* transactions table of a live system: it pages through the rows by id,   *)
(* works out a patch for each from the copy it has fetched, and writes the *)
(* patch if updated_at still is the one it has read. HTTP requests write   *)
(* the same rows meanwhile, each by one statement whose effect shows when  *)
(* its database transaction commits (module Ledger has the statements one  *)
(* by one, with the accounts). The job is one statement at a time outside  *)
(* of any transaction: it waits for a row lock and then sees what has been *)
(* committed, so here a request writes and commits in one step.            *)
(*                                                                         *)
(* A timestamp is a clock reading, 0 for NULL; no two readings are equal   *)
(* (module Ledger has a run where they may be). `income` tells whether     *)
(* income_source_id is set, `reserved` whether one of the other five       *)
(* references the format rules out is (the requests never write those).    *)
(* Columns that neither the job nor a guard looks at are left out.         *)
(***************************************************************************)
EXTENDS Integers, FiniteSets

CONSTANTS
    Ids,            \* of transactions: naturals in the order of their UUIDs
    Requests,       \* HTTP requests, each handled once
    Kinds,          \* the endpoints called
    InitialTables,  \* historical contents of the table
    Dates,          \* occurredAt and plannedAt a client may send, 0 for null
    BatchSize,      \* --batch-size
    Options,        \* --dry-run and --limit
    MaxRuns         \* how often the job is started, again after a crash too

Statuses == {"none", "planned", "posted", "cancelled"}

\* "none" is the status of an id that has no row.
Row == [status : Statuses, occurredAt : Nat, plannedAt : Nat, postedAt : Nat,
        cancelledAt : Nat, income : BOOLEAN, reserved : BOOLEAN, createdAt : Nat,
        updatedAt : Nat]

NoRow == [status |-> "none", occurredAt |-> 0, plannedAt |-> 0, postedAt |-> 0,
          cancelledAt |-> 0, income |-> FALSE, reserved |-> FALSE, createdAt |-> 0,
          updatedAt |-> 0]

Exists(row) == row.status # "none"

UpdateKinds == {"post", "cancel", "patch"}
AllKinds == UpdateKinds \cup {"create", "duplicate", "delete"}

\* The time of the last write to a historical row, before the model starts.
Epoch == 1

HistoricalRow == {r \in Row : Exists(r) /\ r.createdAt = Epoch /\ r.updatedAt = Epoch}

ASSUME RepairAssumption ==
    /\ Ids \subseteq Nat \ {0}
    /\ IsFiniteSet(Ids)
    /\ Kinds \subseteq AllKinds
    /\ InitialTables \subseteq [Ids -> HistoricalRow \cup {NoRow}]
    /\ Dates \subseteq Nat
    /\ BatchSize \in Nat \ {0}
    /\ Options \subseteq [dry : BOOLEAN, limit : Nat]
    /\ MaxRuns \in Nat

VARIABLES
    transactions,
    clock,
    minted,     \* ids that have been given to a row
    born,       \* history: ids inserted since the job was last started
    \* one entry per request
    kind,       \* the endpoint (never changes)
    pc,         \* start, find, write, done
    tgt,        \* the id of the row it is about, 0 before it starts
    now,        \* its clock reading
    seen,       \* the row it has read
    row,        \* the row it is going to write
    job         \* the repair job

requestVars == <<kind, pc, tgt, now, seen, row>>
vars == <<transactions, clock, minted, born, requestVars, job>>

----------------------------------------------------------------------------
\* The format: buildTransactionFormatPatch.
TimestampsFit(r) ==
    CASE r.status = "planned" -> r.postedAt = 0 /\ r.cancelledAt = 0
      [] r.status = "posted"  -> r.postedAt # 0 /\ r.cancelledAt = 0
      [] OTHER                -> r.cancelledAt # 0

NeedsFix(r) == Exists(r) /\ (~TimestampsFit(r) \/ r.income \/ r.reserved)

\* UpdatedAt is never null, so firstNonNilTime looks no further.
PatchedPostedAt(r) ==
    CASE r.status = "planned" -> 0
      [] r.status = "posted" /\ r.postedAt = 0 ->
             IF r.occurredAt # 0 THEN r.occurredAt ELSE r.updatedAt
      [] OTHER -> r.postedAt

PatchedCancelledAt(r) ==
    IF r.status = "cancelled"
    THEN IF r.cancelledAt # 0 THEN r.cancelledAt ELSE r.updatedAt
    ELSE 0

\* Variant for testing the properties: applyPatch leaves updated_at alone.
PatchedSilently(s, r, time) ==
    [s EXCEPT !.postedAt = PatchedPostedAt(r), !.cancelledAt = PatchedCancelledAt(r),
              !.income = FALSE, !.reserved = FALSE]

\* The columns applyPatch sets on the stored row s, worked out from the copy r.
Patched(s, r, time) ==
    [s EXCEPT !.postedAt = PatchedPostedAt(r), !.cancelledAt = PatchedCancelledAt(r),
              !.income = FALSE, !.reserved = FALSE, !.updatedAt = time]

----------------------------------------------------------------------------
Outcomes == {"none", "skipped", "reported", "repaired", "conflict", "error"}

Idle == [phase |-> "idle", runs |-> 0, dry |-> FALSE, limit |-> 0, last |-> 0,
         batch |-> [i \in Ids |-> NoRow], outcome |-> [i \in Ids |-> "none"]]

Init ==
    /\ transactions \in InitialTables
    /\ clock = Epoch
    /\ minted = {i \in Ids : Exists(transactions[i])}
    /\ born = {}
    /\ kind \in [Requests -> Kinds]
    /\ pc = [p \in Requests |-> "start"]
    /\ tgt = [p \in Requests |-> 0]
    /\ now = [p \in Requests |-> 0]
    /\ seen = [p \in Requests |-> NoRow]
    /\ row = [p \in Requests |-> NoRow]
    /\ job = Idle

ReadClock(p) == clock' = clock + 1 /\ now' = [now EXCEPT ![p] = clock + 1]

Goto(p, l) == pc' = [pc EXCEPT ![p] = l]

----------------------------------------------------------------------------
\* What the transport lets through. It refuses an income source; a field that is null counts
\* as not sent, and an empty date (0) is taken for none, which a patch stores.
CreateBody == [status : {"planned", "posted"}, occurredAt : Dates, plannedAt : Dates]

PatchBody(r) == [occurredAt : Dates \cup {r.occurredAt}, plannedAt : Dates \cup {r.plannedAt}]

\* A date that is null or empty counts as not sent.
DuplicateBody(r) ==
    [status : {"planned", "posted"}, occurredAt : (Dates \ {0}) \cup {r.occurredAt},
     plannedAt : (Dates \ {0}) \cup {r.plannedAt}]

\* PostByID, CancelByID and DuplicateByID read the clock before the row, Patch after
\* it; DeleteByID reads none.
Start(p) ==
    /\ pc[p] = "start"
    /\ kind[p] # "create"
    /\ \E i \in Ids : tgt' = [tgt EXCEPT ![p] = i]
    /\ IF kind[p] \in {"post", "cancel", "duplicate"}
       THEN ReadClock(p)
       ELSE UNCHANGED <<clock, now>>
    /\ Goto(p, "find")
    /\ UNCHANGED <<transactions, minted, born, kind, seen, row, job>>

\* Domain errors and ErrTransactionNotFound: WithinTx rolls back.
Fail(p) == Goto(p, "done") /\ UNCHANGED <<clock, minted, tgt, now, seen, row>>

Prepare(p, r) ==
    /\ seen' = [seen EXCEPT ![p] = transactions[tgt[p]]]
    /\ row' = [row EXCEPT ![p] = r]
    /\ Goto(p, "write")

FindForPost(p) ==
    LET r == transactions[tgt[p]] IN
    /\ kind[p] = "post"
    /\ IF r.status = "planned"
       THEN /\ Prepare(p, [r EXCEPT !.status = "posted", !.postedAt = now[p], !.updatedAt = now[p],
                                     !.occurredAt = IF @ = 0 THEN now[p] ELSE @])
            /\ UNCHANGED <<clock, minted, tgt, now>>
       ELSE Fail(p)

FindForCancel(p) ==
    LET r == transactions[tgt[p]] IN
    /\ kind[p] = "cancel"
    /\ IF r.status \in {"planned", "posted"}
       THEN /\ Prepare(p, [r EXCEPT !.status = "cancelled", !.cancelledAt = now[p],
                                     !.updatedAt = now[p]])
            /\ UNCHANGED <<clock, minted, tgt, now>>
       ELSE Fail(p)

\* A posted row keeps its plannedAt.
FindForPatch(p) ==
    LET r == transactions[tgt[p]] IN
    /\ kind[p] = "patch"
    /\ IF r.status \in {"planned", "posted"}
       THEN /\ ReadClock(p)
            /\ \E b \in PatchBody(r) :
                 /\ r.status = "posted" => b.plannedAt = r.plannedAt
                 /\ Prepare(p, [r EXCEPT !.occurredAt = b.occurredAt, !.plannedAt = b.plannedAt,
                                         !.updatedAt = clock + 1])
            /\ UNCHANGED <<minted, tgt>>
       ELSE Fail(p)

FindForDelete(p) ==
    LET r == transactions[tgt[p]] IN
    /\ kind[p] = "delete"
    /\ IF r.status \in {"planned", "cancelled"}
       THEN Prepare(p, NoRow) /\ UNCHANGED <<clock, minted, tgt, now>>
       ELSE Fail(p)

\* A row as Create and DuplicateByID build it: a posted one has its date as posting time.
NewRow(status, o, d, income, time) ==
    LET occurred == IF status = "posted" /\ o = 0 THEN time ELSE o IN
    [status |-> status, occurredAt |-> occurred, plannedAt |-> d,
     postedAt |-> IF status = "posted" THEN occurred ELSE 0, cancelledAt |-> 0,
     income |-> income, reserved |-> FALSE, createdAt |-> time, updatedAt |-> time]

StartCreate(p) ==
    /\ pc[p] = "start"
    /\ kind[p] = "create"
    /\ ReadClock(p)
    /\ \E i \in Ids \ minted, b \in CreateBody :
         /\ minted' = minted \cup {i}
         /\ tgt' = [tgt EXCEPT ![p] = i]
         /\ row' = [row EXCEPT ![p] =
                       NewRow(b.status, b.occurredAt, b.plannedAt, FALSE, clock + 1)]
    /\ Goto(p, "write")
    /\ UNCHANGED <<transactions, born, kind, seen, job>>

\* The copy keeps the income source of its original, but not the other references.
FindForDuplicate(p) ==
    LET r == transactions[tgt[p]] IN
    /\ kind[p] = "duplicate"
    /\ IF Exists(r) /\ Ids \ minted # {}
       THEN /\ \E i \in Ids \ minted, b \in DuplicateBody(r) :
                 LET planned == IF b.plannedAt = 0 THEN b.occurredAt ELSE b.plannedAt IN
                 /\ minted' = minted \cup {i}
                 /\ tgt' = [tgt EXCEPT ![p] = i]
                 /\ row' = [row EXCEPT ![p] =
                               NewRow(b.status, b.occurredAt, planned, r.income, now[p])]
            /\ Goto(p, "write")
            /\ UNCHANGED <<clock, now, seen>>
       ELSE Fail(p)

Find(p) ==
    /\ pc[p] = "find"
    /\ FindForPost(p) \/ FindForCancel(p) \/ FindForPatch(p) \/ FindForDelete(p)
       \/ FindForDuplicate(p)
    /\ UNCHANGED <<transactions, born, kind, job>>

----------------------------------------------------------------------------
\* Variant for testing the properties: UpdateByID without updated_at = $18.
SameVersionUnchecked(stored, copy) == Exists(stored)

SameVersion(stored, copy) == Exists(stored) /\ stored.updatedAt = copy.updatedAt

Store(i, r) == transactions' = [transactions EXCEPT ![i] = r]

\* INSERT, then COMMIT.
Insert(p) ==
    /\ kind[p] \in {"create", "duplicate"}
    /\ Store(tgt[p], row[p])
    /\ born' = born \cup {tgt[p]}

\* UpdateByID, then COMMIT: the five references are not among its columns.
Update(p) ==
    /\ kind[p] \in UpdateKinds
    /\ IF SameVersion(transactions[tgt[p]], seen[p])
       THEN Store(tgt[p], [row[p] EXCEPT !.reserved = transactions[tgt[p]].reserved])
       ELSE UNCHANGED transactions
    /\ UNCHANGED born

\* DeleteByID, then COMMIT.
Delete(p) ==
    /\ kind[p] = "delete"
    /\ IF /\ SameVersion(transactions[tgt[p]], seen[p])
          /\ transactions[tgt[p]].status # "posted"
       THEN Store(tgt[p], NoRow)
       ELSE UNCHANGED transactions
    /\ UNCHANGED born

Write(p) ==
    /\ pc[p] = "write"
    /\ Insert(p) \/ Update(p) \/ Delete(p)
    /\ Goto(p, "done")
    /\ UNCHANGED <<clock, minted, kind, tgt, now, seen, row, job>>

\* The client hangs up, a statement or the commit fails: nothing of it is left.
Abort(p) ==
    /\ pc[p] \in {"find", "write"}
    /\ Goto(p, "done")
    /\ UNCHANGED <<transactions, clock, minted, born, kind, tgt, now, seen, row, job>>

----------------------------------------------------------------------------
Running == job.phase \in {"fetch", "rows"}

Scanned == Cardinality({i \in Ids : job.outcome[i] # "none"})

Pending == {i \in Ids : Exists(job.batch[i])}

JobStart ==
    /\ ~Running
    /\ job.runs < MaxRuns
    /\ \E o \in Options :
         job' = [Idle EXCEPT !.phase = "fetch", !.runs = job.runs + 1, !.dry = o.dry,
                             !.limit = o.limit]
    /\ born' = {}
    /\ UNCHANGED <<transactions, clock, minted, requestVars>>

\* The n smallest ids of S: ORDER BY id ASC LIMIT n.
First(S, n) == {i \in S : Cardinality({j \in S : j < i}) < n}

BatchLimit == IF job.limit > 0 /\ job.limit - Scanned < BatchSize
              THEN job.limit - Scanned ELSE BatchSize

\* Variant for testing the properties: paging by OFFSET instead of by the last id.
BatchByOffset ==
    LET stored == {i \in Ids : Exists(transactions[i])} IN
    First(stored \ First(stored, Scanned), BatchLimit)

\* Variant for testing the properties: every batch may have BatchSize rows.
BatchPastLimit == First({i \in Ids : i > job.last /\ Exists(transactions[i])}, BatchSize)

\* The ids fetchBatch returns.
Batch == First({i \in Ids : i > job.last /\ Exists(transactions[i])}, BatchLimit)

\* One SELECT: a snapshot of its rows. No row left, or none allowed: the run is over.
JobFetch ==
    /\ job.phase = "fetch"
    /\ job' = IF Batch = {}
              THEN [job EXCEPT !.phase = "done"]
              ELSE [job EXCEPT !.phase = "rows",
                               !.batch = [i \in Ids |-> IF i \in Batch THEN transactions[i]
                                                                     ELSE NoRow]]
    /\ UNCHANGED <<transactions, clock, minted, born, requestVars>>

\* Variant for testing the properties: lastID moves only past rows that are patched.
RecordAfterSkip(i, result) ==
    job' = [job EXCEPT !.last = IF result = "skipped" THEN @ ELSE i,
                       !.batch[i] = NoRow,
                       !.outcome[i] = result,
                       !.phase = IF Pending = {i} THEN "fetch" ELSE "rows"]

\* Row i of the batch is dealt with; after the last one the next batch is fetched.
Record(i, result) ==
    job' = [job EXCEPT !.last = i,
                       !.batch[i] = NoRow,
                       !.outcome[i] = result,
                       !.phase = IF Pending = {i} THEN "fetch" ELSE "rows"]

\* The next row of the batch, in the order of the ids.
Head(i) == job.phase = "rows" /\ i \in Pending /\ \A j \in Pending : i <= j

JobSkip(i) ==
    /\ Head(i)
    /\ ~NeedsFix(job.batch[i]) \/ job.dry
    /\ Record(i, IF job.dry /\ NeedsFix(job.batch[i]) THEN "reported" ELSE "skipped")
    /\ UNCHANGED <<transactions, clock>>

\* Variant for testing the properties: applyPatch without updated_at = $5.
MatchesIfStored(i) == Exists(transactions[i])

Matches(i) == SameVersion(transactions[i], job.batch[i])

\* UPDATE ... WHERE id = $1 AND updated_at = $5, committed by itself.
ApplyPatch(i) ==
    Store(i, IF Matches(i) THEN Patched(transactions[i], job.batch[i], clock + 1)
             ELSE transactions[i])

JobApply(i) ==
    /\ Head(i)
    /\ NeedsFix(job.batch[i]) /\ ~job.dry
    /\ ApplyPatch(i)
    /\ clock' = clock + 1
    /\ Record(i, IF Matches(i) THEN "repaired" ELSE "conflict")

\* The UPDATE fails, or its answer is lost after it took effect.
JobApplyFails(i) ==
    /\ Head(i)
    /\ NeedsFix(job.batch[i]) /\ ~job.dry
    /\ ApplyPatch(i) \/ UNCHANGED transactions
    /\ clock' = clock + 1
    /\ Record(i, "error")

JobRow ==
    /\ \E i \in Ids : JobSkip(i) \/ JobApply(i) \/ JobApplyFails(i)
    /\ UNCHANGED <<minted, born, requestVars>>

\* A batch cannot be fetched, or the process is killed.
JobStop ==
    /\ Running
    /\ job' = [job EXCEPT !.phase = "stopped"]
    /\ UNCHANGED <<transactions, clock, minted, born, requestVars>>

----------------------------------------------------------------------------
Request(p) == Start(p) \/ StartCreate(p) \/ Find(p) \/ Write(p) \/ Abort(p)

JobStep == JobFetch \/ JobRow

\* Nothing is left to do: not a deadlock.
Over == (\A p \in Requests : pc[p] \in {"start", "done"}) /\ ~Running /\ job.runs = MaxRuns

Next == \/ \E p \in Requests : Request(p)
        \/ JobStart
        \/ JobStep
        \/ JobStop
        \/ Over /\ UNCHANGED vars

Spec == Init /\ [][Next]_vars

\* The job's process runs, and Postgres answers its statements.
FairSpec == Spec /\ WF_vars(JobStep)

----------------------------------------------------------------------------
\* Every variable holds a value of its type, and a request at work is about some row.
TypeOK ==
    /\ transactions \in [Ids -> Row]
    /\ clock \in Nat
    /\ minted \subseteq Ids
    /\ born \subseteq Ids
    /\ kind \in [Requests -> Kinds]
    /\ pc \in [Requests -> {"start", "find", "write", "done"}]
    /\ tgt \in [Requests -> Ids \cup {0}]
    /\ \A p \in Requests : pc[p] \in {"find", "write"} => tgt[p] \in Ids
    /\ now \in [Requests -> Nat]
    /\ seen \in [Requests -> Row]
    /\ row \in [Requests -> Row]
    /\ job \in [phase : {"idle", "fetch", "rows", "done", "stopped"}, runs : Nat, dry : BOOLEAN,
                limit : Nat, last : Ids \cup {0}, batch : [Ids -> Row],
                outcome : [Ids -> Outcomes]]

\* A row in the format stays in the format, whatever the requests and the job do to it and
\* however old the copies are that they write back.
AlignedForGood ==
    [][\A i \in Ids : Exists(transactions[i]) /\ ~NeedsFix(transactions[i])
                          => ~NeedsFix(transactions'[i])]_vars

\* What is not a matter of format, and the times that already are in it, are the same.
SameBusiness(r, s) ==
    /\ s.status = r.status /\ s.occurredAt = r.occurredAt /\ s.plannedAt = r.plannedAt
    /\ s.createdAt = r.createdAt
    /\ r.status = "posted" /\ r.postedAt # 0 => s.postedAt = r.postedAt
    /\ r.status = "cancelled" => s.postedAt = r.postedAt
    /\ r.status = "cancelled" /\ r.cancelledAt # 0 => s.cancelledAt = r.cancelledAt

\* The job writes to nothing but rows that need it and are still what it has read; it brings
\* them into the format and leaves alone what is not a matter of format. So no change a
\* request has made is undone, and running the job again changes nothing (applyPatch).
RepairSound ==
    [][\A i \in Ids : job' # job /\ transactions'[i] # transactions[i] =>
            /\ transactions[i] = job.batch[i]
            /\ NeedsFix(transactions[i]) /\ ~NeedsFix(transactions'[i])
            /\ SameBusiness(transactions[i], transactions'[i])]_vars

\* What the report calls skipped or repaired is in the format, also by the time it is read.
ReportTrue ==
    \A i \in Ids : job.outcome[i] \in {"skipped", "repaired"} => ~NeedsFix(transactions[i])

\* A run that is over and was not limited has looked at every row there was all the time,
\* and the ones it left out of format are those it reports as conflicts or errors; a limited
\* run has looked at as many rows as it was allowed to.
RunComplete ==
    /\ job.limit > 0 => Scanned <= job.limit
    /\ job.phase = "done" /\ (job.limit = 0 \/ Scanned < job.limit) =>
          \A i \in Ids : Exists(transactions[i]) /\ i \notin born =>
              /\ job.outcome[i] # "none"
              /\ NeedsFix(transactions[i]) => job.outcome[i] \in {"conflict", "error", "reported"}

\* No run looks at a row twice, although rows come and go while it pages through the table.
ScannedOnce ==
    [][job'.runs = job.runs =>
          \A i \in Ids : job.outcome[i] # "none" => job'.outcome[i] = job.outcome[i]]_vars

\* A run ends, however the table changes under it.
EveryRunEnds == Running ~> ~Running

=============================================================================
