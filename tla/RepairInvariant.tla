-------------------------- MODULE RepairInvariant --------------------------
(***************************************************************************)
(* The inductive invariant behind the theorems about Repair. Its core: all *)
(* copies of a row that carry the same updated_at are the same row, because *)
(* no time that is still going to be written as updated_at of a row is     *)
(* the updated_at of any copy of that row. Then CursorInvariant, about the *)
(* rows a run passes, and what can be said of its progress.                *)
(***************************************************************************)
EXTENDS Repair

InsertKinds == {"create", "duplicate"}

Inserting(p) == pc[p] = "write" /\ kind[p] \in InsertKinds

\* Request p holds a clock reading it may write into its row.
HoldsTime(p) == \/ pc[p] = "find" /\ kind[p] \in {"post", "cancel", "duplicate"}
                \/ pc[p] = "write" /\ kind[p] # "delete"

TimesPast ==
    /\ \A p \in Requests : now[p] <= clock /\ seen[p].updatedAt <= clock
    /\ \A i \in Ids : transactions[i].updatedAt <= clock /\ job.batch[i].updatedAt <= clock

\* updated_at is NOT NULL.
TimesSet ==
    \A i \in Ids :
        /\ Exists(transactions[i]) => transactions[i].updatedAt # 0
        /\ Exists(job.batch[i]) => job.batch[i].updatedAt # 0

\* Readings are not shared, and not yet in the table or in a copy.
TimesFresh ==
    \A p \in Requests : HoldsTime(p) =>
        /\ now[p] # 0
        /\ \A q \in Requests \ {p} : HoldsTime(q) => now[q] # now[p]
        /\ \A i \in Ids : transactions[i].updatedAt # now[p] /\ job.batch[i].updatedAt # now[p]
        /\ \A q \in Requests : seen[q].updatedAt # now[p]

\* Row w is in the format if r was, where w is what a request makes of r.
Follows(r, w) ==
    /\ Exists(r) /\ Exists(w)
    /\ w.reserved = r.reserved
    /\ NeedsFix(w) => NeedsFix(r)

\* What a request in its last step is about to write.
Prepared ==
    \A p \in Requests :
        /\ pc[p] = "write" /\ kind[p] # "delete" =>
              row[p].updatedAt = now[p] /\ Exists(row[p])
        /\ pc[p] = "write" /\ kind[p] \in UpdateKinds => Follows(seen[p], row[p])

\* The row to be inserted is nobody else's, and nothing is known of its id.
InsertsFresh ==
    \A p \in Requests : Inserting(p) =>
        /\ tgt[p] \in minted
        /\ ~Exists(transactions[tgt[p]]) /\ ~Exists(job.batch[tgt[p]])
        /\ job.outcome[tgt[p]] = "none"
        /\ \A q \in Requests \ {p} : pc[q] = "write" => tgt[q] # tgt[p]

\* Ids that have not been given to a row are in no table, copy or report.
Unminted ==
    \A i \in Ids \ minted :
        /\ ~Exists(transactions[i]) /\ ~Exists(job.batch[i]) /\ job.outcome[i] = "none"
        /\ \A p \in Requests : pc[p] = "write" => tgt[p] # i

\* updated_at identifies the version of a row.
VersionsAgree ==
    \A i \in Ids :
        /\ SameVersion(transactions[i], job.batch[i]) => job.batch[i] = transactions[i]
        /\ \A p \in Requests : /\ pc[p] = "write" /\ kind[p] \notin InsertKinds /\ tgt[p] = i
                               /\ SameVersion(transactions[i], seen[p])
                               => seen[p] = transactions[i]

\* What the job has found in the format is in the format.
CopiesAlign ==
    \A i \in Ids :
        Exists(job.batch[i]) /\ ~NeedsFix(job.batch[i]) => ~NeedsFix(transactions[i])

\* The invariant that every step of Repair preserves: what the requests and the job have read,
\* when they read the clock, and what that tells of the rows they are about to write
\* (UpdateByID and applyPatch, both guarded by updated_at).
RepairInvariant ==
    /\ TypeOK
    /\ TimesPast
    /\ TimesSet
    /\ TimesFresh
    /\ Prepared
    /\ InsertsFresh
    /\ Unminted
    /\ VersionsAgree
    /\ CopiesAlign
    /\ ReportTrue

----------------------------------------------------------------------------
(***************************************************************************)
(* How far a run has come: why it passes no row by, and none twice.        *)
(***************************************************************************)
\* A row that was there when the run started, and is there still.
Waiting(i) == Exists(transactions[i]) /\ i \notin born

\* The cursor is behind the batch and not before what is done.
CursorBetween ==
    /\ \A i \in Ids : job.outcome[i] # "none" => i <= job.last
    /\ \A i \in Pending : i > job.last

NothingPassedBy ==
    /\ \A i \in Ids : Waiting(i) /\ i <= job.last => job.outcome[i] # "none"
    /\ \A i \in Ids, j \in Pending :
          Waiting(i) /\ job.last < i /\ i < j => i \in Pending

WithinLimit == job.limit > 0 => Scanned + Cardinality(Pending) <= job.limit

EndReached ==
    /\ job.phase = "fetch" => Pending = {}
    /\ job.phase = "done" /\ (job.limit = 0 \/ Scanned < job.limit) =>
          \A i \in Ids : Waiting(i) => i <= job.last

\* The invariant of the loop that pages through the table by the last id seen, while
\* requests insert and delete rows on either side of it.
CursorInvariant == CursorBetween /\ NothingPassedBy /\ WithinLimit /\ EndReached

----------------------------------------------------------------------------
(***************************************************************************)
(* Progress, as far as it can be said without fairness.                    *)
(***************************************************************************)
\* The rows the run has not dealt with (and, if there is a limit, may never reach).
RowsLeft == {i \in Ids : job.outcome[i] = "none"}

\* The steps the run has still to make at most: a row and a fetch for each of them.
StepsOfRun == CASE job.phase = "fetch" -> 2 * Cardinality(RowsLeft) + 1
                [] job.phase = "rows" -> 2 * Cardinality(RowsLeft)
                [] OTHER -> 0

\* A run always has a next step: a fetch, or the first row of its batch.
RunGoesOn == Running => job.phase = "fetch" \/ \E i \in Ids : Head(i)

\* And every step takes it nearer to its end, whatever happens to the table meanwhile.
RunMovesOn ==
    [][\/ job' = job /\ ~JobStep
       \/ JobStart
       \/ StepsOfRun' \in 0..StepsOfRun - 1]_vars
=============================================================================
