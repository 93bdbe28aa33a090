---------------------------- MODULE Verification ----------------------------
(***************************************************************************)
(* The ops job transactions-verify (internal/ops/repair) over the table    *)
(* that requests and the repair job of module Repair keep changing. A run  *)
(* reads the table in batches, each by one SELECT, counts what it sees,    *)
(* keeps the counts as a baseline or compares them with one, and reports   *)
(* discrepancies. It writes nothing to the database.                       *)
(*                                                                         *)
(* The baseline is a file that both options name, as in the Makefile. The  *)
(* counts by type and currency, the sums of amounts and the samples are    *)
(* left out: neither the requests nor the jobs modelled here change those  *)
(* columns of a row. Every stored row has a known status.                  *)
(***************************************************************************)
EXTENDS Repair

CONSTANTS
    ScanOptions,    \* --limit, and whether --baseline-out and --baseline-in are given
    MaxScans        \* how often the job is run

Stored == Statuses \ {"none"}

RepairableClasses ==
    {"posted_without_posted_at", "cancelled_without_cancelled_at", "planned_with_posted_at",
     "planned_with_cancelled_at", "posted_with_cancelled_at", "reserved_refs_present"}

Classes == RepairableClasses \cup {"effective_at_missing"}

Deltas == {"delta_total_scanned", "delta_rows_needing_repair", "delta_count_by_status"}

Snapshot == [limit : Nat, cutoff : Nat, scanned : Nat, needing : Nat, aligned : Nat,
             status : [Stored -> Nat], problems : [Classes -> Nat]]

EmptySnapshot(limit, cutoff) ==
    [limit |-> limit, cutoff |-> cutoff, scanned |-> 0, needing |-> 0, aligned |-> 0,
     status |-> [s \in Stored |-> 0], problems |-> [c \in Classes |-> 0]]

ASSUME VerificationAssumption ==
    /\ ScanOptions \subseteq [limit : Nat, writes : BOOLEAN, compares : BOOLEAN]
    /\ MaxScans \in Nat

VARIABLES
    verify,     \* the verification job
    baseline,   \* the snapshot in the file, or nothing when none can be read
    touched     \* history: ids whose rows changed since the job was last started

verifyVars == <<verify, baseline, touched>>
allVars == <<vars, verifyVars>>

----------------------------------------------------------------------------
\* Variant for testing the properties: the case of a posted row stops at its first problem.
InClassFirstOnly(c, r) ==
    CASE c = "posted_without_posted_at"       -> r.status = "posted" /\ r.postedAt = 0
      [] c = "posted_with_cancelled_at"       -> FALSE
      [] c = "planned_with_posted_at"         -> r.status = "planned" /\ r.postedAt # 0
      [] c = "planned_with_cancelled_at"      -> r.status = "planned" /\ r.cancelledAt # 0
      [] c = "cancelled_without_cancelled_at" -> r.status = "cancelled" /\ r.cancelledAt = 0
      [] c = "reserved_refs_present"          -> r.reserved
      [] OTHER                                -> r.occurredAt = 0 /\ r.plannedAt = 0

InClass(c, r) ==
    CASE c = "posted_without_posted_at"       -> r.status = "posted" /\ r.postedAt = 0
      [] c = "posted_with_cancelled_at"       -> r.status = "posted" /\ r.cancelledAt # 0
      [] c = "planned_with_posted_at"         -> r.status = "planned" /\ r.postedAt # 0
      [] c = "planned_with_cancelled_at"      -> r.status = "planned" /\ r.cancelledAt # 0
      [] c = "cancelled_without_cancelled_at" -> r.status = "cancelled" /\ r.cancelledAt = 0
      [] c = "reserved_refs_present"          -> r.income \/ r.reserved
      [] OTHER                                -> r.occurredAt = 0 /\ r.plannedAt = 0

\* The body of the loop over the rows of a batch B.
Counted(snapshot, B) ==
    [snapshot EXCEPT
        !.scanned = @ + Cardinality(B),
        !.needing = @ + Cardinality({i \in B : NeedsFix(transactions[i])}),
        !.aligned = @ + Cardinality({i \in B : ~NeedsFix(transactions[i])}),
        !.status = [s \in Stored |-> @[s] + Cardinality({i \in B : transactions[i].status = s})],
        !.problems = [c \in Classes |->
                        @[c] + Cardinality({i \in B : InClass(c, transactions[i])})]]

\* discrepanciesFromCurrentSnapshot.
Discrepancies(snapshot) == {c \in Classes : snapshot.problems[c] > 0}

\* compareSnapshots.
Compared(before, after) ==
    {d \in Deltas :
        CASE d = "delta_total_scanned"       -> before.scanned # after.scanned
          [] d = "delta_rows_needing_repair" -> before.needing # after.needing
          [] OTHER                           -> before.status # after.status}

----------------------------------------------------------------------------
Unstarted == [phase |-> "idle", runs |-> 0, writes |-> FALSE, compares |-> FALSE, last |-> 0,
              repaired |-> 0, snapshot |-> EmptySnapshot(0, 0), codes |-> {}]

VInit ==
    /\ Init
    /\ verify = Unstarted
    /\ baseline = {}
    /\ touched = {}

Scanning == verify.phase \in {"scan", "report"}

\* A cohort is bounded by the present, by the time of the baseline, or not at all.
Cutoffs == {0, clock} \cup {b.cutoff : b \in baseline}

\* `repaired` notes which run of the repair job is over, if any.
VStart ==
    /\ ~Scanning
    /\ verify.runs < MaxScans
    /\ \E o \in ScanOptions, cutoff \in Cutoffs :
         verify' = [Unstarted EXCEPT !.phase = "scan", !.runs = verify.runs + 1,
                                     !.writes = o.writes, !.compares = o.compares,
                                     !.repaired = IF job.phase = "done" THEN job.runs ELSE 0,
                                     !.snapshot = EmptySnapshot(o.limit, cutoff)]
    /\ touched' = {}
    /\ UNCHANGED <<vars, baseline>>

InCohort(r, cutoff) == Exists(r) /\ (cutoff = 0 \/ r.updatedAt <= cutoff)

VBatchLimit ==
    LET limit == verify.snapshot.limit
        left == limit - verify.snapshot.scanned
    IN  IF limit > 0 /\ left < BatchSize THEN left ELSE BatchSize

\* Variant for testing the properties: paging by OFFSET instead of by the last id.
VBatchByOffset ==
    LET cohort == {i \in Ids : InCohort(transactions[i], verify.snapshot.cutoff)} IN
    First(cohort \ First(cohort, verify.snapshot.scanned), VBatchLimit)

\* The ids fetchVerificationBatch returns.
VBatch == First({i \in Ids : /\ i > verify.last
                             /\ InCohort(transactions[i], verify.snapshot.cutoff)}, VBatchLimit)

Last(last, B) == last \in B /\ \A i \in B : i <= last

\* Variant for testing the properties: an empty batch ends the scan only at its limit.
VFetchUntilLimit ==
    /\ verify.phase = "scan"
    /\ \/ /\ VBatch = {}
          /\ verify' = [verify EXCEPT !.phase = IF verify.snapshot.scanned = verify.snapshot.limit
                                               THEN "report" ELSE @]
       \/ \E last \in VBatch :
             /\ Last(last, VBatch)
             /\ verify' = [verify EXCEPT !.snapshot = Counted(@, VBatch), !.last = last]
    /\ UNCHANGED <<vars, baseline, touched>>

\* One SELECT and the loop over its rows.
VFetch ==
    /\ verify.phase = "scan"
    /\ \/ VBatch = {} /\ verify' = [verify EXCEPT !.phase = "report"]
       \/ \E last \in VBatch :
             /\ Last(last, VBatch)
             /\ verify' = [verify EXCEPT !.snapshot = Counted(@, VBatch), !.last = last]
    /\ UNCHANGED <<vars, baseline, touched>>

\* The baseline is written before one is read, so a run that does both compares its
\* snapshot with itself; a run that is to compare and finds no file fails.
VReport ==
    LET file == IF verify.writes THEN {verify.snapshot} ELSE baseline IN
    /\ verify.phase = "report"
    /\ baseline' = file
    /\ verify' = IF verify.compares /\ file = {}
                 THEN [verify EXCEPT !.phase = "failed"]
                 ELSE [verify EXCEPT
                         !.phase = "done",
                         !.codes = Discrepancies(verify.snapshot) \cup
                                   UNION {Compared(b, verify.snapshot) :
                                             b \in {f \in file : verify.compares}}]
    /\ UNCHANGED <<vars, touched>>

\* A batch cannot be fetched, the report cannot be written, or the process is killed, perhaps
\* while or after it writes the baseline.
VStop ==
    /\ Scanning
    /\ verify' = [verify EXCEPT !.phase = "failed"]
    /\ \/ UNCHANGED baseline
       \/ /\ verify.phase = "report" /\ verify.writes
          /\ baseline' \in {{}, {verify.snapshot}}
    /\ UNCHANGED <<vars, touched>>

\* Requests and the repair job carry on.
Others ==
    /\ \/ \E p \in Requests : Request(p)
       \/ JobStart
       \/ JobStep
       \/ JobStop
    /\ touched' = touched \cup {i \in Ids : transactions'[i] # transactions[i]}
    /\ UNCHANGED <<verify, baseline>>

VOver == Over /\ ~Scanning /\ verify.runs = MaxScans

VNext == \/ Others
         \/ VStart
         \/ VFetch
         \/ VReport
         \/ VStop
         \/ VOver /\ UNCHANGED allVars

VSpec == VInit /\ [][VNext]_allVars

\* The process runs, and Postgres answers its statements.
VFairSpec == VSpec /\ WF_allVars(VFetch \/ VReport)

----------------------------------------------------------------------------
\* Every variable of the verification job holds a value of its type.
VTypeOK ==
    /\ verify \in [phase : {"idle", "scan", "report", "done", "failed"}, runs : Nat,
                   writes : BOOLEAN, compares : BOOLEAN, last : Ids \cup {0}, repaired : Nat,
                   snapshot : Snapshot, codes : SUBSET (Classes \cup Deltas)]
    /\ baseline \subseteq Snapshot
    /\ touched \subseteq Ids

\* All of the table that may have been looked at has been.
WholeTable == verify.snapshot.limit = 0 \/ verify.snapshot.scanned < verify.snapshot.limit

\* A count is right up to the rows that changed during the scan.
RightUpTo(count, S, changed) ==
    LET steady == {i \in S \ changed : InCohort(transactions[i], verify.snapshot.cutoff)} IN
    Cardinality(steady) <= count /\ count <= Cardinality(steady) + Cardinality(changed)

\* The snapshot of a scan that was not cut by its limit counts every row that did not change
\* meanwhile exactly once and in the right classes, and is off by at most the rows that did
\* change, whatever was inserted, deleted, repaired or amended between its batches
\* (collectSnapshot pages by id outside of a transaction).
SnapshotTrue ==
    /\ verify.snapshot.limit > 0 => verify.snapshot.scanned <= verify.snapshot.limit
    /\ verify.phase \in {"report", "done"} /\ WholeTable =>
        LET s == verify.snapshot IN
        /\ RightUpTo(s.scanned, Ids, touched)
        /\ RightUpTo(s.needing, {i \in Ids : NeedsFix(transactions[i])}, touched)
        /\ \A t \in Stored :
             RightUpTo(s.status[t], {i \in Ids : transactions[i].status = t}, touched)
        /\ \A c \in Classes :
             RightUpTo(s.problems[c], {i \in Ids : InClass(c, transactions[i])}, touched)

\* The two counts of the rows agree with each other and with the counts of problems.
CountsAgree(s) ==
    /\ s.scanned = s.needing + s.aligned
    /\ \A c \in RepairableClasses : s.problems[c] <= s.needing
    /\ s.needing > 0 => \E c \in RepairableClasses : s.problems[c] > 0

\* The inductive invariant behind ReportComplete: the counts agree batch by batch, and the
\* codes reported are those of the counts (collectSnapshot, discrepanciesFromCurrentSnapshot).
VerificationInvariant ==
    /\ VTypeOK
    /\ CountsAgree(verify.snapshot)
    /\ verify.phase = "done" =>
          verify.codes \cap RepairableClasses =
              Discrepancies(verify.snapshot) \cap RepairableClasses

\* The report lists a problem that the repair job can solve if and only if there are rows
\* that need repair, although the two jobs work out what is out of format each in its own way
\* (buildTransactionFormatPatch and the cases of collectSnapshot).
ReportComplete ==
    verify.phase = "done" =>
        (verify.snapshot.needing > 0 <=> verify.codes \cap RepairableClasses # {})

Left == {i \in Ids : job.outcome[i] \in {"conflict", "error", "reported"}}

\* A scan that starts after a run of the repair job is over, and finds no other run under
\* way, counts as needing repair at most the rows that run reported as left out of format
\* and the rows inserted since it was started, although requests write all the time.
CleanAfterRepair ==
    /\ verify.phase \in {"report", "done"}
    /\ job.phase = "done" /\ job.limit = 0 /\ verify.repaired = job.runs
    => verify.snapshot.needing <= Cardinality(Left) + Cardinality(born)

\* A scan ends, however the table changes under it.
EveryScanEnds == Scanning ~> ~Scanning

\* The steps a scan has still to make at most: a batch for each id in front of its cursor, an
\* empty one, and the report.
RowsAhead == {i \in Ids : i > verify.last}

StepsOfScan == CASE verify.phase = "scan" -> Cardinality(RowsAhead) + 2
                 [] verify.phase = "report" -> 1
                 [] OTHER -> 0

\* Every step of a scan takes it nearer to its end, whatever happens to the table meanwhile.
ScanMovesOn ==
    [][\/ verify' = verify /\ ~VFetch /\ ~VReport
       \/ VStart
       \/ StepsOfScan' \in 0..StepsOfScan - 1]_allVars

\* What the help of the flag promises: with the same --max-updated-at a comparison across a
\* repair looks at the same rows, as long as no request changes any (compareSnapshots:
\* "for strict before/after comparison use --max-updated-at to freeze cohort").
CohortFrozen ==
    /\ verify.phase = "done" /\ verify.compares
    /\ verify.snapshot.limit = 0 /\ verify.snapshot.cutoff # 0
    /\ \A b \in baseline : b.limit = 0 /\ b.cutoff = verify.snapshot.cutoff
    /\ \A p \in Requests : pc[p] = "start"
    => "delta_total_scanned" \notin verify.codes

=============================================================================
