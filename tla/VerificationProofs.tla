------------------------- MODULE VerificationProofs -------------------------
(***************************************************************************)
(* Theorems about Verification for any number of rows, requests and scans: *)
(* with the scans left out it is Repair, its report is complete and its    *)
(* counts are true, and a scan makes a bounded number of steps.            *)
(***************************************************************************)
EXTENDS Verification, RepairProofs, FiniteSetTheorems

\* The verification job writes nothing to the table: every behaviour with it is one of Repair,
\* whose theorems therefore hold here too.
THEOREM VerificationIsRepair == VSpec => Spec
<1>1. VInit => Init
    BY DEF VInit
<1>2. [VNext]_allVars => [Next]_vars
    BY DEF VNext, allVars, Others, VStart, VFetch, VReport, VStop, Next
<1> QED BY <1>1, <1>2, PTL DEF VSpec, Spec

\* What the two jobs call out of format is the same.
LEMMA SameFormat ==
    ASSUME NEW r \in Row, Exists(r)
    PROVE  NeedsFix(r) <=> \E c \in RepairableClasses : InClass(c, r)
<1>1. r.status \in {"planned", "posted", "cancelled"} /\ r.income \in BOOLEAN /\ r.reserved \in BOOLEAN
    BY DEF Row, Statuses, Exists
<1>2. r.status = "planned" =>
          (TimestampsFit(r) <=> ~InClass("planned_with_posted_at", r)
                                  /\ ~InClass("planned_with_cancelled_at", r))
    BY DEF TimestampsFit, InClass
<1>3. r.status = "posted" =>
          (TimestampsFit(r) <=> ~InClass("posted_without_posted_at", r)
                                  /\ ~InClass("posted_with_cancelled_at", r))
    BY DEF TimestampsFit, InClass
<1>4. r.status = "cancelled" =>
          (TimestampsFit(r) <=> ~InClass("cancelled_without_cancelled_at", r))
    BY DEF TimestampsFit, InClass
<1>5. r.income \/ r.reserved <=> InClass("reserved_refs_present", r)
    BY DEF InClass
<1>6. r.status # "planned" => ~InClass("planned_with_posted_at", r)
                               /\ ~InClass("planned_with_cancelled_at", r)
    BY DEF InClass
<1>7. r.status # "posted" => ~InClass("posted_without_posted_at", r)
                              /\ ~InClass("posted_with_cancelled_at", r)
    BY DEF InClass
<1>8. r.status # "cancelled" => ~InClass("cancelled_without_cancelled_at", r)
    BY DEF InClass
<1> QED BY <1>1, <1>2, <1>3, <1>4, <1>5, <1>6, <1>7, <1>8 DEF NeedsFix, RepairableClasses

----------------------------------------------------------------------------
LEMMA ClassesSplit == RepairableClasses \subseteq Classes
BY DEF Classes

LEMMA EmptyTyped ==
    ASSUME NEW limit \in Nat, NEW cutoff \in Nat
    PROVE  /\ EmptySnapshot(limit, cutoff) \in Snapshot
           /\ CountsAgree(EmptySnapshot(limit, cutoff))
BY ClassesSplit DEF EmptySnapshot, Snapshot, CountsAgree

LEMMA BatchInTable ==
    ASSUME TypeOK
    PROVE  /\ VBatch \subseteq Ids
           /\ \A i \in VBatch : transactions[i] \in Row /\ Exists(transactions[i])
BY DEF TypeOK, VBatch, First, InCohort

LEMMA CountedTyped ==
    ASSUME NEW s \in Snapshot, NEW B \in SUBSET Ids
    PROVE  Counted(s, B) \in Snapshot
<1>1. \A P \in SUBSET B : Cardinality(P) \in Nat
    <2>1. IsFiniteSet(B)
        BY RepairAssumption, FS_Subset
    <2> QED BY <2>1, FS_Subset, FS_CardinalityType
<1> DEFINE ofStatus(t) == {i \in B : transactions[i].status = t}
           ofClass(c) == {i \in B : InClass(c, transactions[i])}
           fix == {i \in B : NeedsFix(transactions[i])}
           fit == {i \in B : ~NeedsFix(transactions[i])}
<1>2. /\ Cardinality(B) \in Nat /\ Cardinality(fix) \in Nat /\ Cardinality(fit) \in Nat
      /\ \A t : Cardinality(ofStatus(t)) \in Nat
      /\ \A c : Cardinality(ofClass(c)) \in Nat
    BY <1>1
<1>3. Counted(s, B) = [s EXCEPT
          !.scanned = @ + Cardinality(B),
          !.needing = @ + Cardinality(fix),
          !.aligned = @ + Cardinality(fit),
          !.status = [t \in Stored |-> @[t] + Cardinality(ofStatus(t))],
          !.problems = [c \in Classes |-> @[c] + Cardinality(ofClass(c))]]
    BY DEF Counted
<1> HIDE DEF ofStatus, ofClass, fix, fit
<1>4. [t \in Stored |-> s.status[t] + Cardinality(ofStatus(t))] \in [Stored -> Nat]
    BY <1>2 DEF Snapshot
<1>5. [c \in Classes |-> s.problems[c] + Cardinality(ofClass(c))] \in [Classes -> Nat]
    BY <1>2 DEF Snapshot
<1> DEFINE status == [t \in Stored |-> s.status[t] + Cardinality(ofStatus(t))]
           problems == [c \in Classes |-> s.problems[c] + Cardinality(ofClass(c))]
<1>6. Counted(s, B) = [s EXCEPT !.scanned = s.scanned + Cardinality(B),
                                !.needing = s.needing + Cardinality(fix),
                                !.aligned = s.aligned + Cardinality(fit),
                                !.status = status, !.problems = problems]
    BY <1>3 DEF Snapshot
<1>7. status \in [Stored -> Nat] /\ problems \in [Classes -> Nat]
    BY <1>4, <1>5
<1>8. /\ s.scanned + Cardinality(B) \in Nat /\ s.needing + Cardinality(fix) \in Nat
      /\ s.aligned + Cardinality(fit) \in Nat
    BY <1>2 DEF Snapshot
<1> HIDE DEF status, problems
<1> QED BY <1>6, <1>7, <1>8 DEF Snapshot

\* Counting a batch keeps the counts in agreement.
LEMMA CountedAgrees ==
    ASSUME TypeOK, NEW s \in Snapshot, CountsAgree(s)
    PROVE  CountsAgree(Counted(s, VBatch))
<1> DEFINE B == VBatch
           fix == {i \in B : NeedsFix(transactions[i])}
           fit == {i \in B : ~NeedsFix(transactions[i])}
           ofClass(c) == {i \in B : InClass(c, transactions[i])}
<1>1. B \subseteq Ids /\ IsFiniteSet(B)
    BY BatchInTable, RepairAssumption, FS_Subset
<1>2. IsFiniteSet(fix) /\ IsFiniteSet(fit) /\ \A c : IsFiniteSet(ofClass(c))
    <2>1. fix \in SUBSET B /\ fit \in SUBSET B /\ \A c : ofClass(c) \in SUBSET B
        OBVIOUS
    <2> HIDE DEF fix, fit, ofClass, B
    <2> QED BY <1>1, <2>1, FS_Subset
<1>3. /\ Cardinality(B) \in Nat /\ Cardinality(fix) \in Nat /\ Cardinality(fit) \in Nat
      /\ \A c : Cardinality(ofClass(c)) \in Nat
    BY <1>1, <1>2, FS_CardinalityType
<1>4. Cardinality(B) = Cardinality(fix) + Cardinality(fit)
    <2>1. fix \cup fit = B /\ fix \cap fit = {}
        OBVIOUS
    <2> HIDE DEF fix, fit, B
    <2>2. Cardinality(fix \cup fit) = Cardinality(fix) + Cardinality(fit) - Cardinality(fix \cap fit)
        BY <1>2, FS_Union
    <2>3. Cardinality(fix \cap fit) = 0
        BY <2>1, FS_EmptySet
    <2> QED BY <1>3, <2>1, <2>2, <2>3
<1>5. \A c \in RepairableClasses : ofClass(c) \subseteq fix
    BY BatchInTable, SameFormat
<1>6. \A c \in RepairableClasses : Cardinality(ofClass(c)) <= Cardinality(fix)
    <2> HIDE DEF fix, ofClass
    <2> QED BY <1>2, <1>5, FS_Subset
<1>7. Cardinality(fix) > 0 => \E c \in RepairableClasses : Cardinality(ofClass(c)) > 0
    <2> SUFFICES ASSUME Cardinality(fix) > 0
                 PROVE  \E c \in RepairableClasses : Cardinality(ofClass(c)) > 0
        OBVIOUS
    <2>1. fix # {}
        BY FS_EmptySet
    <2>2. PICK i \in fix : TRUE
        BY <2>1
    <2>3. PICK c \in RepairableClasses : i \in ofClass(c)
        BY <2>2, BatchInTable, SameFormat
    <2>4. ofClass(c) # {}
        BY <2>3
    <2>5. Cardinality(ofClass(c)) > 0
        <3> HIDE DEF ofClass
        <3>1. Cardinality(ofClass(c)) # 0
            BY <1>2, <2>4, FS_EmptySet
        <3> QED BY <1>3, <3>1
    <2> QED BY <2>5
<1>8. LET t == Counted(s, B) IN
      /\ t.scanned = s.scanned + Cardinality(B)
      /\ t.needing = s.needing + Cardinality(fix)
      /\ t.aligned = s.aligned + Cardinality(fit)
      /\ \A c \in Classes : t.problems[c] = s.problems[c] + Cardinality(ofClass(c))
    BY DEF Counted, Snapshot
<1>9. /\ s.scanned \in Nat /\ s.needing \in Nat /\ s.aligned \in Nat
      /\ \A c \in Classes : s.problems[c] \in Nat
    BY DEF Snapshot
<1> HIDE DEF fix, fit, ofClass, B
<1>10. Counted(s, B).scanned = Counted(s, B).needing + Counted(s, B).aligned
    BY <1>3, <1>4, <1>8, <1>9 DEF CountsAgree
<1>11. ASSUME NEW c \in RepairableClasses
       PROVE  Counted(s, B).problems[c] <= Counted(s, B).needing
    BY <1>3, <1>6, <1>8, <1>9, ClassesSplit DEF CountsAgree
<1>12. Counted(s, B).needing > 0
           => \E c \in RepairableClasses : Counted(s, B).problems[c] > 0
    BY <1>3, <1>7, <1>8, <1>9, ClassesSplit DEF CountsAgree
<1> QED BY <1>10, <1>11, <1>12 DEF CountsAgree, B

----------------------------------------------------------------------------
JobType == [phase : {"idle", "scan", "report", "done", "failed"}, runs : Nat,
            writes : BOOLEAN, compares : BOOLEAN, last : Ids \cup {0}, repaired : Nat,
            snapshot : Snapshot, codes : SUBSET (Classes \cup Deltas)]

LEMMA UnstartedTyped == Unstarted \in JobType /\ CountsAgree(Unstarted.snapshot)
BY EmptyTyped DEF Unstarted, JobType

LEMMA VerificationInit == VInit => VerificationInvariant
BY UnstartedTyped DEF VInit, VerificationInvariant, VTypeOK, JobType, Unstarted

LEMMA StartStep ==
    ASSUME VerificationInvariant, TypeOK, VStart
    PROVE  VerificationInvariant'
<1>1. PICK o \in ScanOptions, cutoff \in Cutoffs :
          verify' = [Unstarted EXCEPT !.phase = "scan", !.runs = verify.runs + 1,
                                      !.writes = o.writes, !.compares = o.compares,
                                      !.repaired = IF job.phase = "done" THEN job.runs ELSE 0,
                                      !.snapshot = EmptySnapshot(o.limit, cutoff)]
    BY DEF VStart
<1>2. o.limit \in Nat /\ o.writes \in BOOLEAN /\ o.compares \in BOOLEAN
    BY VerificationAssumption
<1>3. cutoff \in Nat
    BY DEF VerificationInvariant, VTypeOK, TypeOK, Cutoffs, Snapshot
<1>4. EmptySnapshot(o.limit, cutoff) \in Snapshot /\ CountsAgree(EmptySnapshot(o.limit, cutoff))
    BY <1>2, <1>3, EmptyTyped
<1>5. verify.runs \in Nat /\ job.runs \in Nat
    BY DEF VerificationInvariant, VTypeOK, TypeOK
<1>6. verify' \in JobType /\ verify'.phase = "scan"
      /\ verify'.snapshot = EmptySnapshot(o.limit, cutoff)
    <2> DEFINE s == EmptySnapshot(o.limit, cutoff)
               repaired == IF job.phase = "done" THEN job.runs ELSE 0
    <2>1. repaired \in Nat /\ verify.runs + 1 \in Nat
        BY <1>5
    <2>2. s \in Snapshot
        BY <1>4
    <2> HIDE DEF s, repaired
    <2>3. verify' = [Unstarted EXCEPT !.phase = "scan", !.runs = verify.runs + 1,
                                      !.writes = o.writes, !.compares = o.compares,
                                      !.repaired = repaired, !.snapshot = s]
        BY <1>1 DEF s, repaired
    <2>4. verify' \in JobType /\ verify'.phase = "scan" /\ verify'.snapshot = s
        BY <1>2, <2>1, <2>2, <2>3, UnstartedTyped DEF JobType
    <2> QED BY <2>4 DEF s
<1>7. baseline' \subseteq Snapshot /\ touched' \subseteq Ids
    BY DEF VStart, VerificationInvariant, VTypeOK
<1> QED BY <1>4, <1>6, <1>7 DEF VerificationInvariant, VTypeOK, JobType

LEMMA FetchStep ==
    ASSUME VerificationInvariant, TypeOK, VFetch
    PROVE  VerificationInvariant'
<1>0. /\ verify \in JobType /\ baseline' \subseteq Snapshot /\ touched' \subseteq Ids
      /\ verify.snapshot \in Snapshot
    BY DEF VerificationInvariant, VTypeOK, JobType, VFetch
<1>1. CASE VBatch = {} /\ verify' = [verify EXCEPT !.phase = "report"]
    BY <1>0, <1>1 DEF VerificationInvariant, VTypeOK, JobType
<1>2. ASSUME NEW last \in VBatch,
             verify' = [verify EXCEPT !.snapshot = Counted(@, VBatch), !.last = last]
      PROVE  VerificationInvariant'
    <2>1. last \in Ids /\ VBatch \in SUBSET Ids
        BY BatchInTable
    <2>2. Counted(verify.snapshot, VBatch) \in Snapshot
        BY <1>0, <2>1, CountedTyped
    <2>3. CountsAgree(Counted(verify.snapshot, VBatch))
        BY <1>0, CountedAgrees DEF VerificationInvariant
    <2>4. verify' \in JobType /\ verify'.phase = "scan"
          /\ verify'.snapshot = Counted(verify.snapshot, VBatch)
        BY <1>0, <1>2, <2>1, <2>2 DEF JobType, VFetch
    <2> QED BY <1>0, <2>3, <2>4 DEF VerificationInvariant, VTypeOK, JobType
<1> QED BY <1>1, <1>2 DEF VFetch

LEMMA ReportStep ==
    ASSUME VerificationInvariant, VReport
    PROVE  VerificationInvariant'
<1> DEFINE file == IF verify.writes THEN {verify.snapshot} ELSE baseline
           deltas == UNION {Compared(b, verify.snapshot) : b \in {f \in file : verify.compares}}
           codes == Discrepancies(verify.snapshot) \cup deltas
<1>0. /\ verify \in JobType /\ touched' \subseteq Ids /\ CountsAgree(verify.snapshot)
      /\ verify.snapshot \in Snapshot /\ baseline \subseteq Snapshot
    BY DEF VerificationInvariant, VTypeOK, JobType, VReport
<1>1. baseline' \subseteq Snapshot
    BY <1>0 DEF VReport
<1>2. deltas \subseteq Deltas
    BY DEF Compared
<1>3. Discrepancies(verify.snapshot) \subseteq Classes
    BY DEF Discrepancies
<1>4. RepairableClasses \cap Deltas = {}
    BY DEF RepairableClasses, Deltas
<1>5. CASE verify' = [verify EXCEPT !.phase = "failed"]
    BY <1>0, <1>1, <1>5 DEF VerificationInvariant, VTypeOK, JobType
<1>6. CASE verify' = [verify EXCEPT !.phase = "done", !.codes = codes]
    <2>1. codes \in SUBSET (Classes \cup Deltas)
        BY <1>2, <1>3
    <2>2. codes \cap RepairableClasses = Discrepancies(verify.snapshot) \cap RepairableClasses
        BY <1>2, <1>4
    <2> HIDE DEF codes
    <2>3. verify' \in JobType /\ verify'.snapshot = verify.snapshot /\ verify'.codes = codes
        BY <1>0, <1>6, <2>1 DEF JobType
    <2> QED BY <1>0, <1>1, <2>2, <2>3 DEF VerificationInvariant, VTypeOK, JobType
<1> QED BY <1>5, <1>6 DEF VReport

LEMMA VerificationStep ==
    VerificationInvariant /\ TypeOK /\ [VNext]_allVars => VerificationInvariant'
<1> SUFFICES ASSUME VerificationInvariant, TypeOK, [VNext]_allVars
             PROVE  VerificationInvariant'
    OBVIOUS
<1>0. /\ verify \in JobType /\ CountsAgree(verify.snapshot)
      /\ baseline \subseteq Snapshot /\ touched \subseteq Ids
    BY DEF VerificationInvariant, VTypeOK, JobType
<1>1. CASE Others
    BY <1>1 DEF Others, VerificationInvariant, VTypeOK, Discrepancies
<1>2. CASE VStop
    <2>1. baseline' \subseteq Snapshot
        BY <1>0, <1>2 DEF VStop, JobType
    <2> QED BY <1>0, <1>2, <2>1 DEF VStop, VerificationInvariant, VTypeOK, JobType
<1>3. CASE UNCHANGED allVars
    BY <1>3 DEF allVars, verifyVars, VerificationInvariant, VTypeOK, Discrepancies
<1> QED BY <1>1, <1>2, <1>3, StartStep, FetchStep, ReportStep DEF VNext

\* The counts of a snapshot agree after every batch, and the codes are those of the counts.
THEOREM VerificationInductive == VSpec => []VerificationInvariant
<1>1. VSpec => []TypeOK
    BY VerificationIsRepair, TypeCorrect, PTL
<1> QED BY <1>1, VerificationInit, VerificationStep, PTL DEF VSpec

\* A finished report names a problem the repair job can solve exactly if its scan has met a
\* row that needs repair.
THEOREM ReportsAreComplete == VSpec => []ReportComplete
<1>1. VerificationInvariant => ReportComplete
    <2> SUFFICES ASSUME VerificationInvariant, verify.phase = "done"
                 PROVE  verify.snapshot.needing > 0 <=> verify.codes \cap RepairableClasses # {}
        BY DEF ReportComplete
    <2>1. /\ verify.snapshot.needing \in Nat
          /\ \A c \in Classes : verify.snapshot.problems[c] \in Nat
        BY DEF VerificationInvariant, VTypeOK, Snapshot
    <2>2. verify.codes \cap RepairableClasses
              = {c \in RepairableClasses : verify.snapshot.problems[c] > 0}
        BY ClassesSplit DEF VerificationInvariant, Discrepancies
    <2> QED BY <2>1, <2>2, ClassesSplit DEF VerificationInvariant, CountsAgree
<1> QED BY <1>1, VerificationInductive, PTL

----------------------------------------------------------------------------
(***************************************************************************)
(* What a snapshot tells of the table. Behind the cursor of the scan, the  *)
(* rows of a kind that have not changed are counted, and whatever else is  *)
(* counted has changed.                                                    *)
(***************************************************************************)
Steady(G) ==
    {i \in Ids \ touched : /\ i <= verify.last
                           /\ InCohort(transactions[i], verify.snapshot.cutoff)
                           /\ transactions[i] \in G}

Changed == {i \in touched : i <= verify.last}

Within(count, G) ==
    Cardinality(Steady(G)) <= count /\ count <= Cardinality(Steady(G) \cup Changed)

OutOfFormat == {r \in Row : NeedsFix(r)}
OfStatus(t) == {r \in Row : r.status = t}
OfClass(c) == {r \in Row : InClass(c, r)}

CountsWithin ==
    /\ Within(verify.snapshot.scanned, Row)
    /\ Within(verify.snapshot.needing, OutOfFormat)
    /\ \A t \in Stored : Within(verify.snapshot.status[t], OfStatus(t))
    /\ \A c \in Classes : Within(verify.snapshot.problems[c], OfClass(c))

\* The invariant of the loop of collectSnapshot.
SnapshotInvariant ==
    /\ verify.snapshot.limit > 0 => verify.snapshot.scanned <= verify.snapshot.limit
    /\ CountsWithin
    /\ verify.phase \in {"report", "done"} /\ WholeTable =>
          \A i \in Ids \ touched :
              InCohort(transactions[i], verify.snapshot.cutoff) => i <= verify.last

LEMMA CardDisjoint ==
    ASSUME NEW S, NEW T, IsFiniteSet(S), IsFiniteSet(T), S \cap T = {}
    PROVE  /\ IsFiniteSet(S \cup T)
           /\ Cardinality(S \cup T) = Cardinality(S) + Cardinality(T)
<1>1. Cardinality(S \cap T) = 0
    BY FS_EmptySet
<1>2. Cardinality(S \cup T) = Cardinality(S) + Cardinality(T) - Cardinality(S \cap T)
    BY FS_Union
<1>3. Cardinality(S) \in Nat /\ Cardinality(T) \in Nat
    BY FS_CardinalityType
<1> QED BY <1>1, <1>2, <1>3, FS_Union

LEMMA SteadyFinite ==
    ASSUME VTypeOK, NEW G
    PROVE  /\ Steady(G) \in SUBSET Ids /\ Changed \in SUBSET Ids
           /\ IsFiniteSet(Steady(G)) /\ IsFiniteSet(Changed)
           /\ IsFiniteSet(Steady(G) \cup Changed)
           /\ Cardinality(Steady(G)) \in Nat /\ Cardinality(Changed) \in Nat
           /\ Cardinality(Steady(G) \cup Changed) \in Nat
<1>1. Steady(G) \in SUBSET Ids /\ Changed \in SUBSET Ids
    BY DEF VTypeOK, Steady, Changed
<1>2. Steady(G) \cup Changed \in SUBSET Ids
    BY <1>1
<1> QED BY <1>1, <1>2, IdsFinite

LEMMA SnapshotTyped ==
    ASSUME VTypeOK
    PROVE  /\ verify.last \in Nat /\ Ids \subseteq Nat
           /\ verify.snapshot.limit \in Nat /\ verify.snapshot.scanned \in Nat
           /\ verify.snapshot.needing \in Nat
           /\ \A t \in Stored : verify.snapshot.status[t] \in Nat
           /\ \A c \in Classes : verify.snapshot.problems[c] \in Nat
<1>1. verify.snapshot \in Snapshot /\ verify.last \in Ids \cup {0}
    BY DEF VTypeOK
<1>2. \A i \in Ids : i \in Nat
    BY RepairAssumption
<1>3. verify.last \in Nat
    <2>1. CASE verify.last \in Ids
        BY <1>2, <2>1
    <2>2. CASE verify.last = 0
        BY <2>2
    <2> QED BY <1>1, <2>1, <2>2
<1>4. Ids \subseteq Nat
    BY <1>2
<1> QED BY <1>1, <1>3, <1>4 DEF Snapshot

\* Rows that change are no longer steady, and are among the changed ones.
LEMMA TallyKept ==
    ASSUME TypeOK, VTypeOK, VTypeOK', Others, NEW G
    PROVE  /\ Cardinality(Steady(G)') <= Cardinality(Steady(G))
           /\ Cardinality(Steady(G) \cup Changed) <= Cardinality(Steady(G)' \cup Changed')
<1>0. /\ verify' = verify
      /\ touched' = touched \cup {i \in Ids : transactions'[i] # transactions[i]}
      /\ touched \subseteq Ids
    BY DEF Others, VTypeOK
<1>1. \A i \in Ids \ touched' : i \in Ids \ touched /\ transactions'[i] = transactions[i]
    BY <1>0
<1>2. Steady(G)' \subseteq Steady(G)
    BY <1>0, <1>1 DEF Steady
<1>3. Steady(G) \cup Changed \subseteq Steady(G)' \cup Changed'
    BY <1>0, <1>1 DEF Steady, Changed
<1>4. IsFiniteSet(Steady(G)) /\ IsFiniteSet(Steady(G)' \cup Changed')
    <2>1. Steady(G)' \in SUBSET Ids /\ Changed' \in SUBSET Ids
        BY DEF VTypeOK, Steady, Changed
    <2>2. Steady(G)' \cup Changed' \in SUBSET Ids
        BY <2>1
    <2> QED BY <2>2, IdsFinite, SteadyFinite
<1> QED BY <1>2, <1>3, <1>4, FS_Subset

\* The cohort beyond the cursor, of which a batch is the lower end.
Beyond == {i \in Ids : i > verify.last /\ InCohort(transactions[i], verify.snapshot.cutoff)}

LEMMA BatchLowerEnd ==
    ASSUME VTypeOK, verify.snapshot.limit > 0 => verify.snapshot.scanned <= verify.snapshot.limit
    PROVE  /\ VBatch \in SUBSET Beyond
           /\ \A j \in VBatch, i \in Beyond : i < j => i \in VBatch
           /\ WholeTable /\ Beyond # {} => VBatch # {}
           /\ IsFiniteSet(VBatch) /\ Cardinality(VBatch) \in Nat
           /\ verify.snapshot.limit > 0 =>
                 verify.snapshot.scanned + Cardinality(VBatch) <= verify.snapshot.limit
<1>1. /\ VBatchLimit \in Nat
      /\ verify.snapshot.limit > 0 =>
            verify.snapshot.scanned + VBatchLimit <= verify.snapshot.limit
      /\ WholeTable => VBatchLimit # 0
    BY SnapshotTyped, RepairAssumption DEF VBatchLimit, WholeTable
<1>2. Beyond \in SUBSET Ids
    BY DEF Beyond
<1>3. Beyond \in SUBSET Nat /\ IsFiniteSet(Beyond)
    BY <1>2, IdsFinite
<1>4. VBatch = First(Beyond, VBatchLimit)
    BY DEF VBatch, Beyond
<1>5. /\ VBatch \in SUBSET Beyond
      /\ \A j \in VBatch, i \in Beyond : i < j => i \in VBatch
      /\ VBatchLimit # 0 /\ Beyond # {} => VBatch # {}
    BY <1>1, <1>3, <1>4, FirstIsLowerEnd
<1>6. /\ IsFiniteSet(VBatch) /\ Cardinality(VBatch) \in Nat
      /\ Cardinality(VBatch) <= VBatchLimit
    BY <1>1, <1>3, <1>4, FirstBound, FS_CardinalityType
<1>7. verify.snapshot.limit > 0 =>
          verify.snapshot.scanned + Cardinality(VBatch) <= verify.snapshot.limit
    BY <1>1, <1>6, SnapshotTyped
<1> QED BY <1>1, <1>5, <1>6, <1>7

Advances(last) ==
    /\ last \in VBatch /\ Last(last, VBatch)
    /\ verify' = [verify EXCEPT !.snapshot = Counted(@, VBatch), !.last = last]

LEMMA AdvancedFields ==
    ASSUME TypeOK, VTypeOK, NEW last, Advances(last)
    PROVE  /\ verify'.last = last /\ verify'.phase = verify.phase
           /\ verify'.repaired = verify.repaired
           /\ verify'.snapshot = Counted(verify.snapshot, VBatch)
           /\ verify'.snapshot.cutoff = verify.snapshot.cutoff
           /\ verify'.snapshot.limit = verify.snapshot.limit
<1>1. verify.snapshot \in Snapshot
    BY DEF VTypeOK
<1>2. /\ verify'.last = last /\ verify'.phase = verify.phase
      /\ verify'.repaired = verify.repaired
      /\ verify'.snapshot = Counted(verify.snapshot, VBatch)
    BY DEF Advances, VTypeOK
<1>3. /\ Counted(verify.snapshot, VBatch).cutoff = verify.snapshot.cutoff
      /\ Counted(verify.snapshot, VBatch).limit = verify.snapshot.limit
    BY <1>1 DEF Counted, Snapshot
<1> QED BY <1>2, <1>3

\* A batch brings in the rows of a kind between the old and the new place of the cursor.
LEMMA TallyFetched ==
    ASSUME TypeOK, VTypeOK, SnapshotInvariant, VFetch, NEW last, Advances(last), NEW G
    PROVE  LET fetched == {i \in VBatch : transactions[i] \in G} IN
           /\ Cardinality(fetched) \in Nat
           /\ Cardinality(Steady(G)') <= Cardinality(Steady(G)) + Cardinality(fetched)
           /\ Cardinality(Steady(G) \cup Changed) + Cardinality(fetched)
                  <= Cardinality(Steady(G)' \cup Changed')
<1> DEFINE fetched == {i \in VBatch : transactions[i] \in G}
           cutoff == verify.snapshot.cutoff
<1>0. /\ verify'.last = last /\ verify'.snapshot.cutoff = cutoff
      /\ UNCHANGED <<transactions, touched>> /\ touched \subseteq Ids
      /\ last \in VBatch /\ \A i \in VBatch : i <= last
    BY AdvancedFields DEF VFetch, vars, VTypeOK, Advances, Last
<1>1. /\ VBatch \in SUBSET Beyond
      /\ \A j \in VBatch, i \in Beyond : i < j => i \in VBatch
    BY BatchLowerEnd DEF SnapshotInvariant
<1>2. \A i \in VBatch : i \in Ids /\ i > verify.last /\ InCohort(transactions[i], cutoff)
    BY <1>1 DEF Beyond
<1>3. /\ Ids \subseteq Nat /\ verify.last \in Nat /\ last \in Nat /\ verify.last < last
    BY <1>0, <1>2, SnapshotTyped
<1>4. \A i \in Ids : i <= verify.last => i <= last
    BY <1>3
<1>5. ASSUME NEW i \in Ids, i <= last, ~(i <= verify.last), InCohort(transactions[i], cutoff)
      PROVE  i \in VBatch
    <2>1. i \in Beyond
        BY <1>3, <1>5 DEF Beyond
    <2>2. i = last \/ i < last
        BY <1>3, <1>5
    <2> QED BY <1>0, <1>1, <2>1, <2>2
<1>6. Steady(G)' \subseteq Steady(G) \cup fetched
    BY <1>0, <1>5 DEF Steady
<1>7. (Steady(G) \cup Changed) \cup fetched \subseteq Steady(G)' \cup Changed'
    <2>1. Steady(G) \subseteq Steady(G)'
        BY <1>0, <1>4 DEF Steady
    <2>2. Changed \subseteq Changed'
        BY <1>0, <1>4 DEF Changed
    <2>3. fetched \subseteq Steady(G)' \cup Changed'
        BY <1>0, <1>2 DEF Steady, Changed
    <2> QED BY <2>1, <2>2, <2>3
<1>8. (Steady(G) \cup Changed) \cap fetched = {}
    <2>1. \A i \in Steady(G) \cup Changed : i \in Ids /\ i <= verify.last
        BY <1>0 DEF Steady, Changed
    <2>2. ASSUME NEW i \in VBatch
          PROVE  i \in Ids /\ ~(i <= verify.last)
        <3>1. i \in Ids /\ i > verify.last
            BY <1>2
        <3>2. i \in Nat /\ verify.last \in Nat
            BY <1>3, <3>1
        <3> QED BY <3>1, <3>2
    <2>3. \A i \in fetched : i \in Ids /\ ~(i <= verify.last)
        BY <2>2
    <2> HIDE DEF fetched
    <2> QED BY <2>1, <2>3
<1>9. fetched \in SUBSET Ids /\ Steady(G)' \in SUBSET Ids /\ Changed' \in SUBSET Ids
    BY <1>0, <1>2 DEF Steady, Changed
<1> HIDE DEF fetched
<1>10. /\ IsFiniteSet(fetched) /\ Cardinality(fetched) \in Nat
       /\ IsFiniteSet(Steady(G)' \cup Changed')
       /\ Cardinality(Steady(G)') \in Nat /\ Cardinality(Steady(G)' \cup Changed') \in Nat
    <2>1. Steady(G)' \cup Changed' \in SUBSET Ids
        BY <1>9
    <2> QED BY <1>9, <2>1, IdsFinite
<1>11. /\ IsFiniteSet(Steady(G) \cup fetched)
       /\ Cardinality(Steady(G) \cup fetched)
              = Cardinality(Steady(G)) + Cardinality(fetched)
    <2>1. Steady(G) \cap fetched = {}
        BY <1>8
    <2> QED BY <1>10, <2>1, SteadyFinite, CardDisjoint
<1>12. Cardinality((Steady(G) \cup Changed) \cup fetched)
           = Cardinality(Steady(G) \cup Changed) + Cardinality(fetched)
    BY <1>8, <1>10, SteadyFinite, CardDisjoint
<1>13. Cardinality(Steady(G)') <= Cardinality(Steady(G)) + Cardinality(fetched)
    BY <1>6, <1>11, FS_Subset
<1>14. Cardinality(Steady(G) \cup Changed) + Cardinality(fetched)
           <= Cardinality(Steady(G)' \cup Changed')
    BY <1>7, <1>10, <1>12, FS_Subset
<1> QED BY <1>10, <1>13, <1>14 DEF fetched

----------------------------------------------------------------------------
LEMMA KindsOfRows ==
    ASSUME TypeOK
    PROVE  /\ {i \in VBatch : transactions[i] \in Row} = VBatch
           /\ {i \in VBatch : transactions[i] \in OutOfFormat}
                  = {i \in VBatch : NeedsFix(transactions[i])}
           /\ \A t : {i \in VBatch : transactions[i] \in OfStatus(t)}
                         = {i \in VBatch : transactions[i].status = t}
           /\ \A c : {i \in VBatch : transactions[i] \in OfClass(c)}
                         = {i \in VBatch : InClass(c, transactions[i])}
BY BatchInTable DEF OutOfFormat, OfStatus, OfClass

LEMMA SnapshotInit == VInit => SnapshotInvariant
<1> SUFFICES ASSUME VInit PROVE SnapshotInvariant
    OBVIOUS
<1>1. /\ verify.phase = "idle" /\ verify.last = 0 /\ verify.snapshot = EmptySnapshot(0, 0)
      /\ touched = {}
    BY UnstartedTyped DEF VInit, Unstarted, JobType
<1>2. \A G : Within(0, G)
    <2> TAKE G
    <2>1. \A i \in Ids : ~(i <= verify.last)
        BY <1>1, RepairAssumption
    <2>2. Steady(G) = {} /\ Steady(G) \cup Changed = {}
        BY <1>1, <2>1 DEF Steady, Changed
    <2> QED BY <2>2, FS_EmptySet DEF Within
<1> QED BY <1>1, <1>2 DEF SnapshotInvariant, CountsWithin, EmptySnapshot

LEMMA SnapshotStarts ==
    ASSUME VTypeOK, TypeOK, VTypeOK', VStart
    PROVE  SnapshotInvariant'
<1>1. PICK o \in ScanOptions, cutoff \in Cutoffs :
          verify' = [Unstarted EXCEPT !.phase = "scan", !.runs = verify.runs + 1,
                                      !.writes = o.writes, !.compares = o.compares,
                                      !.repaired = IF job.phase = "done" THEN job.runs ELSE 0,
                                      !.snapshot = EmptySnapshot(o.limit, cutoff)]
    BY DEF VStart
<1>2. /\ verify'.phase = "scan" /\ verify'.last = 0
      /\ verify'.snapshot = EmptySnapshot(o.limit, cutoff) /\ touched' = {}
    BY <1>1, UnstartedTyped DEF Unstarted, VStart
<1>3. \A G : Within(0, G)'
    <2> TAKE G
    <2>1. \A i \in Ids : ~(i <= verify'.last)
        BY <1>2, RepairAssumption
    <2>2. Steady(G)' = {} /\ Steady(G)' \cup Changed' = {}
        BY <1>2, <2>1 DEF Steady, Changed
    <2> QED BY <2>2, FS_EmptySet DEF Within
<1>4. /\ verify'.snapshot.scanned = 0 /\ verify'.snapshot.needing = 0
      /\ \A t \in Stored : verify'.snapshot.status[t] = 0
      /\ \A c \in Classes : verify'.snapshot.problems[c] = 0
    BY <1>2 DEF EmptySnapshot
<1>5. CountsWithin'
    BY <1>3, <1>4 DEF CountsWithin
<1>6. verify'.snapshot.limit > 0 => verify'.snapshot.scanned <= verify'.snapshot.limit
    <2>1. verify'.snapshot.limit \in Nat
        BY DEF VTypeOK, Snapshot
    <2> QED BY <1>4, <2>1
<1> QED BY <1>2, <1>5, <1>6 DEF SnapshotInvariant

\* The batch or, if there is none, the end of the scan.
LEMMA SnapshotFetches ==
    ASSUME VTypeOK, TypeOK, SnapshotInvariant, VTypeOK', VFetch
    PROVE  SnapshotInvariant'
<1>0. /\ verify.phase = "scan" /\ UNCHANGED <<transactions, touched>>
      /\ CountsWithin /\ verify.snapshot \in Snapshot
    BY DEF VFetch, vars, SnapshotInvariant, VTypeOK
<1>1. CASE VBatch = {} /\ verify' = [verify EXCEPT !.phase = "report"]
    <2>1. verify'.last = verify.last /\ verify'.snapshot = verify.snapshot
        BY <1>1 DEF VTypeOK
    <2>2. ASSUME WholeTable, NEW i \in Ids, InCohort(transactions[i], verify.snapshot.cutoff)
          PROVE  i <= verify.last
        <3>1. Beyond = {}
            BY <1>1, <2>2, BatchLowerEnd DEF SnapshotInvariant
        <3>2. ~(i > verify.last)
            BY <2>2, <3>1 DEF Beyond
        <3>3. i \in Nat /\ verify.last \in Nat
            BY SnapshotTyped
        <3> QED BY <3>2, <3>3
    <2>3. CountsWithin'
        BY <1>0, <2>1 DEF CountsWithin, Within, Steady, Changed, InCohort
    <2> QED BY <1>0, <2>1, <2>2, <2>3 DEF SnapshotInvariant, WholeTable, InCohort
<1>2. ASSUME NEW last, Advances(last)
      PROVE  SnapshotInvariant'
    <2> DEFINE s == verify.snapshot
               t == Counted(verify.snapshot, VBatch)
               fetched(G) == {i \in VBatch : transactions[i] \in G}
    <2>1. /\ verify'.snapshot = t /\ verify'.phase = "scan"
          /\ verify'.snapshot.limit = s.limit
        BY <1>0, <1>2, AdvancedFields
    <2>2. /\ t.scanned = s.scanned + Cardinality(VBatch)
          /\ t.needing = s.needing + Cardinality({i \in VBatch : NeedsFix(transactions[i])})
          /\ \A u \in Stored :
                t.status[u] = s.status[u]
                                  + Cardinality({i \in VBatch : transactions[i].status = u})
          /\ \A c \in Classes :
                t.problems[c] = s.problems[c]
                                    + Cardinality({i \in VBatch : InClass(c, transactions[i])})
        BY <1>0 DEF Counted, Snapshot
    <2>3. /\ t.scanned = s.scanned + Cardinality(fetched(Row))
          /\ t.needing = s.needing + Cardinality(fetched(OutOfFormat))
          /\ \A u \in Stored : t.status[u] = s.status[u] + Cardinality(fetched(OfStatus(u)))
          /\ \A c \in Classes : t.problems[c] = s.problems[c] + Cardinality(fetched(OfClass(c)))
        BY <2>2, KindsOfRows
    <2>4. ASSUME NEW G, NEW n \in Nat, Within(n, G)
          PROVE  /\ Cardinality(Steady(G)') <= n + Cardinality(fetched(G))
                 /\ n + Cardinality(fetched(G)) <= Cardinality(Steady(G)' \cup Changed')
        <3>1. /\ Cardinality(fetched(G)) \in Nat
              /\ Cardinality(Steady(G)') <= Cardinality(Steady(G)) + Cardinality(fetched(G))
              /\ Cardinality(Steady(G) \cup Changed) + Cardinality(fetched(G))
                     <= Cardinality(Steady(G)' \cup Changed')
            BY <1>2, TallyFetched
        <3> HIDE DEF fetched
        <3>2. /\ Cardinality(Steady(G)') \in Nat /\ Cardinality(Steady(G)' \cup Changed') \in Nat
            <4>1. Steady(G)' \in SUBSET Ids /\ Steady(G)' \cup Changed' \in SUBSET Ids
                BY DEF VTypeOK, Steady, Changed
            <4> QED BY <4>1, IdsFinite
        <3>3. /\ Cardinality(Steady(G)) <= n /\ n <= Cardinality(Steady(G) \cup Changed)
              /\ Cardinality(Steady(G)) \in Nat /\ Cardinality(Steady(G) \cup Changed) \in Nat
            BY <2>4, SteadyFinite DEF Within
        <3> QED BY <3>1, <3>2, <3>3
    <2>5. CountsWithin'
        <3> HIDE DEF t, fetched
        <3>1. Within(verify.snapshot.scanned, Row)'
            BY <1>0, <2>1, <2>3, <2>4, SnapshotTyped DEF CountsWithin, Within
        <3>2. Within(verify.snapshot.needing, OutOfFormat)'
            BY <1>0, <2>1, <2>3, <2>4, SnapshotTyped DEF CountsWithin, Within
        <3>3. ASSUME NEW u \in Stored
              PROVE  Within(verify.snapshot.status[u], OfStatus(u))'
            BY <1>0, <2>1, <2>3, <2>4, SnapshotTyped DEF CountsWithin, Within
        <3>4. ASSUME NEW c \in Classes
              PROVE  Within(verify.snapshot.problems[c], OfClass(c))'
            BY <1>0, <2>1, <2>3, <2>4, SnapshotTyped DEF CountsWithin, Within
        <3> QED BY <3>1, <3>2, <3>3, <3>4 DEF CountsWithin
    <2> HIDE DEF t, fetched
    <2>6. verify'.snapshot.limit > 0 => verify'.snapshot.scanned <= verify'.snapshot.limit
        BY <2>1, <2>2, BatchLowerEnd DEF SnapshotInvariant
    <2> QED BY <2>1, <2>5, <2>6 DEF SnapshotInvariant
<1> QED BY <1>1, <1>2 DEF VFetch, Advances

LEMMA SnapshotKept ==
    ASSUME VTypeOK, TypeOK, SnapshotInvariant, VTypeOK', Others
    PROVE  SnapshotInvariant'
<1>0. verify' = verify /\ CountsWithin
    BY DEF Others, SnapshotInvariant
<1>1. ASSUME NEW G, NEW n \in Nat, Within(n, G)
      PROVE  Within(n, G)'
    <2>1. /\ Cardinality(Steady(G)') \in Nat /\ Cardinality(Steady(G)' \cup Changed') \in Nat
        <3>1. Steady(G)' \in SUBSET Ids /\ Steady(G)' \cup Changed' \in SUBSET Ids
            BY DEF VTypeOK, Steady, Changed
        <3> QED BY <3>1, IdsFinite
    <2>2. /\ Cardinality(Steady(G)') <= Cardinality(Steady(G))
          /\ Cardinality(Steady(G) \cup Changed) <= Cardinality(Steady(G)' \cup Changed')
        BY TallyKept
    <2>3. /\ Cardinality(Steady(G)) <= n /\ n <= Cardinality(Steady(G) \cup Changed)
          /\ Cardinality(Steady(G)) \in Nat /\ Cardinality(Steady(G) \cup Changed) \in Nat
        BY <1>1, SteadyFinite DEF Within
    <2>4. /\ Cardinality(Steady(G)') <= n /\ n <= Cardinality(Steady(G)' \cup Changed')
        BY <2>1, <2>2, <2>3
    <2> QED BY <2>4 DEF Within
<1>2. CountsWithin'
    BY <1>0, <1>1, SnapshotTyped DEF CountsWithin
<1>3. ASSUME verify.phase \in {"report", "done"}, WholeTable, NEW i \in Ids \ touched',
             InCohort(transactions'[i], verify.snapshot.cutoff)
      PROVE  i <= verify.last
    <2>1. i \in Ids \ touched /\ transactions'[i] = transactions[i]
        BY <1>3 DEF Others
    <2> QED BY <1>3, <2>1 DEF SnapshotInvariant
<1> QED BY <1>0, <1>2, <1>3 DEF SnapshotInvariant, WholeTable, InCohort

\* The cursor and the counts stand still, and the scan does not come to its end.
LEMMA SnapshotStays ==
    ASSUME SnapshotInvariant, UNCHANGED <<transactions, touched>>,
           verify'.snapshot = verify.snapshot, verify'.last = verify.last,
           verify'.phase \in {"report", "done"} => verify.phase \in {"report", "done"}
    PROVE  SnapshotInvariant'
<1>1. CountsWithin'
    BY DEF SnapshotInvariant, CountsWithin, Within, Steady, Changed, InCohort
<1> QED BY <1>1 DEF SnapshotInvariant, WholeTable, InCohort

LEMMA SnapshotStep ==
    TypeOK /\ VerificationInvariant /\ VerificationInvariant' /\ SnapshotInvariant
        /\ [VNext]_allVars => SnapshotInvariant'
<1> SUFFICES ASSUME TypeOK, VerificationInvariant, VerificationInvariant', SnapshotInvariant,
                    [VNext]_allVars
             PROVE  SnapshotInvariant'
    OBVIOUS
<1>0. VTypeOK /\ VTypeOK'
    BY DEF VerificationInvariant
<1>1. CASE VReport
    <2>1. /\ verify'.snapshot = verify.snapshot /\ verify'.last = verify.last
          /\ verify.phase = "report" /\ UNCHANGED <<transactions, touched>>
        BY <1>0, <1>1 DEF VReport, VTypeOK, vars
    <2> QED BY <2>1, SnapshotStays
<1>2. CASE VStop
    <2>1. /\ verify'.snapshot = verify.snapshot /\ verify'.last = verify.last
          /\ verify'.phase = "failed" /\ UNCHANGED <<transactions, touched>>
        BY <1>0, <1>2 DEF VStop, VTypeOK, vars
    <2> QED BY <2>1, SnapshotStays
<1>3. CASE UNCHANGED allVars
    BY <1>3, SnapshotStays DEF allVars, verifyVars, vars
<1> QED BY <1>0, <1>1, <1>2, <1>3, SnapshotStarts, SnapshotFetches, SnapshotKept DEF VNext

LEMMA SnapshotHolds == VSpec => []SnapshotInvariant
<1>1. VSpec => []TypeOK
    BY VerificationIsRepair, TypeCorrect, PTL
<1> QED BY <1>1, SnapshotInit, SnapshotStep, VerificationInductive, PTL DEF VSpec

\* At the end of the scan all of the cohort that has not changed is behind the cursor.
LEMMA CountIsRight ==
    ASSUME TypeOK, VTypeOK, SnapshotInvariant, verify.phase \in {"report", "done"}, WholeTable,
           NEW G, NEW n \in Nat, Within(n, G)
    PROVE  RightUpTo(n, {i \in Ids : transactions[i] \in G}, touched)
<1> DEFINE S == {i \in Ids : transactions[i] \in G}
           steady == {i \in S \ touched : InCohort(transactions[i], verify.snapshot.cutoff)}
<1>1. steady = Steady(G)
    BY DEF SnapshotInvariant, Steady
<1>2. Changed \in SUBSET touched /\ touched \in SUBSET Ids
    BY DEF Changed, VTypeOK
<1>3. IsFiniteSet(touched) /\ Cardinality(touched) \in Nat
    BY <1>2, IdsFinite
<1> HIDE DEF steady, S
<1>4. /\ Cardinality(Steady(G)) \in Nat /\ Cardinality(Changed) \in Nat
      /\ Cardinality(Steady(G) \cup Changed) \in Nat
      /\ Cardinality(Steady(G)) <= n /\ n <= Cardinality(Steady(G) \cup Changed)
    BY SteadyFinite DEF Within
<1>5. Cardinality(Steady(G) \cup Changed) <= Cardinality(Steady(G)) + Cardinality(Changed)
    <2>1. Cardinality(Steady(G) \cup Changed) = Cardinality(Steady(G)) + Cardinality(Changed)
                                                    - Cardinality(Steady(G) \cap Changed)
        BY SteadyFinite, FS_Union
    <2>2. Steady(G) \cap Changed \in SUBSET Ids
        BY SteadyFinite
    <2>3. Cardinality(Steady(G) \cap Changed) \in Nat
        BY <2>2, IdsFinite
    <2> QED BY <1>4, <2>1, <2>3
<1>6. Cardinality(Changed) <= Cardinality(touched)
    BY <1>2, <1>3, FS_Subset
<1>7. /\ Cardinality(Steady(G)) <= n
      /\ n <= Cardinality(Steady(G)) + Cardinality(touched)
    BY <1>4, <1>3, <1>5, <1>6
<1> QED BY <1>1, <1>7 DEF RightUpTo, steady, S

\* A finished scan has counted every row that did not change meanwhile exactly once, in every
\* class it belongs to, and is off by at most the rows that did change.
THEOREM SnapshotsAreTrue == VSpec => []SnapshotTrue
<1>1. TypeOK /\ VerificationInvariant /\ SnapshotInvariant => SnapshotTrue
    <2> SUFFICES ASSUME TypeOK, VerificationInvariant, SnapshotInvariant,
                        verify.phase \in {"report", "done"}, WholeTable
                 PROVE  LET s == verify.snapshot IN
                        /\ RightUpTo(s.scanned, Ids, touched)
                        /\ RightUpTo(s.needing, {i \in Ids : NeedsFix(transactions[i])}, touched)
                        /\ \A t \in Stored :
                             RightUpTo(s.status[t], {i \in Ids : transactions[i].status = t},
                                       touched)
                        /\ \A c \in Classes :
                             RightUpTo(s.problems[c], {i \in Ids : InClass(c, transactions[i])},
                                       touched)
        BY DEF SnapshotTrue, SnapshotInvariant
    <2>0. VTypeOK /\ CountsWithin
        BY DEF VerificationInvariant, SnapshotInvariant
    <2>1. \A i \in Ids : transactions[i] \in Row
        BY DEF TypeOK
    <2>2. /\ {i \in Ids : transactions[i] \in Row} = Ids
          /\ {i \in Ids : transactions[i] \in OutOfFormat} = {i \in Ids : NeedsFix(transactions[i])}
          /\ \A t : {i \in Ids : transactions[i] \in OfStatus(t)}
                        = {i \in Ids : transactions[i].status = t}
          /\ \A c : {i \in Ids : transactions[i] \in OfClass(c)}
                        = {i \in Ids : InClass(c, transactions[i])}
        BY <2>1 DEF OutOfFormat, OfStatus, OfClass
    <2>3. RightUpTo(verify.snapshot.scanned, {i \in Ids : transactions[i] \in Row}, touched)
        BY <2>0, CountIsRight, SnapshotTyped DEF CountsWithin
    <2>4. RightUpTo(verify.snapshot.needing, {i \in Ids : transactions[i] \in OutOfFormat}, touched)
        BY <2>0, CountIsRight, SnapshotTyped DEF CountsWithin
    <2>5. ASSUME NEW t \in Stored
          PROVE  RightUpTo(verify.snapshot.status[t],
                           {i \in Ids : transactions[i] \in OfStatus(t)}, touched)
        BY <2>0, CountIsRight, SnapshotTyped DEF CountsWithin
    <2>6. ASSUME NEW c \in Classes
          PROVE  RightUpTo(verify.snapshot.problems[c],
                           {i \in Ids : transactions[i] \in OfClass(c)}, touched)
        BY <2>0, CountIsRight, SnapshotTyped DEF CountsWithin
    <2> QED BY <2>2, <2>3, <2>4, <2>5, <2>6
<1>2. VSpec => []TypeOK
    BY VerificationIsRepair, TypeCorrect, PTL
<1> QED BY <1>1, <1>2, SnapshotHolds, VerificationInductive, PTL

----------------------------------------------------------------------------
(***************************************************************************)
(* What a scan after a run of the repair job can meet out of format: rows  *)
(* the run has reported, and rows it need not have seen.                   *)
(***************************************************************************)
Excused == {i \in Left \cup born : i <= verify.last}

RunBefore == job.phase = "done" /\ job.limit = 0 /\ verify.repaired = job.runs

\* `repaired` is the run that was over, and a later run has a higher number.
CleanInvariant ==
    /\ verify.repaired <= job.runs
    /\ job.phase # "idle" => job.runs # 0
    /\ job.runs # 0 /\ verify.repaired = job.runs => job.phase = "done"
    /\ RunBefore => verify.snapshot.needing <= Cardinality(Excused)

LEMMA ExcusedFinite ==
    ASSUME TypeOK
    PROVE  /\ Left \cup born \in SUBSET Ids /\ IsFiniteSet(Left \cup born)
           /\ Excused \in SUBSET (Left \cup born) /\ IsFiniteSet(Excused)
           /\ Cardinality(Excused) \in Nat
<1>1. Left \cup born \in SUBSET Ids
    BY DEF TypeOK, Left
<1>2. Excused \in SUBSET (Left \cup born)
    BY DEF Excused
<1>3. Excused \in SUBSET Ids
    BY <1>1, <1>2
<1> QED BY <1>1, <1>2, <1>3, IdsFinite

LEMMA CleanInit == VInit => CleanInvariant
<1> SUFFICES ASSUME VInit PROVE CleanInvariant
    OBVIOUS
<1>0. TypeOK
    BY TypeInit DEF VInit
<1>1. /\ verify.repaired = 0 /\ verify.snapshot = EmptySnapshot(0, 0)
      /\ job.phase = "idle" /\ job.runs = 0
    BY UnstartedTyped, IdleTyped DEF VInit, Init, Unstarted, JobType, Idle
<1> QED BY <1>1 DEF CleanInvariant, RunBefore

LEMMA CleanStarts ==
    ASSUME TypeOK, TypeOK', CleanInvariant, VStart
    PROVE  CleanInvariant'
<1>1. PICK o \in ScanOptions, cutoff \in Cutoffs :
          verify' = [Unstarted EXCEPT !.phase = "scan", !.runs = verify.runs + 1,
                                      !.writes = o.writes, !.compares = o.compares,
                                      !.repaired = IF job.phase = "done" THEN job.runs ELSE 0,
                                      !.snapshot = EmptySnapshot(o.limit, cutoff)]
    BY DEF VStart
<1>2. /\ verify'.repaired = IF job.phase = "done" THEN job.runs ELSE 0
      /\ verify'.snapshot.needing = 0 /\ job' = job
    BY <1>1, UnstartedTyped DEF Unstarted, EmptySnapshot, VStart, vars
<1>3. job.runs \in Nat
    BY DEF TypeOK
<1>4. Cardinality(Excused') \in Nat
    <2>1. Excused' \in SUBSET Ids
        BY DEF Excused, TypeOK, Left
    <2> QED BY <2>1, IdsFinite
<1> QED BY <1>2, <1>3, <1>4 DEF CleanInvariant, RunBefore

\* A row the scan meets out of format is one that the run before it has reported, or one
\* inserted since the run was started.
LEMMA CleanFetches ==
    ASSUME RepairInvariant, CursorInvariant, VTypeOK, SnapshotInvariant, CleanInvariant, VFetch,
           NEW last, Advances(last)
    PROVE  CleanInvariant'
<1> DEFINE fix == {i \in VBatch : NeedsFix(transactions[i])}
<1>0. /\ TypeOK /\ job' = job /\ UNCHANGED <<transactions, born>>
      /\ last \in VBatch /\ \A i \in VBatch : i <= last
    BY DEF RepairInvariant, VFetch, vars, Advances, Last
<1>1. /\ verify'.last = last /\ verify'.repaired = verify.repaired
      /\ verify'.snapshot = Counted(verify.snapshot, VBatch)
    BY <1>0, AdvancedFields
<1>2. verify'.snapshot.needing = verify.snapshot.needing + Cardinality(fix)
    <2>1. verify.snapshot \in Snapshot
        BY DEF VTypeOK
    <2> QED BY <1>1, <2>1 DEF Counted, Snapshot
<1>3. VBatch \in SUBSET Beyond
    BY BatchLowerEnd DEF SnapshotInvariant
<1>4. \A i \in VBatch : i \in Ids /\ i > verify.last /\ Exists(transactions[i])
    BY <1>3 DEF Beyond, InCohort
<1>5. /\ Ids \subseteq Nat /\ verify.last \in Nat /\ last \in Nat /\ verify.last < last
    BY <1>0, <1>4, SnapshotTyped
<1>6. ASSUME RunBefore
      PROVE  verify'.snapshot.needing <= Cardinality(Excused')
    <2>1. fix \subseteq Left \cup born
        <3>1. ASSUME NEW i \in fix, i \notin born
              PROVE  i \in Left
            <4>1. i \in Ids /\ Exists(transactions[i]) /\ NeedsFix(transactions[i])
                BY <1>4
            <4>2. job.outcome[i] \in {"conflict", "error", "reported"}
                BY <1>6, <3>1, <4>1, CompleteIfDone DEF RunBefore, RunComplete
            <4> QED BY <4>1, <4>2 DEF Left
        <3> QED BY <3>1
    <2>2. Excused \cup fix \subseteq Excused'
        <3>1. Left' = Left /\ born' = born
            BY <1>0 DEF Left
        <3>2. \A i \in Ids : i <= verify.last => i <= last
            BY <1>5
        <3>3. Excused \subseteq Excused'
            BY <1>1, <3>1, <3>2, <1>0, ExcusedFinite DEF Excused
        <3>4. fix \subseteq Excused'
            BY <1>0, <1>1, <2>1, <3>1 DEF Excused
        <3> QED BY <3>3, <3>4
    <2>3. Excused \cap fix = {}
        <3>1. \A i \in VBatch : ~(i <= verify.last)
            <4> TAKE i \in VBatch
            <4>1. i \in Nat /\ i > verify.last /\ verify.last \in Nat
                BY <1>4, <1>5
            <4> QED BY <4>1
        <3> QED BY <3>1 DEF Excused
    <2>4. fix \in SUBSET Ids /\ Excused' \in SUBSET Ids
        BY <1>0, <1>4 DEF Excused, Left, TypeOK
    <2> HIDE DEF fix
    <2>5. /\ IsFiniteSet(fix) /\ Cardinality(fix) \in Nat
          /\ IsFiniteSet(Excused') /\ Cardinality(Excused') \in Nat
        BY <2>4, IdsFinite
    <2>6. Cardinality(Excused \cup fix) = Cardinality(Excused) + Cardinality(fix)
        BY <1>0, <2>3, <2>5, ExcusedFinite, CardDisjoint
    <2>7. Cardinality(Excused \cup fix) <= Cardinality(Excused')
        BY <2>2, <2>5, FS_Subset
    <2>8. /\ verify.snapshot.needing <= Cardinality(Excused)
          /\ verify.snapshot.needing \in Nat /\ Cardinality(Excused) \in Nat
        BY <1>0, <1>6, ExcusedFinite, SnapshotTyped DEF CleanInvariant
    <2> QED BY <1>2, <2>5, <2>6, <2>7, <2>8
<1> QED BY <1>0, <1>1, <1>6 DEF CleanInvariant, RunBefore

\* A run that is over changes nothing more; another one has a higher number.
LEMMA CleanKept ==
    ASSUME TypeOK, TypeOK', VTypeOK, CleanInvariant, Others
    PROVE  CleanInvariant'
<1>0. verify' = verify /\ job.runs \in Nat /\ verify.repaired \in Nat
    BY DEF Others, TypeOK, VTypeOK
<1>1. CASE \E p \in Requests : Request(p)
    <2>1. job' = job /\ born \subseteq born'
        BY <1>1 DEF Request, Start, StartCreate, Find, Write, Insert, Update, Delete, Abort
    <2>2. Excused \subseteq Excused'
        BY <1>0, <2>1 DEF Excused, Left
    <2>3. IsFiniteSet(Excused') /\ Cardinality(Excused') \in Nat
        <3>1. Excused' \in SUBSET Ids
            BY DEF Excused, Left, TypeOK
        <3> QED BY <3>1, IdsFinite
    <2>4. Cardinality(Excused) <= Cardinality(Excused')
        BY <2>2, <2>3, FS_Subset
    <2>5. RunBefore => verify.snapshot.needing <= Cardinality(Excused')
        BY <2>3, <2>4, ExcusedFinite, SnapshotTyped DEF CleanInvariant
    <2> QED BY <1>0, <2>1, <2>5 DEF CleanInvariant, RunBefore
<1>2. CASE JobStart
    <2>1. job'.runs = job.runs + 1 /\ job'.phase = "fetch"
        BY <1>2, IdleTyped DEF JobStart
    <2> QED BY <1>0, <2>1 DEF CleanInvariant, RunBefore
<1>3. CASE JobStep \/ JobStop
    <2>1. /\ job.phase \in {"fetch", "rows"} /\ job'.runs = job.runs
          /\ job'.phase \in {"fetch", "rows", "done", "stopped"}
        <3>1. CASE JobFetch
            BY <3>1 DEF JobFetch, TypeOK
        <3>2. CASE JobRow
            <4>1. PICK i \in Ids, result \in Outcomes : Head(i) /\ Record(i, result)
                BY <3>2 DEF JobRow, JobSkip, JobApply, JobApplyFails, Outcomes
            <4> QED BY <4>1 DEF Head, Record, TypeOK
        <3>3. CASE JobStop
            BY <3>3 DEF JobStop, Running, TypeOK
        <3> QED BY <1>3, <3>1, <3>2, <3>3 DEF JobStep
    <2>2. verify.repaired # job.runs /\ job.runs # 0
        BY <2>1 DEF CleanInvariant
    <2> QED BY <1>0, <2>1, <2>2 DEF CleanInvariant, RunBefore
<1> QED BY <1>1, <1>2, <1>3 DEF Others

LEMMA CleanStays ==
    ASSUME CleanInvariant, UNCHANGED <<job, born>>, verify'.snapshot = verify.snapshot,
           verify'.last = verify.last, verify'.repaired = verify.repaired
    PROVE  CleanInvariant'
<1>1. Excused' = Excused
    BY DEF Excused, Left
<1> QED BY <1>1 DEF CleanInvariant, RunBefore

LEMMA CleanStep ==
    /\ RepairInvariant /\ RepairInvariant' /\ CursorInvariant
    /\ VerificationInvariant /\ SnapshotInvariant /\ CleanInvariant /\ [VNext]_allVars
    => CleanInvariant'
<1> SUFFICES ASSUME RepairInvariant, RepairInvariant', CursorInvariant, VerificationInvariant,
                    SnapshotInvariant, CleanInvariant, [VNext]_allVars
             PROVE  CleanInvariant'
    OBVIOUS
<1>0. TypeOK /\ TypeOK' /\ VTypeOK
    BY DEF RepairInvariant, VerificationInvariant
<1>1. CASE VReport
    <2>1. /\ verify'.snapshot = verify.snapshot /\ verify'.last = verify.last
          /\ verify'.repaired = verify.repaired /\ UNCHANGED <<job, born>>
        BY <1>0, <1>1 DEF VReport, VTypeOK, vars
    <2> QED BY <2>1, CleanStays
<1>2. CASE VStop
    <2>1. /\ verify'.snapshot = verify.snapshot /\ verify'.last = verify.last
          /\ verify'.repaired = verify.repaired /\ UNCHANGED <<job, born>>
        BY <1>0, <1>2 DEF VStop, VTypeOK, vars
    <2> QED BY <2>1, CleanStays
<1>3. CASE UNCHANGED allVars
    BY <1>3, CleanStays DEF allVars, verifyVars, vars
<1>4. CASE VFetch
    <2>1. CASE verify' = [verify EXCEPT !.phase = "report"]
        <3>1. /\ verify'.snapshot = verify.snapshot /\ verify'.last = verify.last
              /\ verify'.repaired = verify.repaired /\ UNCHANGED <<job, born>>
            BY <1>0, <1>4, <2>1 DEF VFetch, VTypeOK, vars
        <3> QED BY <3>1, CleanStays
    <2>2. CASE \E last : Advances(last)
        BY <1>0, <1>4, <2>2, CleanFetches
    <2> QED BY <1>4, <2>1, <2>2 DEF VFetch, Advances
<1> QED BY <1>0, <1>1, <1>2, <1>3, <1>4, CleanStarts, CleanKept DEF VNext

\* A scan after a finished run of the repair job calls no more rows out of format than the run
\* has reported and requests have inserted, however requests and scan interleave.
THEOREM CleanScan == VSpec => []CleanAfterRepair
<1>1. TypeOK /\ VerificationInvariant /\ CleanInvariant => CleanAfterRepair
    <2> SUFFICES ASSUME TypeOK, VerificationInvariant, CleanInvariant, RunBefore
                 PROVE  verify.snapshot.needing <= Cardinality(Left) + Cardinality(born)
        BY DEF CleanAfterRepair, RunBefore
    <2>0. VTypeOK
        BY DEF VerificationInvariant
    <2>1. Left \in SUBSET Ids /\ born \in SUBSET Ids /\ Left \cap born \in SUBSET Ids
        BY DEF TypeOK, Left
    <2>2. /\ IsFiniteSet(Left) /\ Cardinality(Left) \in Nat
          /\ IsFiniteSet(born) /\ Cardinality(born) \in Nat
          /\ Cardinality(Left \cap born) \in Nat
        BY <2>1, IdsFinite
    <2>3. Cardinality(Left \cup born)
              = Cardinality(Left) + Cardinality(born) - Cardinality(Left \cap born)
        BY <2>2, FS_Union
    <2>4. Cardinality(Excused) <= Cardinality(Left \cup born)
        BY ExcusedFinite, FS_Subset
    <2>5. /\ verify.snapshot.needing <= Cardinality(Excused)
          /\ verify.snapshot.needing \in Nat /\ Cardinality(Excused) \in Nat
        BY <2>0, ExcusedFinite, SnapshotTyped DEF CleanInvariant
    <2> QED BY <2>2, <2>3, <2>4, <2>5
<1>2. VSpec => []RepairInvariant
    BY VerificationIsRepair, RepairInductive, PTL
<1>3. VSpec => []CursorInvariant
    BY VerificationIsRepair, CursorHolds, PTL
<1>4. VSpec => []CleanInvariant
    BY <1>2, <1>3, CleanInit, CleanStep, SnapshotHolds, VerificationInductive, PTL DEF VSpec
<1>5. RepairInvariant => TypeOK
    BY DEF RepairInvariant
<1> QED BY <1>1, <1>2, <1>4, <1>5, VerificationInductive, PTL

----------------------------------------------------------------------------
(***************************************************************************)
(* Progress.                                                               *)
(***************************************************************************)
LEMMA FetchShortens ==
    ASSUME TypeOK, VTypeOK, VFetch
    PROVE  StepsOfScan' \in 0..StepsOfScan - 1
<1>1. /\ verify.phase = "scan" /\ verify.last \in Nat
      /\ IsFiniteSet(RowsAhead) /\ Cardinality(RowsAhead) \in Nat
    <2>1. RowsAhead \in SUBSET Ids
        BY DEF RowsAhead
    <2>2. verify.last \in Nat
        BY SnapshotTyped
    <2> QED BY <2>1, <2>2, IdsFinite DEF VFetch
<1>2. CASE VBatch = {} /\ verify' = [verify EXCEPT !.phase = "report"]
    <2>1. verify'.phase = "report"
        BY <1>2 DEF VTypeOK
    <2> QED BY <1>1, <2>1 DEF StepsOfScan
<1>3. ASSUME NEW last, Advances(last) PROVE StepsOfScan' \in 0..StepsOfScan - 1
    <2>1. verify'.phase = "scan" /\ verify'.last = last
        BY <1>1, <1>3, AdvancedFields
    <2>2. last \in RowsAhead /\ last \in Nat /\ last > verify.last
        BY <1>3, RepairAssumption DEF Advances, VBatch, First, RowsAhead
    <2>3. RowsAhead' \subseteq RowsAhead \ {last}
        <3> SUFFICES ASSUME NEW i \in Ids, i > last PROVE i > verify.last /\ i # last
            BY <2>1 DEF RowsAhead
        <3>1. i \in Nat
            BY RepairAssumption
        <3> QED BY <1>1, <2>2, <3>1
    <2>4. Cardinality(RowsAhead \ {last}) = Cardinality(RowsAhead) - 1 /\ IsFiniteSet(RowsAhead \ {last})
        BY <1>1, <2>2, FS_RemoveElement
    <2>5. IsFiniteSet(RowsAhead') /\ Cardinality(RowsAhead') <= Cardinality(RowsAhead \ {last})
        BY <2>3, <2>4, FS_Subset
    <2>6. Cardinality(RowsAhead') \in Nat
        BY <2>5, FS_CardinalityType
    <2> QED BY <1>1, <2>1, <2>4, <2>5, <2>6 DEF StepsOfScan
<1> QED BY <1>2, <1>3 DEF VFetch, Advances

LEMMA EndShortens ==
    ASSUME VTypeOK, VReport \/ VStop
    PROVE  StepsOfScan' \in 0..StepsOfScan - 1
<1>1. StepsOfScan' = 0
    BY DEF VReport, VStop, StepsOfScan, VTypeOK
<1>2. RowsAhead \in SUBSET Ids
    BY DEF RowsAhead
<1>3. StepsOfScan \in Nat \ {0}
    BY <1>2, IdsFinite DEF VReport, VStop, Scanning, StepsOfScan
<1> QED BY <1>1, <1>3

\* A scan fetches at most one batch for each id, an empty one, and reports: requests and the
\* repair job may move rows into its way but not keep it busy.
THEOREM ScansAreShort == VSpec => ScanMovesOn
<1>1. VSpec => []TypeOK
    BY VerificationIsRepair, TypeCorrect, PTL
<1>2. TypeOK /\ VerificationInvariant /\ [VNext]_allVars
      => [\/ verify' = verify /\ ~VFetch /\ ~VReport
          \/ VStart
          \/ StepsOfScan' \in 0..StepsOfScan - 1]_allVars
    <2> SUFFICES ASSUME TypeOK, VTypeOK, VNext
                 PROVE  \/ verify' = verify /\ ~VFetch /\ ~VReport
                        \/ VStart
                        \/ StepsOfScan' \in 0..StepsOfScan - 1
        BY DEF VerificationInvariant
    <2>1. VFetch \/ VReport \/ VStop => StepsOfScan' \in 0..StepsOfScan - 1
        BY FetchShortens, EndShortens
    <2>2. VFetch \/ VReport \/ VStop \/ VStart \/ verify' = verify
        BY DEF VNext, Others, allVars, verifyVars
    <2> QED BY <2>1, <2>2
<1> QED BY <1>1, <1>2, VerificationInductive, PTL DEF VSpec, ScanMovesOn

=============================================================================
