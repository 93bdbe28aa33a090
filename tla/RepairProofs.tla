---------------------------- MODULE RepairProofs ----------------------------
(***************************************************************************)
(* Theorems about Repair for any number of rows, requests and runs of the  *)
(* job: type correctness, the safety properties that follow from           *)
(* RepairInvariant and CursorInvariant, and that a run always has a next   *)
(* step and makes no more than a bounded number of them.                   *)
(***************************************************************************)
EXTENDS RepairInvariant, FiniteSetTheorems, WellFoundedInduction, TLAPS

LEMMA NoRowTyped == NoRow \in Row /\ ~Exists(NoRow) /\ ~NeedsFix(NoRow)
BY DEF NoRow, Row, Statuses, Exists, NeedsFix

LEMMA PatchedTyped ==
    ASSUME NEW s \in Row, NEW r \in Row, NEW t \in Nat
    PROVE  Patched(s, r, t) \in Row
<1>1. PatchedPostedAt(r) \in Nat
    BY DEF Row, PatchedPostedAt
<1>2. PatchedCancelledAt(r) \in Nat
    BY DEF Row, PatchedCancelledAt
<1> QED BY <1>1, <1>2 DEF Row, Patched

LEMMA NewRowTyped ==
    ASSUME NEW status \in {"planned", "posted"}, NEW o \in Nat, NEW d \in Nat,
           NEW income \in BOOLEAN, NEW t \in Nat
    PROVE  NewRow(status, o, d, income, t) \in Row
BY SMT DEF Row, Statuses, NewRow

LEMMA HistoryTyped == ASSUME NEW r \in HistoricalRow PROVE r \in Row
BY DEF HistoricalRow

LEMMA IdleTyped ==
    Idle \in [phase : {"idle", "fetch", "rows", "done", "stopped"}, runs : Nat, dry : BOOLEAN,
              limit : Nat, last : Ids \cup {0}, batch : [Ids -> Row],
              outcome : [Ids -> Outcomes]]
BY NoRowTyped DEF Idle, Outcomes

LEMMA TypeInit == Init => TypeOK
<1> SUFFICES ASSUME Init PROVE TypeOK
    OBVIOUS
<1>1. transactions \in [Ids -> Row]
    <2>1. transactions \in [Ids -> HistoricalRow \cup {NoRow}]
        BY RepairAssumption DEF Init
    <2> QED BY <2>1, HistoryTyped, NoRowTyped
<1> QED BY <1>1, NoRowTyped, IdleTyped DEF Init, TypeOK, Epoch

\* The bodies hold dates, which are naturals.
LEMMA CreateBodyTyped ==
    ASSUME NEW b \in CreateBody
    PROVE  /\ b.status \in {"planned", "posted"}
           /\ b.occurredAt \in Nat /\ b.plannedAt \in Nat
<1>1. b.status \in {"planned", "posted"} /\ b.occurredAt \in Dates /\ b.plannedAt \in Dates
    BY DEF CreateBody
<1> QED BY <1>1, RepairAssumption

LEMMA PatchBodyTyped ==
    ASSUME NEW r \in Row, NEW b \in PatchBody(r)
    PROVE  b.occurredAt \in Nat /\ b.plannedAt \in Nat
<1>1. r.occurredAt \in Nat /\ r.plannedAt \in Nat
    BY DEF Row
<1>2. /\ b.occurredAt \in Dates \cup {r.occurredAt}
      /\ b.plannedAt \in Dates \cup {r.plannedAt}
    BY DEF PatchBody
<1> QED BY <1>1, <1>2, RepairAssumption

LEMMA DuplicateBodyTyped ==
    ASSUME NEW r \in Row, NEW b \in DuplicateBody(r)
    PROVE  /\ b.status \in {"planned", "posted"}
           /\ b.occurredAt \in Nat /\ b.plannedAt \in Nat
<1>1. r.occurredAt \in Nat /\ r.plannedAt \in Nat
    BY DEF Row
<1>2. /\ b.status \in {"planned", "posted"}
      /\ b.occurredAt \in (Dates \ {0}) \cup {r.occurredAt}
      /\ b.plannedAt \in (Dates \ {0}) \cup {r.plannedAt}
    BY DEF DuplicateBody
<1> QED BY <1>1, <1>2, RepairAssumption

\* A request that has found the row it is going to update.
LEMMA FindUpdate ==
    ASSUME TypeOK, NEW p \in Requests, Find(p), kind[p] \in UpdateKinds, ~Fail(p)
    PROVE  /\ \E w \in Row : /\ Prepare(p, w)
                             /\ w.updatedAt = now'[p]
                             /\ now'[p] # 0 => Follows(transactions[tgt[p]], w)
           /\ \/ kind[p] \in {"post", "cancel"} /\ UNCHANGED <<clock, now>>
              \/ kind[p] = "patch" /\ ReadClock(p)
           /\ UNCHANGED <<minted, tgt>>
           /\ Exists(transactions[tgt[p]])
<1> DEFINE r == transactions[tgt[p]]
<1>0. r \in Row /\ now[p] \in Nat /\ clock \in Nat
    BY DEF Find, TypeOK
<1>1. CASE FindForPost(p)
    <2> DEFINE w == [r EXCEPT !.status = "posted", !.postedAt = now[p], !.updatedAt = now[p],
                              !.occurredAt = IF @ = 0 THEN now[p] ELSE @]
    <2>1. w \in Row /\ w.updatedAt = now[p]
        BY <1>0 DEF Row, Statuses
    <2>2. ASSUME r.status = "planned", now[p] # 0 PROVE Follows(r, w)
        BY <1>0, <2>2 DEF Row, Follows, Exists, NeedsFix, TimestampsFit
    <2> QED BY <1>1, <2>1, <2>2 DEF FindForPost, Exists
<1>2. CASE FindForCancel(p)
    <2> DEFINE w == [r EXCEPT !.status = "cancelled", !.cancelledAt = now[p],
                              !.updatedAt = now[p]]
    <2>1. w \in Row /\ w.updatedAt = now[p]
        BY <1>0 DEF Row, Statuses
    <2>2. ASSUME r.status \in {"planned", "posted"}, now[p] # 0 PROVE Follows(r, w)
        BY <1>0, <2>2 DEF Row, Follows, Exists, NeedsFix, TimestampsFit
    <2> QED BY <1>2, <2>1, <2>2 DEF FindForCancel, Exists
<1>3. CASE FindForPatch(p)
    <2>1. PICK b \in PatchBody(r) :
              Prepare(p, [r EXCEPT !.occurredAt = b.occurredAt, !.plannedAt = b.plannedAt,
                                   !.updatedAt = clock + 1])
        BY <1>3 DEF FindForPatch
    <2> DEFINE w == [r EXCEPT !.occurredAt = b.occurredAt, !.plannedAt = b.plannedAt,
                              !.updatedAt = clock + 1]
    <2>2. b.occurredAt \in Nat /\ b.plannedAt \in Nat /\ clock + 1 \in Nat
        BY <1>0, PatchBodyTyped
    <2>3. w \in Row /\ w.updatedAt = clock + 1
        BY <1>0, <2>2, Zenon DEF Row
    <2>4. ReadClock(p) /\ now'[p] = clock + 1
        BY <1>3 DEF FindForPatch, ReadClock, TypeOK
    <2>5. r.status \in {"planned", "posted"}
        BY <1>3 DEF FindForPatch
    <2>7. Follows(r, w)
        BY <1>0, <2>2, <2>5 DEF Row, Follows, Exists, NeedsFix, TimestampsFit
    <2> QED BY <1>3, <2>1, <2>3, <2>4, <2>5, <2>7 DEF FindForPatch, Exists
<1> QED BY <1>1, <1>2, <1>3 DEF Find, UpdateKinds, FindForDelete, FindForDuplicate

LEMMA FindDelete ==
    ASSUME NEW p \in Requests, Find(p), kind[p] = "delete", ~Fail(p)
    PROVE  /\ Prepare(p, NoRow)
           /\ UNCHANGED <<clock, minted, tgt, now>>
           /\ Exists(transactions[tgt[p]])
BY DEF Exists, Find, FindForPost, FindForCancel, FindForPatch, FindForDelete, FindForDuplicate

\* The row DuplicateByID is going to insert.
LEMMA FindDuplicate ==
    ASSUME TypeOK, NEW p \in Requests, Find(p), kind[p] = "duplicate", ~Fail(p)
    PROVE  /\ \E i \in Ids \ minted, w \in Row :
                /\ minted' = minted \cup {i}
                /\ tgt' = [tgt EXCEPT ![p] = i]
                /\ row' = [row EXCEPT ![p] = w]
                /\ w.updatedAt = now[p] /\ Exists(w)
           /\ Goto(p, "write")
           /\ UNCHANGED <<clock, now, seen>>
<1> DEFINE r == transactions[tgt[p]]
<1>0. r \in Row /\ now[p] \in Nat /\ clock \in Nat /\ FindForDuplicate(p)
    BY DEF Find, TypeOK, FindForPost, FindForCancel, FindForPatch, FindForDelete
<1> DEFINE planned(b) == IF b.plannedAt = 0 THEN b.occurredAt ELSE b.plannedAt
<1>1. PICK i \in Ids \ minted, b \in DuplicateBody(r) :
          /\ minted' = minted \cup {i}
          /\ tgt' = [tgt EXCEPT ![p] = i]
          /\ row' = [row EXCEPT ![p] =
                        NewRow(b.status, b.occurredAt, planned(b), r.income, now[p])]
    BY <1>0 DEF FindForDuplicate
<1> DEFINE w == NewRow(b.status, b.occurredAt, planned(b), r.income, now[p])
<1>2. /\ b.status \in {"planned", "posted"} /\ b.occurredAt \in Nat /\ b.plannedAt \in Nat
      /\ r.income \in BOOLEAN
    BY <1>0, DuplicateBodyTyped, Zenon DEF Row
<1>3. planned(b) \in Nat
    BY <1>2
<1>4. w \in Row
    BY <1>0, <1>2, <1>3, NewRowTyped
<1>5. w.updatedAt = now[p] /\ Exists(w)
    BY <1>2 DEF NewRow, Exists
<1> QED BY <1>0, <1>1, <1>4, <1>5 DEF FindForDuplicate

LEMMA FindKinds ==
    ASSUME TypeOK, NEW p \in Requests, Find(p)
    PROVE  kind[p] \in UpdateKinds \/ kind[p] = "delete" \/ kind[p] = "duplicate"
BY DEF Find, UpdateKinds, FindForPost, FindForCancel, FindForPatch, FindForDelete,
       FindForDuplicate

LEMMA TypeFind ==
    ASSUME TypeOK, NEW p \in Requests, Find(p)
    PROVE  TypeOK'
<1>0. UNCHANGED <<transactions, born, kind, job>> /\ pc[p] = "find"
    BY DEF Find
<1>1. CASE Fail(p)
    BY <1>0, <1>1 DEF Fail, Goto, TypeOK
<1>2. ASSUME NEW w \in Row, Prepare(p, w), UNCHANGED <<minted, tgt>>,
             UNCHANGED <<clock, now>> \/ ReadClock(p)
      PROVE  TypeOK'
    <2>1. transactions[tgt[p]] \in Row
        BY <1>0 DEF TypeOK
    <2>2. clock' \in Nat /\ now' \in [Requests -> Nat]
        BY <1>2 DEF ReadClock, TypeOK
    <2> QED BY <1>0, <1>2, <2>1, <2>2 DEF Prepare, Goto, TypeOK
<1>3. ASSUME NEW i \in Ids \ minted, NEW w \in Row, minted' = minted \cup {i},
             tgt' = [tgt EXCEPT ![p] = i], row' = [row EXCEPT ![p] = w], Goto(p, "write"),
             UNCHANGED <<clock, now, seen>>
      PROVE  TypeOK'
    BY <1>0, <1>3 DEF Goto, TypeOK
<1>4. CASE kind[p] \in UpdateKinds /\ ~Fail(p)
    <2>1. PICK w \in Row : Prepare(p, w)
        BY <1>4, FindUpdate
    <2>2. UNCHANGED <<minted, tgt>> /\ (UNCHANGED <<clock, now>> \/ ReadClock(p))
        BY <1>4, FindUpdate
    <2> QED BY <1>2, <2>1, <2>2
<1>5. CASE kind[p] = "delete" /\ ~Fail(p)
    BY <1>2, <1>5, FindDelete, NoRowTyped
<1>6. CASE kind[p] = "duplicate" /\ ~Fail(p)
    <2>1. PICK i \in Ids \ minted, w \in Row :
              /\ minted' = minted \cup {i}
              /\ tgt' = [tgt EXCEPT ![p] = i]
              /\ row' = [row EXCEPT ![p] = w]
        BY <1>6, FindDuplicate
    <2>2. Goto(p, "write") /\ UNCHANGED <<clock, now, seen>>
        BY <1>6, FindDuplicate
    <2> QED BY <1>3, <2>1, <2>2
<1> QED BY <1>1, <1>4, <1>5, <1>6, FindKinds

LEMMA TypeWrite ==
    ASSUME TypeOK, NEW p \in Requests, Write(p)
    PROVE  TypeOK'
<1>1. transactions' \in [Ids -> Row] /\ born' \subseteq Ids
    <2>0. tgt[p] \in Ids /\ row[p] \in Row /\ transactions[tgt[p]] \in Row
        BY DEF Write, TypeOK
    <2>1. CASE Insert(p)
        BY <2>0, <2>1 DEF Insert, Store, TypeOK
    <2>2. CASE Update(p)
        <3>1. [row[p] EXCEPT !.reserved = transactions[tgt[p]].reserved] \in Row
            BY <2>0 DEF Row
        <3> QED BY <2>0, <2>2, <3>1 DEF Update, Store, TypeOK
    <2>3. CASE Delete(p)
        BY <2>0, <2>3, NoRowTyped DEF Delete, Store, TypeOK
    <2> QED BY <2>1, <2>2, <2>3 DEF Write
<1> QED BY <1>1 DEF Write, Goto, TypeOK

LEMMA TypeRequest ==
    ASSUME TypeOK, NEW p \in Requests, Request(p)
    PROVE  TypeOK'
<1>1. CASE Start(p)
    BY <1>1, SMT DEF Start, TypeOK, ReadClock, Goto
<1>2. CASE StartCreate(p)
    <2>1. PICK i \in Ids, b \in CreateBody :
              /\ minted' = minted \cup {i}
              /\ tgt' = [tgt EXCEPT ![p] = i]
              /\ row' = [row EXCEPT ![p] =
                            NewRow(b.status, b.occurredAt, b.plannedAt, FALSE, clock + 1)]
        BY <1>2 DEF StartCreate
    <2>2. /\ b.status \in {"planned", "posted"} /\ b.occurredAt \in Nat /\ b.plannedAt \in Nat
          /\ clock + 1 \in Nat
        BY CreateBodyTyped DEF TypeOK
    <2>3. NewRow(b.status, b.occurredAt, b.plannedAt, FALSE, clock + 1) \in Row
        BY <2>2, NewRowTyped
    <2> QED BY <1>2, <2>1, <2>2, <2>3 DEF StartCreate, TypeOK, ReadClock, Goto
<1>3. CASE Abort(p)
    BY <1>3 DEF Abort, TypeOK, Goto
<1> QED BY <1>1, <1>2, <1>3, TypeFind, TypeWrite DEF Request

----------------------------------------------------------------------------
LEMMA RecordTyped ==
    ASSUME TypeOK, NEW i \in Ids, NEW result \in Outcomes, Record(i, result)
    PROVE  job' \in [phase : {"idle", "fetch", "rows", "done", "stopped"}, runs : Nat,
                     dry : BOOLEAN, limit : Nat, last : Ids \cup {0}, batch : [Ids -> Row],
                     outcome : [Ids -> Outcomes]]
BY NoRowTyped DEF Record, TypeOK

LEMMA ApplyTyped ==
    ASSUME TypeOK, NEW i \in Ids, ApplyPatch(i) \/ UNCHANGED transactions
    PROVE  transactions' \in [Ids -> Row]
<1>1. transactions[i] \in Row /\ job.batch[i] \in Row /\ clock + 1 \in Nat
    BY DEF TypeOK
<1>2. Patched(transactions[i], job.batch[i], clock + 1) \in Row
    BY <1>1, PatchedTyped
<1> QED BY <1>1, <1>2 DEF ApplyPatch, Store, TypeOK

LEMMA TypeJob ==
    ASSUME TypeOK, JobStart \/ JobStep \/ JobStop
    PROVE  TypeOK'
<1>1. CASE JobStart
    <2>1. PICK o \in Options :
             job' = [Idle EXCEPT !.phase = "fetch", !.runs = job.runs + 1, !.dry = o.dry,
                                 !.limit = o.limit]
        BY <1>1 DEF JobStart
    <2>2. o.dry \in BOOLEAN /\ o.limit \in Nat /\ job.runs + 1 \in Nat
        BY RepairAssumption DEF TypeOK
    <2>3. job' \in [phase : {"idle", "fetch", "rows", "done", "stopped"}, runs : Nat,
                    dry : BOOLEAN, limit : Nat, last : Ids \cup {0}, batch : [Ids -> Row],
                    outcome : [Ids -> Outcomes]]
        BY <2>1, <2>2, IdleTyped
    <2> QED BY <1>1, <2>3 DEF JobStart, TypeOK, requestVars
<1>2. CASE JobFetch
    <2>1. [i \in Ids |-> IF i \in Batch THEN transactions[i] ELSE NoRow] \in [Ids -> Row]
        BY NoRowTyped DEF TypeOK
    <2> QED BY <1>2, <2>1 DEF JobFetch, TypeOK, requestVars
<1>3. CASE JobRow
    <2>1. PICK i \in Ids : JobSkip(i) \/ JobApply(i) \/ JobApplyFails(i)
        BY <1>3 DEF JobRow
    <2>2. \E result \in Outcomes : Record(i, result)
        BY <2>1 DEF JobSkip, JobApply, JobApplyFails, Outcomes
    <2>3. clock' \in Nat /\ transactions' \in [Ids -> Row]
        BY <2>1, ApplyTyped DEF JobSkip, JobApply, JobApplyFails, TypeOK
    <2> QED BY <1>3, <2>2, <2>3, RecordTyped DEF JobRow, TypeOK, requestVars
<1>4. CASE JobStop
    BY <1>4 DEF JobStop, TypeOK, requestVars
<1> QED BY <1>1, <1>2, <1>3, <1>4 DEF JobStep

LEMMA TypeStep == TypeOK /\ [Next]_vars => TypeOK'
<1> SUFFICES ASSUME TypeOK, [Next]_vars PROVE TypeOK'
    OBVIOUS
<1>1. CASE UNCHANGED vars
    BY <1>1 DEF vars, requestVars, TypeOK
<1> QED BY <1>1, TypeRequest, TypeJob DEF Next

\* Every variable stays within its type in every run of the job, whatever the requests do.
THEOREM TypeCorrect == Spec => []TypeOK
<1> QED BY TypeInit, TypeStep, PTL DEF Spec

----------------------------------------------------------------------------
LEMMA InvariantInit == Init => RepairInvariant
<1> SUFFICES ASSUME Init PROVE RepairInvariant
    OBVIOUS
<1>1. TypeOK
    BY TypeInit
<1>2. \A i \in Ids : transactions[i] \in HistoricalRow \/ transactions[i] = NoRow
    <2>1. transactions \in [Ids -> HistoricalRow \cup {NoRow}]
        BY RepairAssumption DEF Init
    <2> QED BY <2>1
<1>3. /\ clock = 1 /\ pc = [p \in Requests |-> "start"] /\ now = [p \in Requests |-> 0]
      /\ seen = [p \in Requests |-> NoRow]
      /\ minted = {i \in Ids : Exists(transactions[i])}
    BY DEF Init, Epoch
<1>4. \A i \in Ids : job.batch[i] = NoRow /\ job.outcome[i] = "none"
    BY DEF Init, Idle
<1>5. NoRow.updatedAt = 0 /\ ~Exists(NoRow)
    BY DEF NoRow, Exists
<1>6. \A i \in Ids : /\ transactions[i].updatedAt <= 1
                     /\ Exists(transactions[i]) => transactions[i].updatedAt # 0
    BY <1>2, <1>5 DEF HistoricalRow, Epoch
<1>7. TimesPast /\ TimesSet
    BY <1>3, <1>4, <1>5, <1>6 DEF TimesPast, TimesSet
<1>8. TimesFresh /\ Prepared /\ InsertsFresh
    BY <1>3 DEF TimesFresh, HoldsTime, Prepared, InsertsFresh, Inserting
<1>9. Unminted /\ VersionsAgree /\ CopiesAlign /\ ReportTrue
    BY <1>3, <1>4, <1>5, <1>6 DEF Unminted, VersionsAgree, SameVersion, CopiesAlign, ReportTrue
<1> QED BY <1>1, <1>7, <1>8, <1>9 DEF RepairInvariant

----------------------------------------------------------------------------
\* A request that has only moved by itself, with a fresh reading or its old one.
LEMMA QuietRequest ==
    ASSUME RepairInvariant, TypeOK', NEW p \in Requests,
           UNCHANGED <<transactions, job, kind>>,
           \A q \in Requests \ {p} : /\ pc'[q] = pc[q] /\ tgt'[q] = tgt[q] /\ now'[q] = now[q]
                                     /\ seen'[q] = seen[q] /\ row'[q] = row[q],
           \/ UNCHANGED clock /\ now'[p] = now[p] /\ (HoldsTime(p)' => HoldsTime(p))
           \/ clock' = clock + 1 /\ now'[p] = clock + 1,
           seen'[p] = seen[p] \/ (tgt[p] \in Ids /\ seen'[p] = transactions[tgt[p]])
    PROVE  TimesPast' /\ TimesSet' /\ TimesFresh' /\ CopiesAlign' /\ ReportTrue'
<1>0. /\ clock \in Nat /\ TimesPast /\ TimesFresh
      /\ \A q \in Requests : now[q] \in Nat /\ seen[q].updatedAt \in Nat
      /\ \A i \in Ids : transactions[i].updatedAt \in Nat /\ job.batch[i].updatedAt \in Nat
    BY DEF RepairInvariant, TypeOK, Row
<1>1. TimesPast'
    <2>1. now'[p] <= clock' /\ seen'[p].updatedAt <= clock' /\ clock <= clock'
        BY <1>0 DEF TimesPast
    <2>2. ASSUME NEW q \in Requests \ {p}
          PROVE  now'[q] <= clock' /\ seen'[q].updatedAt <= clock'
        BY <1>0, <2>1 DEF TimesPast
    <2> QED BY <1>0, <2>1, <2>2 DEF TimesPast
<1>2. TimesSet' /\ CopiesAlign' /\ ReportTrue'
    BY DEF RepairInvariant, TimesSet, CopiesAlign, ReportTrue
<1>3. TimesFresh'
    <2>1. ASSUME NEW q \in Requests \ {p} PROVE HoldsTime(q)' = HoldsTime(q)
        BY <2>1 DEF HoldsTime
    <2>2. CASE UNCHANGED clock /\ now'[p] = now[p] /\ (HoldsTime(p)' => HoldsTime(p))
        BY <1>0, <2>1, <2>2 DEF TimesFresh
    <2>3. CASE clock' = clock + 1 /\ now'[p] = clock + 1
        <3>1. \A q \in Requests : seen'[q].updatedAt <= clock
            BY <1>0 DEF TimesPast
        <3>2. ASSUME NEW q \in Requests \ {p} PROVE now'[q] <= clock
            BY <1>0 DEF TimesPast
        <3>3. \A i \in Ids : transactions'[i].updatedAt <= clock /\ job'.batch[i].updatedAt <= clock
            BY <1>0 DEF TimesPast
        <3>4. ASSUME NEW q \in Requests \ {p}, HoldsTime(q)
              PROVE  /\ now'[q] # 0
                     /\ \A r \in Requests \ {q} : HoldsTime(r)' => now'[r] # now'[q]
                     /\ \A i \in Ids : /\ transactions'[i].updatedAt # now'[q]
                                       /\ job'.batch[i].updatedAt # now'[q]
                     /\ \A r \in Requests : seen'[r].updatedAt # now'[q]
            BY <1>0, <2>1, <2>3, <3>2, <3>4 DEF TimesFresh
        <3>5. /\ now'[p] # 0
              /\ \A r \in Requests \ {p} : now'[r] # now'[p]
              /\ \A i \in Ids : transactions'[i].updatedAt # now'[p] /\ job'.batch[i].updatedAt # now'[p]
              /\ \A r \in Requests : seen'[r].updatedAt # now'[p]
            BY <1>0, <2>3, <3>1, <3>2, <3>3
        <3> QED BY <2>1, <3>4, <3>5 DEF TimesFresh
    <2> QED BY <2>2, <2>3
<1> QED BY <1>1, <1>2, <1>3

\* Nobody's part of the invariant but p's is concerned.
LEMMA StartSound ==
    ASSUME RepairInvariant, TypeOK', NEW p \in Requests, Start(p)
    PROVE  RepairInvariant'
<1>1. pc[p] = "start" /\ pc'[p] = "find" /\ UNCHANGED <<transactions, minted, kind, seen, row, job>>
    BY DEF Start, Goto, RepairInvariant, TypeOK
<1>2. \A q \in Requests \ {p} : pc'[q] = pc[q] /\ tgt'[q] = tgt[q] /\ now'[q] = now[q]
    BY DEF Start, Goto, ReadClock, RepairInvariant, TypeOK
<1>3. \/ UNCHANGED clock /\ now'[p] = now[p] /\ ~HoldsTime(p)'
      \/ clock' = clock + 1 /\ now'[p] = clock + 1
    <2>1. CASE kind[p] \in {"post", "cancel", "duplicate"}
        BY <2>1 DEF Start, ReadClock, RepairInvariant, TypeOK
    <2>2. CASE kind[p] \notin {"post", "cancel", "duplicate"}
        BY <1>1, <2>2 DEF Start, HoldsTime
    <2> QED BY <2>1, <2>2
<1>4. TimesPast' /\ TimesSet' /\ TimesFresh' /\ CopiesAlign' /\ ReportTrue'
    BY <1>1, <1>2, <1>3, QuietRequest
<1>5. Prepared'
    BY <1>1, <1>2 DEF RepairInvariant, Prepared
<1>6. InsertsFresh'
    BY <1>1, <1>2 DEF RepairInvariant, InsertsFresh, Inserting
<1>7. Unminted' /\ VersionsAgree'
    BY <1>1, <1>2 DEF RepairInvariant, Unminted, VersionsAgree, SameVersion
<1> QED BY <1>4, <1>5, <1>6, <1>7 DEF RepairInvariant

LEMMA AbortSound ==
    ASSUME RepairInvariant, TypeOK', NEW p \in Requests,
           UNCHANGED <<transactions, clock, minted, kind, tgt, now, seen, row, job>>,
           Goto(p, "done")
    PROVE  RepairInvariant'
<1>1. pc'[p] = "done" /\ \A q \in Requests \ {p} : pc'[q] = pc[q]
    BY DEF Goto, RepairInvariant, TypeOK
<1>2. ~HoldsTime(p)'
    BY <1>1 DEF HoldsTime
<1>3. TimesPast' /\ TimesSet' /\ TimesFresh' /\ CopiesAlign' /\ ReportTrue'
    BY <1>1, <1>2, QuietRequest
<1>4. Prepared'
    BY <1>1 DEF RepairInvariant, Prepared
<1>5. InsertsFresh'
    BY <1>1 DEF RepairInvariant, InsertsFresh, Inserting
<1>6. Unminted' /\ VersionsAgree'
    BY <1>1 DEF RepairInvariant, Unminted, VersionsAgree, SameVersion
<1> QED BY <1>3, <1>4, <1>5, <1>6 DEF RepairInvariant

\* A request that has built a row for a new id.
LEMMA InsertPrepared ==
    ASSUME RepairInvariant, TypeOK', NEW p \in Requests, NEW i \in Ids \ minted, NEW w \in Row,
           UNCHANGED <<transactions, kind, seen, job>>,
           minted' = minted \cup {i},
           tgt' = [tgt EXCEPT ![p] = i],
           row' = [row EXCEPT ![p] = w],
           w.updatedAt = now'[p], Exists(w),
           kind[p] \in InsertKinds, pc[p] \in {"start", "find"}, Goto(p, "write"),
           (UNCHANGED <<clock, now>> /\ HoldsTime(p)) \/ ReadClock(p)
    PROVE  RepairInvariant'
<1>1. /\ pc'[p] = "write" /\ tgt'[p] = i /\ row'[p] = w
      /\ \A q \in Requests \ {p} : /\ pc'[q] = pc[q] /\ tgt'[q] = tgt[q] /\ now'[q] = now[q]
                                   /\ row'[q] = row[q]
    BY DEF Goto, ReadClock, RepairInvariant, TypeOK
<1>2. \/ UNCHANGED clock /\ now'[p] = now[p] /\ HoldsTime(p)
      \/ clock' = clock + 1 /\ now'[p] = clock + 1
    BY DEF ReadClock, RepairInvariant, TypeOK
<1>3. TimesPast' /\ TimesSet' /\ TimesFresh' /\ CopiesAlign' /\ ReportTrue'
    BY <1>1, <1>2, QuietRequest
<1>4. Prepared'
    BY <1>1 DEF RepairInvariant, Prepared, InsertKinds, UpdateKinds
<1>5. /\ ~Exists(transactions[i]) /\ ~Exists(job.batch[i]) /\ job.outcome[i] = "none"
      /\ \A q \in Requests : pc[q] = "write" => tgt[q] # i
    BY DEF RepairInvariant, Unminted
<1>6. InsertsFresh'
    <2> SUFFICES ASSUME NEW q \in Requests, Inserting(q)'
                 PROVE  /\ tgt'[q] \in minted'
                        /\ ~Exists(transactions'[tgt'[q]]) /\ ~Exists(job'.batch[tgt'[q]])
                        /\ job'.outcome[tgt'[q]] = "none"
                        /\ \A u \in Requests \ {q} : pc'[u] = "write" => tgt'[u] # tgt'[q]
        BY DEF InsertsFresh
    <2>1. CASE q = p
        BY <1>1, <1>5, <2>1
    <2>2. CASE q # p
        <3>1. Inserting(q)
            BY <1>1, <2>2 DEF Inserting
        <3> QED BY <1>1, <1>5, <2>2, <3>1 DEF RepairInvariant, InsertsFresh, Inserting
    <2> QED BY <2>1, <2>2
<1>7. Unminted'
    BY <1>1 DEF RepairInvariant, Unminted
<1>8. VersionsAgree'
    BY <1>1 DEF RepairInvariant, VersionsAgree, SameVersion
<1> QED BY <1>3, <1>4, <1>6, <1>7, <1>8 DEF RepairInvariant

\* A request that has read the row it is going to change.
LEMMA ChangePrepared ==
    ASSUME RepairInvariant, TypeOK', NEW p \in Requests, NEW w \in Row,
           UNCHANGED <<transactions, minted, kind, tgt, job>>,
           pc[p] = "find", Prepare(p, w), Exists(transactions[tgt[p]]),
           \/ kind[p] = "delete" /\ UNCHANGED <<clock, now>>
           \/ /\ kind[p] \in UpdateKinds
              /\ w.updatedAt = now'[p]
              /\ now'[p] # 0 => Follows(transactions[tgt[p]], w)
              /\ (UNCHANGED <<clock, now>> /\ HoldsTime(p)) \/ ReadClock(p)
    PROVE  RepairInvariant'
<1>1. /\ tgt[p] \in Ids /\ pc'[p] = "write" /\ row'[p] = w /\ seen'[p] = transactions[tgt[p]]
      /\ \A q \in Requests \ {p} : /\ pc'[q] = pc[q] /\ now'[q] = now[q]
                                   /\ seen'[q] = seen[q] /\ row'[q] = row[q]
    BY DEF Prepare, Goto, ReadClock, RepairInvariant, TypeOK
<1>2. \/ UNCHANGED clock /\ now'[p] = now[p] /\ (HoldsTime(p)' => HoldsTime(p))
      \/ clock' = clock + 1 /\ now'[p] = clock + 1
    BY <1>1 DEF ReadClock, RepairInvariant, TypeOK, HoldsTime
<1>3. TimesPast' /\ TimesSet' /\ TimesFresh' /\ CopiesAlign' /\ ReportTrue'
    BY <1>1, <1>2, QuietRequest
<1>4. Prepared'
    <2>1. HoldsTime(p)' <=> kind[p] # "delete"
        BY <1>1 DEF HoldsTime
    <2>2. kind[p] # "delete" => now'[p] # 0
        BY <1>3, <2>1 DEF TimesFresh
    <2>3. kind[p] # "delete" => w.updatedAt = now'[p] /\ Follows(transactions[tgt[p]], w)
        BY <2>2 DEF UpdateKinds
    <2>4. kind[p] # "delete" => Exists(w)
        BY <2>3 DEF Follows
    <2>5. ASSUME NEW q \in Requests \ {p}
          PROVE  /\ pc'[q] = "write" /\ kind'[q] # "delete" =>
                        row'[q].updatedAt = now'[q] /\ Exists(row'[q])
                 /\ pc'[q] = "write" /\ kind'[q] \in UpdateKinds => Follows(seen'[q], row'[q])
        BY <1>1 DEF RepairInvariant, Prepared
    <2>6. /\ kind'[p] # "delete" => row'[p].updatedAt = now'[p] /\ Exists(row'[p])
          /\ kind'[p] \in UpdateKinds => Follows(seen'[p], row'[p])
        BY <1>1, <2>3, <2>4 DEF UpdateKinds
    <2> QED BY <2>5, <2>6 DEF Prepared
<1>5. InsertsFresh'
    BY <1>1 DEF RepairInvariant, InsertsFresh, Inserting, InsertKinds, UpdateKinds
<1>6. Unminted'
    BY <1>1 DEF RepairInvariant, Unminted
<1>7. VersionsAgree'
    BY <1>1 DEF RepairInvariant, VersionsAgree, SameVersion
<1> QED BY <1>3, <1>4, <1>5, <1>6, <1>7 DEF RepairInvariant

LEMMA CreateSound ==
    ASSUME RepairInvariant, TypeOK', NEW p \in Requests, StartCreate(p)
    PROVE  RepairInvariant'
<1>1. PICK i \in Ids \ minted, b \in CreateBody :
          /\ minted' = minted \cup {i}
          /\ tgt' = [tgt EXCEPT ![p] = i]
          /\ row' = [row EXCEPT ![p] =
                        NewRow(b.status, b.occurredAt, b.plannedAt, FALSE, clock + 1)]
    BY DEF StartCreate
<1> DEFINE w == NewRow(b.status, b.occurredAt, b.plannedAt, FALSE, clock + 1)
<1>2. /\ b.status \in {"planned", "posted"} /\ b.occurredAt \in Nat /\ b.plannedAt \in Nat
      /\ clock + 1 \in Nat
    BY CreateBodyTyped DEF RepairInvariant, TypeOK
<1>3. w \in Row
    BY <1>2, NewRowTyped
<1>4. ReadClock(p) /\ now'[p] = clock + 1
    BY DEF StartCreate, ReadClock, RepairInvariant, TypeOK
<1>5. w.updatedAt = now'[p] /\ Exists(w)
    BY <1>2, <1>4 DEF NewRow, Exists
<1> HIDE DEF w
<1> QED BY <1>1, <1>3, <1>4, <1>5, InsertPrepared DEF StartCreate, InsertKinds, w

LEMMA FindSound ==
    ASSUME RepairInvariant, TypeOK', NEW p \in Requests, Find(p)
    PROVE  RepairInvariant'
<1>0. TypeOK /\ pc[p] = "find" /\ UNCHANGED <<transactions, kind, job>>
    BY DEF Find, RepairInvariant
<1>1. CASE Fail(p)
    BY <1>0, <1>1, AbortSound DEF Fail
<1>2. CASE kind[p] \in UpdateKinds /\ ~Fail(p)
    <2>1. PICK w \in Row : /\ Prepare(p, w)
                           /\ w.updatedAt = now'[p]
                           /\ now'[p] # 0 => Follows(transactions[tgt[p]], w)
        BY <1>0, <1>2, FindUpdate
    <2>2. (UNCHANGED <<clock, now>> /\ HoldsTime(p)) \/ ReadClock(p)
        BY <1>0, <1>2, FindUpdate DEF HoldsTime
    <2>3. UNCHANGED <<minted, tgt>> /\ Exists(transactions[tgt[p]])
        BY <1>0, <1>2, FindUpdate
    <2> QED BY <1>0, <1>2, <2>1, <2>2, <2>3, ChangePrepared
<1>3. CASE kind[p] = "delete" /\ ~Fail(p)
    BY <1>0, <1>3, FindDelete, NoRowTyped, ChangePrepared
<1>4. CASE kind[p] = "duplicate" /\ ~Fail(p)
    <2>1. PICK i \in Ids \ minted, w \in Row :
              /\ minted' = minted \cup {i}
              /\ tgt' = [tgt EXCEPT ![p] = i]
              /\ row' = [row EXCEPT ![p] = w]
              /\ w.updatedAt = now[p] /\ Exists(w)
        BY <1>0, <1>4, FindDuplicate
    <2>2. Goto(p, "write") /\ UNCHANGED <<clock, now, seen>>
        BY <1>0, <1>4, FindDuplicate
    <2>3. HoldsTime(p) /\ kind[p] \in InsertKinds
        BY <1>0, <1>4 DEF HoldsTime, InsertKinds
    <2> QED BY <1>0, <2>1, <2>2, <2>3, InsertPrepared
<1> QED BY <1>0, <1>1, <1>2, <1>3, <1>4, FindKinds

----------------------------------------------------------------------------
\* What a request may leave in its row: what was there, nothing, or a version with its own
\* clock reading, which is in the format if the version before was.
LEMMA WriteCases ==
    ASSUME RepairInvariant, NEW p \in Requests, Write(p)
    PROVE  \E r \in Row :
             /\ transactions' = [transactions EXCEPT ![tgt[p]] = r]
             /\ \/ r = transactions[tgt[p]]
                \/ r.updatedAt = 0 /\ ~Exists(r)
                \/ /\ HoldsTime(p) /\ r.updatedAt = now[p]
                   /\ Inserting(p) \/ (NeedsFix(r) => NeedsFix(transactions[tgt[p]]))
<1> DEFINE s == transactions[tgt[p]]
<1>0. /\ pc[p] = "write" /\ tgt[p] \in Ids /\ row[p] \in Row /\ seen[p] \in Row /\ s \in Row
      /\ transactions \in [Ids -> Row]
      /\ Prepared /\ VersionsAgree
    BY DEF Write, RepairInvariant, TypeOK
<1>1. CASE UNCHANGED transactions
    BY <1>0, <1>1
<1>2. CASE Insert(p)
    <2>1. HoldsTime(p) /\ row[p].updatedAt = now[p] /\ Inserting(p)
        BY <1>0, <1>2 DEF Insert, HoldsTime, Prepared, Inserting, InsertKinds
    <2> QED BY <1>0, <1>2, <2>1 DEF Insert, Store
<1>3. CASE Update(p) /\ SameVersion(s, seen[p])
    <2> DEFINE r == [row[p] EXCEPT !.reserved = s.reserved]
    <2>1. HoldsTime(p) /\ row[p].updatedAt = now[p] /\ Follows(seen[p], row[p])
        BY <1>0, <1>3 DEF Update, HoldsTime, Prepared, UpdateKinds
    <2>2. seen[p] = s
        BY <1>0, <1>3 DEF Update, VersionsAgree, UpdateKinds, InsertKinds
    <2>3. r = row[p]
        BY <1>0, <2>1, <2>2 DEF Follows, Row
    <2>4. NeedsFix(r) => NeedsFix(s)
        BY <2>1, <2>2, <2>3 DEF Follows
    <2>5. transactions' = [transactions EXCEPT ![tgt[p]] = r]
        BY <1>3 DEF Update, Store
    <2> QED BY <1>0, <2>1, <2>3, <2>4, <2>5
<1>4. CASE Delete(p)
    <2>1. NoRow.updatedAt = 0
        BY DEF NoRow
    <2> QED BY <1>0, <1>1, <1>4, <2>1, NoRowTyped DEF Delete, Store
<1> QED BY <1>1, <1>2, <1>3, <1>4 DEF Write, Update

LEMMA WriteSound ==
    ASSUME RepairInvariant, TypeOK', NEW p \in Requests, Write(p)
    PROVE  RepairInvariant'
<1> DEFINE i == tgt[p]
<1>0. /\ TypeOK /\ TimesPast /\ TimesSet /\ TimesFresh /\ Prepared /\ InsertsFresh /\ Unminted
      /\ VersionsAgree /\ CopiesAlign /\ ReportTrue
    BY DEF RepairInvariant
<1>1. /\ pc[p] = "write" /\ i \in Ids /\ UNCHANGED <<clock, minted, kind, tgt, now, seen, row, job>>
      /\ pc'[p] = "done" /\ \A q \in Requests \ {p} : pc'[q] = pc[q]
    BY <1>0 DEF Write, Goto, TypeOK
<1>2. PICK r \in Row :
         /\ transactions' = [transactions EXCEPT ![i] = r]
         /\ \/ r = transactions[i]
            \/ r.updatedAt = 0 /\ ~Exists(r)
            \/ /\ HoldsTime(p) /\ r.updatedAt = now[p]
               /\ Inserting(p) \/ (NeedsFix(r) => NeedsFix(transactions[i]))
    BY WriteCases
<1>3. transactions'[i] = r /\ \A j \in Ids \ {i} : transactions'[j] = transactions[j]
    BY <1>0, <1>1, <1>2 DEF TypeOK
<1>4. TimesPast'
    <2>1. r.updatedAt <= clock
        BY <1>0, <1>1, <1>2 DEF TimesPast, TypeOK
    <2> QED BY <1>0, <1>1, <1>3, <2>1 DEF TimesPast
<1>5. TimesSet'
    <2>1. HoldsTime(p) => now[p] # 0
        BY <1>0 DEF TimesFresh
    <2>2. Exists(r) => r.updatedAt # 0
        BY <1>0, <1>1, <1>2, <2>1 DEF TimesSet, Exists
    <2> QED BY <1>0, <1>1, <1>3, <2>2 DEF TimesSet, Exists
<1>6. TimesFresh'
    <2>1. ~HoldsTime(p)' /\ \A q \in Requests \ {p} : HoldsTime(q)' = HoldsTime(q)
        BY <1>1 DEF HoldsTime
    <2>2. ASSUME NEW q \in Requests \ {p}, HoldsTime(q) PROVE r.updatedAt # now[q]
        BY <1>0, <1>1, <1>2, <2>2 DEF TimesFresh
    <2> QED BY <1>0, <1>1, <1>3, <2>1, <2>2 DEF TimesFresh
<1>7. Prepared'
    BY <1>0, <1>1 DEF Prepared
<1>8. InsertsFresh'
    <2> SUFFICES ASSUME NEW q \in Requests, Inserting(q)'
                 PROVE  /\ tgt'[q] \in minted'
                        /\ ~Exists(transactions'[tgt'[q]]) /\ ~Exists(job'.batch[tgt'[q]])
                        /\ job'.outcome[tgt'[q]] = "none"
                        /\ \A u \in Requests \ {q} : pc'[u] = "write" => tgt'[u] # tgt'[q]
        BY DEF InsertsFresh
    <2>1. q # p /\ Inserting(q) /\ tgt[q] \in Ids
        BY <1>0, <1>1 DEF Inserting, TypeOK
    <2> QED BY <1>0, <1>1, <1>3, <2>1 DEF InsertsFresh
<1>9. Unminted'
    BY <1>0, <1>1, <1>3 DEF Unminted
<1>10. VersionsAgree'
    <2>1. ASSUME NEW j \in Ids \ {i}
          PROVE  /\ SameVersion(transactions'[j], job'.batch[j]) => job'.batch[j] = transactions'[j]
                 /\ \A q \in Requests : /\ pc'[q] = "write" /\ kind'[q] \notin InsertKinds
                                        /\ tgt'[q] = j /\ SameVersion(transactions'[j], seen'[q])
                                        => seen'[q] = transactions'[j]
        BY <1>0, <1>1, <1>3 DEF VersionsAgree, SameVersion
    <2>2. /\ SameVersion(transactions'[i], job'.batch[i]) => job'.batch[i] = transactions'[i]
          /\ \A q \in Requests : /\ pc'[q] = "write" /\ kind'[q] \notin InsertKinds
                                 /\ tgt'[q] = i /\ SameVersion(transactions'[i], seen'[q])
                                 => seen'[q] = transactions'[i]
        BY <1>0, <1>1, <1>2, <1>3 DEF VersionsAgree, SameVersion, TimesFresh
    <2> QED BY <1>1, <2>1, <2>2 DEF VersionsAgree
<1>11. ~NeedsFix(transactions[i]) /\ ~Inserting(p) => ~NeedsFix(r)
    BY <1>2 DEF NeedsFix
<1>12. Inserting(p) => ~Exists(job.batch[i]) /\ job.outcome[i] = "none"
    BY <1>0 DEF InsertsFresh
<1>13. CopiesAlign'
    BY <1>0, <1>1, <1>3, <1>11, <1>12 DEF CopiesAlign
<1>14. ReportTrue'
    BY <1>0, <1>1, <1>3, <1>11, <1>12 DEF ReportTrue
<1> QED BY <1>4, <1>5, <1>6, <1>7, <1>8, <1>9, <1>10, <1>13, <1>14 DEF RepairInvariant

LEMMA RequestSound ==
    ASSUME RepairInvariant, TypeOK', NEW p \in Requests, Request(p)
    PROVE  RepairInvariant'
<1>1. Abort(p) => RepairInvariant'
    BY AbortSound DEF Abort
<1> QED BY <1>1, StartSound, CreateSound, FindSound, WriteSound DEF Request

----------------------------------------------------------------------------
\* A step of the job that leaves the table as it is and takes, at most, copies from it.
LEMMA JobReads ==
    ASSUME RepairInvariant, TypeOK',
           UNCHANGED <<transactions, clock, minted, requestVars>>,
           \A i \in Ids : /\ \/ job'.batch[i] = job.batch[i]
                             \/ job'.batch[i] = transactions[i]
                             \/ job'.batch[i] = NoRow
                          /\ job'.outcome[i] \in {job.outcome[i], "none"}
    PROVE  RepairInvariant'
<1>0. /\ TypeOK /\ TimesPast /\ TimesSet /\ TimesFresh /\ Prepared /\ InsertsFresh /\ Unminted
      /\ VersionsAgree /\ CopiesAlign /\ ReportTrue
    BY DEF RepairInvariant
<1>1. NoRow.updatedAt = 0 /\ ~Exists(NoRow)
    BY DEF NoRow, Exists
<1>2. UNCHANGED <<kind, pc, tgt, now, seen, row>>
    BY DEF requestVars
<1>3. TimesPast' /\ TimesSet'
    <2>1. clock \in Nat
        BY <1>0 DEF TypeOK
    <2>2. ASSUME NEW i \in Ids
          PROVE  /\ job'.batch[i].updatedAt <= clock
                 /\ Exists(job'.batch[i]) => job'.batch[i].updatedAt # 0
        BY <1>0, <1>1, <2>1 DEF TimesPast, TimesSet, Exists
    <2>3. TimesPast'
        BY <1>0, <1>2, <2>2 DEF TimesPast
    <2>4. TimesSet'
        BY <1>0, <2>2 DEF TimesSet
    <2> QED BY <2>3, <2>4
<1>4. TimesFresh'
    BY <1>0, <1>1, <1>2 DEF TimesFresh, HoldsTime
<1>5. Prepared'
    BY <1>0, <1>2 DEF Prepared
<1>6. InsertsFresh'
    <2> SUFFICES ASSUME NEW p \in Requests, Inserting(p)
                 PROVE  ~Exists(job'.batch[tgt[p]]) /\ job'.outcome[tgt[p]] = "none"
        BY <1>0, <1>2 DEF InsertsFresh, Inserting
    <2>1. tgt[p] \in Ids
        BY <1>0 DEF Inserting, TypeOK
    <2> QED BY <1>0, <1>1, <2>1 DEF InsertsFresh
<1>7. Unminted'
    BY <1>0, <1>1, <1>2 DEF Unminted
<1>8. VersionsAgree'
    BY <1>0, <1>1, <1>2 DEF VersionsAgree, SameVersion, TimesSet, Exists
<1>9. CopiesAlign'
    BY <1>0, <1>1, <1>2 DEF CopiesAlign
<1>10. ReportTrue'
    BY <1>0 DEF ReportTrue
<1> QED BY <1>3, <1>4, <1>5, <1>6, <1>7, <1>8, <1>9, <1>10 DEF RepairInvariant

\* The patch of a row brings it into the format and leaves the rest of it alone.
LEMMA PatchSound ==
    ASSUME NEW r \in Row, NEW time \in Nat, Exists(r), r.updatedAt # 0
    PROVE  LET w == Patched(r, r, time) IN
           /\ w \in Row /\ Exists(w) /\ w.updatedAt = time
           /\ ~NeedsFix(w)
           /\ SameBusiness(r, w)
<1> DEFINE w == Patched(r, r, time)
<1>1. w \in Row
    BY PatchedTyped
<1>2. /\ w.status = r.status /\ w.occurredAt = r.occurredAt /\ w.plannedAt = r.plannedAt
      /\ w.createdAt = r.createdAt /\ ~w.income /\ ~w.reserved /\ w.updatedAt = time
      /\ w.postedAt = PatchedPostedAt(r) /\ w.cancelledAt = PatchedCancelledAt(r)
    BY DEF Patched, Row
<1>3. r.status \in {"planned", "posted", "cancelled"}
    BY DEF Row, Statuses, Exists
<1>4. TimestampsFit(w)
    BY <1>2, <1>3 DEF TimestampsFit, PatchedPostedAt, PatchedCancelledAt
<1>5. Exists(w) /\ ~NeedsFix(w)
    BY <1>2, <1>4 DEF Exists, NeedsFix
<1>6. SameBusiness(r, w)
    BY <1>2, <1>3 DEF SameBusiness, PatchedPostedAt, PatchedCancelledAt
<1> QED BY <1>1, <1>2, <1>5, <1>6

\* What the job may do with a row of its batch: leave it, and report it as in the format only
\* if it is, or replace the very version it has read by one that is in the format.
JobRowCases(i, r, result) ==
    /\ transactions' = [transactions EXCEPT ![i] = r]
    /\ Exists(job.batch[i])
    /\ Record(i, result)
    /\ \/ /\ r = transactions[i]
          /\ clock' \in {clock, clock + 1}
          /\ result \in {"skipped", "repaired"} => ~NeedsFix(r)
       \/ /\ Exists(r) /\ r.updatedAt = clock + 1
          /\ clock' = clock + 1
          /\ transactions[i] = job.batch[i]
          /\ NeedsFix(transactions[i]) /\ ~NeedsFix(r)
          /\ SameBusiness(transactions[i], r)

LEMMA JobRowSplits ==
    ASSUME RepairInvariant, NEW i \in Ids, JobSkip(i) \/ JobApply(i) \/ JobApplyFails(i)
    PROVE  \E r \in Row, result \in Outcomes : JobRowCases(i, r, result)
<1>0. /\ transactions \in [Ids -> Row] /\ clock \in Nat /\ transactions[i] \in Row
      /\ transactions = [transactions EXCEPT ![i] = transactions[i]]
      /\ VersionsAgree /\ TimesSet /\ CopiesAlign
    BY DEF RepairInvariant, TypeOK
<1>1. Exists(job.batch[i])
    BY DEF JobSkip, JobApply, JobApplyFails, Head, Pending
<1>2. CASE JobSkip(i)
    <2> DEFINE result == IF job.dry /\ NeedsFix(job.batch[i]) THEN "reported" ELSE "skipped"
    <2>1. Record(i, result) /\ UNCHANGED <<transactions, clock>> /\ result \in Outcomes
        BY <1>2 DEF JobSkip, Outcomes
    <2>2. result \in {"skipped", "repaired"} => ~NeedsFix(transactions[i])
        BY <1>0, <1>1, <1>2 DEF JobSkip, CopiesAlign
    <2>3. JobRowCases(i, transactions[i], result)
        BY <1>0, <1>1, <2>1, <2>2 DEF JobRowCases
    <2> QED BY <1>0, <2>1, <2>3
<1>3. ASSUME ApplyPatch(i), Matches(i), clock' = clock + 1, NeedsFix(job.batch[i]),
             NEW result \in Outcomes, Record(i, result)
      PROVE  \E r \in Row : JobRowCases(i, r, result)
    <2> DEFINE r == Patched(transactions[i], transactions[i], clock + 1)
    <2>1. job.batch[i] = transactions[i] /\ transactions[i].updatedAt # 0
        BY <1>0, <1>1, <1>3 DEF Matches, VersionsAgree, TimesSet, Exists
    <2>2. /\ r \in Row /\ Exists(r) /\ r.updatedAt = clock + 1
          /\ ~NeedsFix(r) /\ SameBusiness(transactions[i], r)
        BY <1>0, <1>1, <2>1, PatchSound
    <2>3. transactions' = [transactions EXCEPT ![i] = r]
        BY <1>3, <2>1 DEF ApplyPatch, Store
    <2> HIDE DEF r
    <2>4. JobRowCases(i, r, result)
        BY <1>1, <1>3, <2>1, <2>2, <2>3 DEF JobRowCases
    <2> QED BY <2>2, <2>4
<1>4. ASSUME UNCHANGED transactions, clock' = clock + 1,
             NEW result \in Outcomes \ {"skipped", "repaired"}, Record(i, result)
      PROVE  \E r \in Row : JobRowCases(i, r, result)
    BY <1>0, <1>1, <1>4 DEF JobRowCases
<1>5. ApplyPatch(i) /\ ~Matches(i) => UNCHANGED transactions
    BY <1>0 DEF ApplyPatch, Store
<1>6. "repaired" \in Outcomes /\ {"conflict", "error"} \subseteq Outcomes \ {"skipped", "repaired"}
    BY DEF Outcomes
<1>7. CASE JobApply(i)
    BY <1>3, <1>4, <1>5, <1>6, <1>7 DEF JobApply
<1>8. CASE JobApplyFails(i)
    BY <1>3, <1>4, <1>5, <1>6, <1>8 DEF JobApplyFails
<1> QED BY <1>2, <1>7, <1>8

LEMMA JobRowSound ==
    ASSUME RepairInvariant, TypeOK', JobRow
    PROVE  RepairInvariant'
<1>0. /\ TypeOK /\ TimesPast /\ TimesSet /\ TimesFresh /\ Prepared /\ InsertsFresh /\ Unminted
      /\ VersionsAgree /\ CopiesAlign /\ ReportTrue
    BY DEF RepairInvariant
<1>1. PICK i \in Ids : JobSkip(i) \/ JobApply(i) \/ JobApplyFails(i)
    BY DEF JobRow
<1>2. PICK r \in Row, result \in Outcomes : JobRowCases(i, r, result)
    BY <1>1, JobRowSplits
<1>3. UNCHANGED <<minted, kind, pc, tgt, now, seen, row>>
    BY DEF JobRow, requestVars
<1>4. /\ transactions'[i] = r /\ job'.batch[i] = NoRow /\ job'.outcome[i] = result
      /\ \A j \in Ids \ {i} : /\ transactions'[j] = transactions[j]
                              /\ job'.batch[j] = job.batch[j]
                              /\ job'.outcome[j] = job.outcome[j]
    BY <1>0, <1>2 DEF JobRowCases, Record, TypeOK
<1>5. NoRow.updatedAt = 0 /\ ~Exists(NoRow)
    BY DEF NoRow, Exists
<1>6. clock \in Nat /\ clock' \in {clock, clock + 1}
    BY <1>0, <1>2 DEF JobRowCases, TypeOK
<1>7. \/ r = transactions[i]
      \/ Exists(r) /\ r.updatedAt = clock + 1 /\ clock' = clock + 1
    BY <1>2 DEF JobRowCases
<1>8. now \in [Requests -> Nat] /\ seen \in [Requests -> Row]
      /\ \A j \in Ids : transactions[j] \in Row /\ job.batch[j] \in Row
    BY <1>0 DEF TypeOK
<1>9. /\ \A p \in Requests : now[p] \in Nat /\ seen[p].updatedAt \in Nat
      /\ \A j \in Ids : transactions[j].updatedAt \in Nat /\ job.batch[j].updatedAt \in Nat
    BY <1>8 DEF Row
<1>10. TimesPast'
    BY <1>0, <1>3, <1>4, <1>5, <1>6, <1>7, <1>9 DEF TimesPast
<1>11. TimesSet'
    BY <1>0, <1>4, <1>5, <1>6, <1>7 DEF TimesSet
<1>12. TimesFresh'
    <2>1. ASSUME NEW p \in Requests, HoldsTime(p)
          PROVE  r.updatedAt # now[p] /\ NoRow.updatedAt # now[p]
        BY <1>0, <1>5, <1>6, <1>7, <1>9, <2>1 DEF TimesFresh, TimesPast
    <2>2. \A p \in Requests : HoldsTime(p)' <=> HoldsTime(p)
        BY <1>3 DEF HoldsTime
    <2> QED BY <1>0, <1>3, <1>4, <2>1, <2>2 DEF TimesFresh
<1>13. Prepared'
    BY <1>0, <1>3 DEF Prepared
<1>14. i \in minted /\ \A p \in Requests : Inserting(p) => tgt[p] # i
    BY <1>0, <1>2 DEF JobRowCases, Unminted, InsertsFresh
<1>15. InsertsFresh'
    <2>1. \A p \in Requests : Inserting(p) => tgt[p] \in Ids
        BY <1>0 DEF Inserting, TypeOK
    <2> QED BY <1>0, <1>3, <1>4, <1>14, <2>1 DEF InsertsFresh, Inserting
<1>16. Unminted'
    BY <1>0, <1>3, <1>4, <1>14 DEF Unminted
<1>17. VersionsAgree'
    <2>1. ASSUME NEW j \in Ids \ {i}
          PROVE  /\ SameVersion(transactions'[j], job'.batch[j]) => job'.batch[j] = transactions'[j]
                 /\ \A p \in Requests : /\ pc'[p] = "write" /\ kind'[p] \notin InsertKinds
                                        /\ tgt'[p] = j /\ SameVersion(transactions'[j], seen'[p])
                                        => seen'[p] = transactions'[j]
        BY <1>0, <1>3, <1>4 DEF VersionsAgree
    <2>2. ~SameVersion(r, NoRow)
        BY <1>4, <1>5, <1>11 DEF TimesSet, Exists, SameVersion
    <2>3. ASSUME NEW p \in Requests, r # transactions[i]
          PROVE  ~SameVersion(r, seen[p])
        BY <1>0, <1>6, <1>7, <1>9, <2>3 DEF TimesPast, SameVersion
    <2>4. \A p \in Requests : /\ pc'[p] = "write" /\ kind'[p] \notin InsertKinds
                              /\ tgt'[p] = i /\ SameVersion(transactions'[i], seen'[p])
                              => seen'[p] = transactions'[i]
        BY <1>0, <1>3, <1>4, <2>3 DEF VersionsAgree
    <2> QED BY <1>4, <2>1, <2>2, <2>4 DEF VersionsAgree
<1>18. CopiesAlign'
    BY <1>0, <1>4, <1>5 DEF CopiesAlign
<1>19. result \in {"skipped", "repaired"} => ~NeedsFix(r)
    BY <1>2 DEF JobRowCases
<1>20. ReportTrue'
    BY <1>0, <1>4, <1>19 DEF ReportTrue
<1> QED BY <1>10, <1>11, <1>12, <1>13, <1>15, <1>16, <1>17, <1>18, <1>20 DEF RepairInvariant

LEMMA JobSound ==
    ASSUME RepairInvariant, TypeOK', JobStart \/ JobStep \/ JobStop
    PROVE  RepairInvariant'
<1>0. job \in [phase : {"idle", "fetch", "rows", "done", "stopped"}, runs : Nat, dry : BOOLEAN,
               limit : Nat, last : Ids \cup {0}, batch : [Ids -> Row],
               outcome : [Ids -> Outcomes]]
    BY DEF RepairInvariant, TypeOK
<1>1. CASE JobStart
    <2>1. \A i \in Ids : job'.batch[i] = NoRow /\ job'.outcome[i] = "none"
        <3>1. PICK o \in Options :
                 job' = [Idle EXCEPT !.phase = "fetch", !.runs = job.runs + 1, !.dry = o.dry,
                                     !.limit = o.limit]
            BY <1>1 DEF JobStart
        <3>2. job'.batch = Idle.batch /\ job'.outcome = Idle.outcome
            BY <3>1, IdleTyped
        <3> QED BY <3>2 DEF Idle
    <2>2. UNCHANGED <<transactions, clock, minted, requestVars>>
        BY <1>1 DEF JobStart
    <2> QED BY <2>1, <2>2, JobReads
<1>2. CASE JobFetch
    <2>1. \A i \in Ids : /\ \/ job'.batch[i] = job.batch[i]
                            \/ job'.batch[i] = transactions[i]
                            \/ job'.batch[i] = NoRow
                         /\ job'.outcome[i] = job.outcome[i]
        BY <1>0, <1>2 DEF JobFetch
    <2>2. UNCHANGED <<transactions, clock, minted, requestVars>>
        BY <1>2 DEF JobFetch
    <2> QED BY <2>1, <2>2, JobReads
<1>3. CASE JobStop
    <2>1. job'.batch = job.batch /\ job'.outcome = job.outcome
        BY <1>0, <1>3 DEF JobStop
    <2>2. UNCHANGED <<transactions, clock, minted, requestVars>>
        BY <1>3 DEF JobStop
    <2> QED BY <2>1, <2>2, JobReads
<1> QED BY <1>1, <1>2, <1>3, JobRowSound DEF JobStep

LEMMA InvariantStep == RepairInvariant /\ [Next]_vars => RepairInvariant'
<1> SUFFICES ASSUME RepairInvariant, [Next]_vars PROVE RepairInvariant'
    OBVIOUS
<1>1. TypeOK'
    BY TypeStep DEF RepairInvariant
<1>2. CASE UNCHANGED vars
    BY <1>2 DEF vars, requestVars, RepairInvariant, TypeOK, TimesPast, TimesSet, TimesFresh,
                HoldsTime, Prepared, InsertsFresh, Inserting, Unminted, VersionsAgree,
                CopiesAlign, ReportTrue
<1> QED BY <1>1, <1>2, RequestSound, JobSound DEF Next

\* However requests and runs of the job interleave, a version of a row is told from every
\* other by its updated_at, so that the copies held by requests and by the job are either
\* recognised as stale or are the row itself.
THEOREM RepairInductive == Spec => []RepairInvariant
<1> QED BY InvariantInit, InvariantStep, PTL DEF Spec

\* The report never calls a row skipped or repaired that is out of the format, although the
\* requests go on writing while the job runs and after it.
THEOREM ReportHolds == Spec => []ReportTrue
<1>1. RepairInvariant => ReportTrue
    BY DEF RepairInvariant
<1> QED BY <1>1, RepairInductive, PTL

----------------------------------------------------------------------------
LEMMA StepKeepsFormat ==
    ASSUME RepairInvariant, [Next]_vars, NEW i \in Ids,
           Exists(transactions[i]), ~NeedsFix(transactions[i])
    PROVE  ~NeedsFix(transactions'[i])
<1>0. transactions \in [Ids -> Row]
    BY DEF RepairInvariant, TypeOK
<1>1. CASE UNCHANGED transactions
    BY <1>1 DEF NeedsFix, TimestampsFit, Exists
<1>2. ASSUME NEW p \in Requests, Write(p) PROVE ~NeedsFix(transactions'[i])
    <2>1. PICK r \in Row :
             /\ transactions' = [transactions EXCEPT ![tgt[p]] = r]
             /\ \/ r = transactions[tgt[p]]
                \/ r.updatedAt = 0 /\ ~Exists(r)
                \/ /\ HoldsTime(p) /\ r.updatedAt = now[p]
                   /\ Inserting(p) \/ (NeedsFix(r) => NeedsFix(transactions[tgt[p]]))
        BY <1>2, WriteCases
    <2>2. Inserting(p) => ~Exists(transactions[tgt[p]])
        BY DEF RepairInvariant, InsertsFresh
    <2>3. CASE tgt[p] = i
        <3>1. ~NeedsFix(r)
            BY <2>1, <2>2, <2>3 DEF NeedsFix
        <3> QED BY <1>0, <2>1, <2>3, <3>1
    <2>4. CASE tgt[p] # i
        BY <1>0, <2>1, <2>4
    <2> QED BY <2>3, <2>4
<1>3. CASE JobRow
    <2>1. PICK j \in Ids : JobSkip(j) \/ JobApply(j) \/ JobApplyFails(j)
        BY <1>3 DEF JobRow
    <2>2. PICK r \in Row, result \in Outcomes : JobRowCases(j, r, result)
        BY <2>1, JobRowSplits
    <2> QED BY <1>0, <2>2 DEF JobRowCases
<1>4. \/ UNCHANGED transactions
      \/ \E p \in Requests : Write(p)
      \/ JobRow
    BY DEF Next, vars, Request, Start, StartCreate, Find, Abort, JobStart, JobStep, JobFetch,
           JobStop
<1> QED BY <1>1, <1>2, <1>3, <1>4

\* No request and no run of the job takes a row out of the format, even one that writes back
\* a row it has read long ago.
THEOREM FormatKept == Spec => AlignedForGood
<1>1. RepairInvariant /\ [Next]_vars
          => [\A i \in Ids : Exists(transactions[i]) /\ ~NeedsFix(transactions[i])
                               => ~NeedsFix(transactions'[i])]_vars
    BY StepKeepsFormat
<1> QED BY <1>1, RepairInductive, PTL DEF Spec, AlignedForGood

LEMMA StepRepairs ==
    ASSUME RepairInvariant, [Next]_vars, NEW i \in Ids, job' # job,
           transactions'[i] # transactions[i]
    PROVE  /\ transactions[i] = job.batch[i]
           /\ NeedsFix(transactions[i]) /\ ~NeedsFix(transactions'[i])
           /\ SameBusiness(transactions[i], transactions'[i])
<1>0. transactions \in [Ids -> Row]
    BY DEF RepairInvariant, TypeOK
<1>1. JobRow
    BY DEF Next, vars, Request, Start, StartCreate, Find, Write, Abort, JobStart, JobStep,
           JobFetch, JobStop
<1>2. PICK j \in Ids : JobSkip(j) \/ JobApply(j) \/ JobApplyFails(j)
    BY <1>1 DEF JobRow
<1>3. PICK r \in Row, result \in Outcomes : JobRowCases(j, r, result)
    BY <1>2, JobRowSplits
<1>4. i = j /\ transactions'[i] = r
    BY <1>0, <1>3 DEF JobRowCases
<1> QED BY <1>3, <1>4 DEF JobRowCases

\* The job changes a row only from exactly what it has read, only if that was out of the
\* format, and only in what is a matter of format.
THEOREM RepairsAreSound == Spec => RepairSound
<1>1. RepairInvariant /\ [Next]_vars
          => [\A i \in Ids : job' # job /\ transactions'[i] # transactions[i] =>
                 /\ transactions[i] = job.batch[i]
                 /\ NeedsFix(transactions[i]) /\ ~NeedsFix(transactions'[i])
                 /\ SameBusiness(transactions[i], transactions'[i])]_vars
    BY StepRepairs
<1> QED BY <1>1, RepairInductive, PTL DEF Spec, RepairSound

----------------------------------------------------------------------------
(***************************************************************************)
(* How a run pages through the table: the n smallest ids of a set are the  *)
(* lower end of it, and at most n.                                         *)
(***************************************************************************)
Earlier == {pair \in Nat \X Nat : pair[1] < pair[2]}

LEMMA HasLeast ==
    ASSUME NEW T \in SUBSET Nat, T # {}
    PROVE  \E x \in T : \A y \in T : x <= y
<1>1. IsWellFoundedOn(Earlier, Nat)
    BY NatLessThanWellFounded DEF OpToRel, Earlier
<1>2. \E x \in T : \A y \in T : ~(<<y, x>> \in Earlier)
    BY <1>1, WFMin
<1>3. PICK x \in T : \A y \in T : <<y, x>> \notin Earlier
    BY <1>2
<1>4. \A y \in T : y \in Nat /\ x \in Nat /\ ~(y < x)
    BY <1>3 DEF Earlier
<1> QED BY <1>4

LEMMA HasGreatest ==
    ASSUME NEW F \in SUBSET Nat, IsFiniteSet(F), F # {}
    PROVE  \E m \in F : \A j \in F : j <= m
<1> DEFINE above(m) == {j \in F : m < j}
           T == {Cardinality(above(m)) : m \in F}
<1>1. \A m \in F : IsFiniteSet(above(m)) /\ Cardinality(above(m)) \in Nat
    <2> TAKE m \in F
    <2>1. above(m) \in SUBSET F
        OBVIOUS
    <2>2. IsFiniteSet(above(m))
        BY <2>1, FS_Subset
    <2> QED BY <2>2, FS_CardinalityType
<1>2. T \in SUBSET Nat /\ T # {}
    BY <1>1
<1>3. PICK m \in F : \A k \in F : Cardinality(above(m)) <= Cardinality(above(k))
    <2>1. PICK x \in T : \A y \in T : x <= y
        BY <1>2, HasLeast
    <2>2. PICK m \in F : x = Cardinality(above(m))
        BY <2>1
    <2> QED BY <2>1, <2>2
<1>4. ASSUME NEW j \in F, m < j PROVE FALSE
    <2>1. above(j) \in SUBSET above(m) /\ j \in above(m) /\ j \notin above(j)
        <3>1. F \subseteq Nat /\ j \in Nat /\ m \in Nat
            OBVIOUS
        <3>2. \A k \in F : j < k => m < k
            BY <1>4, <3>1
        <3>3. ~(j < j)
            BY <3>1
        <3> QED BY <1>4, <3>2, <3>3
    <2>2. Cardinality(above(j)) <= Cardinality(above(m)) /\ above(j) # above(m)
        BY <1>1, <2>1, FS_Subset
    <2>3. Cardinality(above(j)) # Cardinality(above(m))
        BY <1>1, <2>1, <2>2, FS_Subset
    <2> QED BY <1>1, <1>3, <2>2, <2>3
<1> QED BY <1>4

LEMMA FirstBound ==
    ASSUME NEW S \in SUBSET Nat, IsFiniteSet(S), NEW n \in Nat
    PROVE  IsFiniteSet(First(S, n)) /\ Cardinality(First(S, n)) <= n
<1> DEFINE F == First(S, n)
<1>1. F \in SUBSET S /\ IsFiniteSet(F) /\ Cardinality(F) \in Nat
    <2>1. F \in SUBSET S
        BY DEF First
    <2>2. IsFiniteSet(F)
        BY <2>1, FS_Subset
    <2> QED BY <2>1, <2>2, FS_CardinalityType
<1>2. CASE F = {}
    BY <1>1, <1>2, FS_EmptySet
<1>3. CASE F # {}
    <2>1. PICK m \in F : \A j \in F : j <= m
        BY <1>1, <1>3, HasGreatest
    <2> DEFINE below == {j \in S : j < m}
    <2>2. IsFiniteSet(below) /\ Cardinality(below) \in Nat /\ Cardinality(below) < n
        <3>1. below \in SUBSET S
            OBVIOUS
        <3>2. IsFiniteSet(below)
            BY <3>1, FS_Subset
        <3> QED BY <3>2, FS_CardinalityType DEF First
    <2>3. F \ {m} \in SUBSET below
        <3>1. F \subseteq Nat /\ F \subseteq S
            BY <1>1
        <3>2. \A j \in F \ {m} : j < m
            BY <2>1, <3>1
        <3> QED BY <3>1, <3>2
    <2>4. Cardinality(F \ {m}) <= Cardinality(below)
        BY <2>2, <2>3, FS_Subset
    <2>5. Cardinality(F \ {m}) = Cardinality(F) - 1
        BY <1>1, <2>1, FS_RemoveElement
    <2> QED BY <1>1, <2>2, <2>4, <2>5
<1> QED BY <1>1, <1>2, <1>3

LEMMA FirstIsLowerEnd ==
    ASSUME NEW S \in SUBSET Nat, IsFiniteSet(S), NEW n \in Nat
    PROVE  /\ First(S, n) \in SUBSET S
           /\ \A j \in First(S, n), i \in S : i < j => i \in First(S, n)
           /\ n # 0 /\ S # {} => First(S, n) # {}
<1> DEFINE below(i) == {k \in S : k < i}
<1>0. \A i \in S : IsFiniteSet(below(i)) /\ Cardinality(below(i)) \in Nat
    <2> TAKE i \in S
    <2>1. below(i) \in SUBSET S
        OBVIOUS
    <2>2. IsFiniteSet(below(i))
        BY <2>1, FS_Subset
    <2> QED BY <2>2, FS_CardinalityType
<1>1. First(S, n) \in SUBSET S
    BY DEF First
<1>2. ASSUME NEW j \in First(S, n), NEW i \in S, i < j
      PROVE  i \in First(S, n)
    <2>0. j \in S /\ Cardinality(below(j)) < n
        BY DEF First
    <2>1. \A k \in S : k < i => k < j
        BY <1>2, <2>0
    <2>2. below(i) \in SUBSET below(j)
        BY <2>1
    <2>3. Cardinality(below(i)) <= Cardinality(below(j))
        BY <1>0, <2>0, <2>2, FS_Subset
    <2>4. Cardinality(below(i)) < n
        BY <1>0, <2>0, <2>3
    <2> QED BY <2>4 DEF First
<1>3. ASSUME n # 0, S # {}
      PROVE  First(S, n) # {}
    <2>1. PICK m \in S : \A k \in S : m <= k
        BY <1>3, HasLeast
    <2>2. S \subseteq Nat
        OBVIOUS
    <2>3. below(m) = {}
        <3>1. \A k \in S : ~(k < m)
            BY <2>1, <2>2
        <3> QED BY <3>1
    <2>4. Cardinality(below(m)) < n
        BY <1>3, <2>3, FS_EmptySet
    <2> QED BY <2>4 DEF First
<1> QED BY <1>1, <1>2, <1>3

LEMMA IdsFinite ==
    ASSUME NEW S \in SUBSET Ids
    PROVE  S \in SUBSET Nat /\ IsFiniteSet(S) /\ Cardinality(S) \in Nat
<1>1. S \in SUBSET Nat
    BY RepairAssumption
<1>2. IsFiniteSet(S)
    BY RepairAssumption, FS_Subset
<1> QED BY <1>1, <1>2, FS_CardinalityType

LEMMA LastTyped == ASSUME TypeOK PROVE job.last \in Nat
<1>1. job.last \in Ids \cup {0}
    BY DEF TypeOK
<1>2. \A i \in Ids : i \in Nat
    BY RepairAssumption
<1>3. CASE job.last \in Ids
    BY <1>2, <1>3
<1>4. CASE job.last = 0
    BY <1>4
<1> QED BY <1>1, <1>3, <1>4

LEMMA CursorInit == Init => CursorInvariant
<1> SUFFICES ASSUME Init PROVE CursorInvariant
    OBVIOUS
<1>1. /\ job.phase = "idle" /\ job.limit = 0 /\ job.last = 0
      /\ \A i \in Ids : job.batch[i] = NoRow /\ job.outcome[i] = "none"
    BY IdleTyped DEF Init, Idle
<1>2. Pending = {}
    BY <1>1, NoRowTyped DEF Pending
<1>3. \A i \in Ids : ~(i <= job.last)
    BY <1>1, RepairAssumption
<1> QED BY <1>1, <1>2, <1>3
        DEF CursorInvariant, CursorBetween, NothingPassedBy, WithinLimit, EndReached

\* Only an INSERT makes a row appear, and it makes it one the run need not see.
LEMMA NothingNewWaits ==
    ASSUME RepairInvariant, NEW p \in Requests, Write(p), NEW i \in Ids, Waiting(i)'
    PROVE  Waiting(i)
<1>0. transactions \in [Ids -> Row] /\ pc[p] = "write" /\ tgt[p] \in Ids /\ born \subseteq born'
    BY DEF RepairInvariant, TypeOK, Write, Insert, Update, Delete
<1>1. CASE Insert(p)
    BY <1>0, <1>1 DEF Insert, Store, Waiting
<1>2. CASE Update(p)
    BY <1>0, <1>2 DEF Update, Store, Waiting, SameVersion
<1>3. CASE Delete(p)
    BY <1>0, <1>3, NoRowTyped DEF Delete, Store, Waiting
<1> QED BY <1>1, <1>2, <1>3 DEF Write

\* The run stands still while a request, or nobody, moves.
LEMMA CursorStays ==
    ASSUME CursorInvariant, UNCHANGED job, \A i \in Ids : Waiting(i)' => Waiting(i)
    PROVE  CursorInvariant'
<1>1. Pending' = Pending /\ Scanned' = Scanned
    BY DEF Pending, Scanned
<1> QED BY <1>1 DEF CursorInvariant, CursorBetween, NothingPassedBy, WithinLimit, EndReached

LEMMA CursorStarts ==
    ASSUME TypeOK, JobStart
    PROVE  CursorInvariant'
<1>1. PICK o \in Options :
         job' = [Idle EXCEPT !.phase = "fetch", !.runs = job.runs + 1, !.dry = o.dry,
                             !.limit = o.limit]
    BY DEF JobStart
<1>2. /\ job'.phase = "fetch" /\ job'.limit \in Nat /\ job'.last = 0
      /\ \A i \in Ids : job'.batch[i] = NoRow /\ job'.outcome[i] = "none"
    BY <1>1, IdleTyped, RepairAssumption DEF Idle
<1>3. Pending' = {} /\ Scanned' = 0
    BY <1>2, NoRowTyped, FS_EmptySet DEF Pending, Scanned
<1>4. Cardinality(Pending') = 0
    BY <1>3, FS_EmptySet
<1>5. \A i \in Ids : ~(i <= job'.last)
    BY <1>2, RepairAssumption
<1> QED BY <1>2, <1>3, <1>4, <1>5
        DEF CursorInvariant, CursorBetween, NothingPassedBy, WithinLimit, EndReached

LEMMA CursorFetches ==
    ASSUME TypeOK, CursorInvariant, JobFetch
    PROVE  CursorInvariant'
<1> DEFINE S == {i \in Ids : i > job.last /\ Exists(transactions[i])}
<1>0. /\ Ids \subseteq Nat /\ S \in SUBSET Ids
      /\ transactions \in [Ids -> Row] /\ job.limit \in Nat /\ job.last \in Nat
      /\ \A i \in Ids : Waiting(i)' <=> Waiting(i)
      /\ Pending = {} /\ Cardinality(Pending) = 0
    <2>1. Ids \subseteq Nat /\ S \in SUBSET Ids
        BY RepairAssumption
    <2>2. transactions \in [Ids -> Row] /\ job.limit \in Nat /\ job.last \in Nat
        BY LastTyped DEF TypeOK
    <2>3. \A i \in Ids : Waiting(i)' <=> Waiting(i)
        BY DEF JobFetch, Waiting
    <2>4. Pending = {}
        BY DEF JobFetch, CursorInvariant, EndReached
    <2> QED BY <2>1, <2>2, <2>3, <2>4, FS_EmptySet
<1>1. Scanned \in Nat /\ (job.limit > 0 => Scanned <= job.limit)
    <2>1. Scanned \in Nat
        BY IdsFinite DEF Scanned
    <2> QED BY <1>0, <2>1 DEF CursorInvariant, WithinLimit
<1>2. /\ BatchLimit \in Nat
      /\ job.limit > 0 => Scanned + BatchLimit <= job.limit
      /\ job.limit = 0 \/ Scanned < job.limit => BatchLimit # 0
    BY <1>0, <1>1, RepairAssumption DEF BatchLimit
<1>3. S \in SUBSET Nat /\ IsFiniteSet(S)
    BY <1>0, IdsFinite
<1>4. Batch = First(S, BatchLimit)
    BY DEF Batch
<1> HIDE DEF S
<1>5. /\ Batch \in SUBSET S
      /\ \A j \in Batch, i \in S : i < j => i \in Batch
      /\ BatchLimit # 0 /\ S # {} => Batch # {}
    BY <1>2, <1>3, <1>4, FirstIsLowerEnd
<1>6. Cardinality(Batch) \in Nat /\ Cardinality(Batch) <= BatchLimit
    BY <1>2, <1>3, <1>4, FirstBound, FS_CardinalityType
<1>7. CASE Batch = {}
    <2>1. job' = [job EXCEPT !.phase = "done"]
        BY <1>7 DEF JobFetch
    <2>2. /\ job'.phase = "done" /\ job'.limit = job.limit /\ job'.last = job.last
          /\ job'.batch = job.batch /\ job'.outcome = job.outcome
        BY <2>1 DEF TypeOK
    <2>3. Pending' = Pending /\ Scanned' = Scanned
        BY <2>2 DEF Pending, Scanned
    <2>4. ASSUME job.limit = 0 \/ Scanned < job.limit, NEW i \in Ids, Waiting(i)
          PROVE  i <= job.last
        <3>1. i \notin S
            BY <1>2, <1>5, <1>7, <2>4
        <3> QED BY <1>0, <2>4, <3>1 DEF S, Waiting
    <2> QED BY <1>0, <2>2, <2>3, <2>4
            DEF CursorInvariant, CursorBetween, NothingPassedBy, WithinLimit, EndReached
<1>8. CASE Batch # {}
    <2>1. job' = [job EXCEPT !.phase = "rows",
                             !.batch = [i \in Ids |-> IF i \in Batch THEN transactions[i]
                                                                   ELSE NoRow]]
        BY <1>8 DEF JobFetch
    <2>2. /\ job'.phase = "rows" /\ job'.limit = job.limit /\ job'.last = job.last
          /\ job'.outcome = job.outcome
          /\ \A i \in Ids : job'.batch[i] = IF i \in Batch THEN transactions[i] ELSE NoRow
        BY <2>1 DEF TypeOK
    <2>3. \A i \in Batch : i \in Ids /\ i > job.last /\ Exists(transactions[i])
        BY <1>5 DEF S
    <2>4. Pending' = Batch
        BY <2>2, <2>3, NoRowTyped DEF Pending
    <2>5. Scanned' = Scanned
        BY <2>2 DEF Scanned
    <2>6. CursorBetween'
        BY <2>2, <2>3, <2>4 DEF CursorInvariant, CursorBetween
    <2>7. \A i \in Ids, j \in Pending' : Waiting(i) /\ job.last < i /\ i < j => i \in Pending'
        BY <1>0, <1>5, <2>4 DEF S, Waiting
    <2>8. NothingPassedBy'
        BY <1>0, <2>2, <2>7 DEF CursorInvariant, NothingPassedBy
    <2>9. WithinLimit'
        BY <1>0, <1>1, <1>2, <1>6, <2>2, <2>4, <2>5 DEF WithinLimit
    <2> QED BY <2>2, <2>6, <2>8, <2>9 DEF CursorInvariant, EndReached
<1> QED BY <1>7, <1>8

LEMMA CursorMoves ==
    ASSUME RepairInvariant, CursorInvariant, JobRow
    PROVE  CursorInvariant'
<1>1. PICK i \in Ids : JobSkip(i) \/ JobApply(i) \/ JobApplyFails(i)
    BY DEF JobRow
<1>2. PICK result \in Outcomes \ {"none"} : Record(i, result)
    BY <1>1 DEF JobSkip, JobApply, JobApplyFails, Outcomes
<1>3. i \in Pending /\ \A j \in Pending : i <= j
    BY <1>1 DEF JobSkip, JobApply, JobApplyFails, Head
<1>4. \A j \in Ids : Waiting(j)' => Waiting(j)
    <2>1. PICK r \in Row, res \in Outcomes : JobRowCases(i, r, res)
        BY <1>1, JobRowSplits
    <2>2. transactions \in [Ids -> Row] /\ born' = born
        BY DEF RepairInvariant, TypeOK, JobRow
    <2> QED BY <2>1, <2>2 DEF JobRowCases, Waiting
<1>5. /\ Ids \subseteq Nat /\ job.last \in Nat /\ job.limit \in Nat
      /\ CursorBetween /\ NothingPassedBy /\ WithinLimit
    <2>1. Ids \subseteq Nat
        BY RepairAssumption
    <2>2. TypeOK /\ job.last \in Nat
        BY LastTyped DEF RepairInvariant
    <2> QED BY <2>1, <2>2 DEF TypeOK, CursorInvariant
<1>6. /\ job'.last = i /\ job'.limit = job.limit
      /\ job'.phase = IF Pending = {i} THEN "fetch" ELSE "rows"
      /\ job'.batch[i] = NoRow /\ job'.outcome[i] # "none"
      /\ \A j \in Ids \ {i} : /\ job'.batch[j] = job.batch[j]
                              /\ job'.outcome[j] = job.outcome[j]
    BY <1>2 DEF Record, RepairInvariant, TypeOK
<1>7. Pending' = Pending \ {i}
    BY <1>6, NoRowTyped DEF Pending
<1>8. CursorBetween'
    BY <1>3, <1>5, <1>6, <1>7 DEF CursorBetween, Pending
<1>9. NothingPassedBy'
    <2>1. ASSUME NEW j \in Ids, Waiting(j), j <= i
          PROVE  job'.outcome[j] # "none"
        <3>1. CASE j = i
            BY <1>6, <3>1
        <3>2. CASE j <= job.last
            BY <1>5, <1>6, <2>1, <3>2 DEF NothingPassedBy
        <3>3. CASE job.last < j /\ j < i
            <4>1. j \in Pending
                BY <1>3, <1>5, <2>1, <3>3 DEF NothingPassedBy
            <4> QED BY <1>3, <1>5, <3>3, <4>1
        <3> QED BY <1>5, <2>1, <3>1, <3>2, <3>3
    <2>2. ASSUME NEW j \in Ids, NEW k \in Pending \ {i}, Waiting(j), i < j, j < k
          PROVE  j \in Pending \ {i}
        <3>1. job.last < i
            BY <1>3, <1>5 DEF CursorBetween
        <3>2. job.last < j /\ j # i
            BY <1>5, <2>2, <3>1
        <3> QED BY <1>5, <2>2, <3>2 DEF NothingPassedBy
    <2> QED BY <1>4, <1>6, <1>7, <2>1, <2>2 DEF NothingPassedBy
<1>10. WithinLimit'
    <2> DEFINE Seen == {j \in Ids : job.outcome[j] # "none"}
    <2>1. {j \in Ids : job'.outcome[j] # "none"} = Seen \cup {i}
        BY <1>6
    <2>2. IsFiniteSet(Seen) /\ Cardinality(Seen) \in Nat
        BY IdsFinite
    <2>3. IsFiniteSet(Pending) /\ Cardinality(Pending) \in Nat
        BY IdsFinite DEF Pending
    <2>4. Scanned = Cardinality(Seen) /\ Scanned' = Cardinality(Seen \cup {i})
        BY <2>1 DEF Scanned
    <2>5. Scanned' <= Scanned + 1 /\ Scanned' \in Nat
        <3>1. Cardinality(Seen \cup {i}) \in {Cardinality(Seen), Cardinality(Seen) + 1}
            BY <2>2, FS_AddElement
        <3> HIDE DEF Seen
        <3> QED BY <2>2, <2>4, <3>1
    <2>6. Cardinality(Pending') = Cardinality(Pending) - 1
        BY <1>3, <1>7, <2>3, FS_RemoveElement
    <2> QED BY <1>5, <1>6, <2>2, <2>3, <2>4, <2>5, <2>6 DEF WithinLimit
<1>11. EndReached'
    BY <1>6, <1>7 DEF EndReached
<1> QED BY <1>8, <1>9, <1>10, <1>11 DEF CursorInvariant

LEMMA CursorStops ==
    ASSUME TypeOK, CursorInvariant, JobStop
    PROVE  CursorInvariant'
<1>1. /\ job'.phase = "stopped" /\ job'.limit = job.limit /\ job'.last = job.last
      /\ job'.batch = job.batch /\ job'.outcome = job.outcome
      /\ UNCHANGED <<transactions, born>>
    BY DEF JobStop, TypeOK
<1>2. Pending' = Pending /\ Scanned' = Scanned
    BY <1>1 DEF Pending, Scanned
<1> QED BY <1>1, <1>2 DEF CursorInvariant, CursorBetween, NothingPassedBy, WithinLimit,
                          EndReached, Waiting

LEMMA CursorStep == RepairInvariant /\ CursorInvariant /\ [Next]_vars => CursorInvariant'
<1> SUFFICES ASSUME RepairInvariant, CursorInvariant, [Next]_vars PROVE CursorInvariant'
    OBVIOUS
<1>0. TypeOK
    BY DEF RepairInvariant
<1>1. CASE \E p \in Requests : Write(p)
    <2>1. UNCHANGED job
        BY <1>1 DEF Write
    <2> QED BY <1>1, <2>1, NothingNewWaits, CursorStays
<1>2. CASE UNCHANGED <<transactions, born, job>>
    BY <1>2, CursorStays DEF Waiting
<1>3. \/ \E p \in Requests : Write(p)
      \/ UNCHANGED <<transactions, born, job>>
      \/ JobStart \/ JobFetch \/ JobRow \/ JobStop
    BY DEF Next, vars, Request, Start, StartCreate, Find, Abort, JobStep
<1> QED BY <1>0, <1>1, <1>2, <1>3, CursorStarts, CursorFetches, CursorMoves, CursorStops

LEMMA CursorHolds == Spec => []CursorInvariant
<1> QED BY CursorInit, CursorStep, RepairInductive, PTL DEF Spec

LEMMA CompleteIfDone ==
    ASSUME RepairInvariant, CursorInvariant
    PROVE  RunComplete
<1>1. job.limit \in Nat /\ job.outcome \in [Ids -> Outcomes]
    BY DEF RepairInvariant, TypeOK
<1>2. Scanned \in Nat /\ Cardinality(Pending) \in Nat
    BY IdsFinite DEF Scanned, Pending
<1>3. job.limit > 0 => Scanned <= job.limit
    BY <1>1, <1>2 DEF CursorInvariant, WithinLimit
<1>4. ASSUME job.phase = "done", job.limit = 0 \/ Scanned < job.limit,
             NEW i \in Ids, Exists(transactions[i]), i \notin born
      PROVE  /\ job.outcome[i] # "none"
             /\ NeedsFix(transactions[i]) =>
                   job.outcome[i] \in {"conflict", "error", "reported"}
    <2>1. job.outcome[i] # "none"
        BY <1>4 DEF CursorInvariant, EndReached, NothingPassedBy, Waiting
    <2> QED BY <1>1, <2>1 DEF RepairInvariant, ReportTrue, Outcomes
<1> QED BY <1>3, <1>4 DEF RunComplete

\* A run that comes to its end has seen every row that was there all the time, and a limited
\* one as many as it may, wherever rows appear and disappear while it pages through the table.
THEOREM RunsAreComplete == Spec => []RunComplete
<1>1. RepairInvariant /\ CursorInvariant => RunComplete
    BY CompleteIfDone
<1> QED BY <1>1, CursorHolds, RepairInductive, PTL

LEMMA StepScansOnce ==
    ASSUME RepairInvariant, CursorInvariant, [Next]_vars, job'.runs = job.runs,
           NEW i \in Ids, job.outcome[i] # "none"
    PROVE  job'.outcome[i] = job.outcome[i]
<1>0. TypeOK /\ Ids \subseteq Nat
    BY RepairAssumption DEF RepairInvariant
<1>1. CASE JobRow
    <2>1. PICK j \in Ids : JobSkip(j) \/ JobApply(j) \/ JobApplyFails(j)
        BY <1>1 DEF JobRow
    <2>2. PICK result \in Outcomes : Record(j, result)
        BY <2>1 DEF JobSkip, JobApply, JobApplyFails, Outcomes
    <2>3. j \in Pending
        BY <2>1 DEF JobSkip, JobApply, JobApplyFails, Head
    <2>4. j > job.last /\ i <= job.last /\ job.last \in Nat
        BY <1>0, <2>3, LastTyped DEF CursorInvariant, CursorBetween
    <2>5. i # j
        BY <1>0, <2>4
    <2> QED BY <1>0, <2>2, <2>5 DEF Record, TypeOK
<1>2. CASE JobStart
    <2>1. job'.runs = job.runs + 1
        BY <1>2, IdleTyped DEF JobStart
    <2> QED BY <1>0, <2>1 DEF TypeOK
<1>3. CASE JobFetch
    BY <1>0, <1>3 DEF JobFetch, TypeOK
<1>4. CASE JobStop
    BY <1>0, <1>4 DEF JobStop, TypeOK
<1>5. CASE UNCHANGED job
    BY <1>5
<1>6. JobStart \/ JobFetch \/ JobRow \/ JobStop \/ UNCHANGED job
    BY DEF Next, vars, Request, Start, StartCreate, Find, Write, Abort, JobStep
<1> QED BY <1>1, <1>2, <1>3, <1>4, <1>5, <1>6

\* No run deals with a row twice, although rows come and go around its cursor.
THEOREM RunsScanOnce == Spec => ScannedOnce
<1>1. RepairInvariant /\ CursorInvariant /\ [Next]_vars
          => [job'.runs = job.runs =>
                 \A i \in Ids : job.outcome[i] # "none"
                                   => job'.outcome[i] = job.outcome[i]]_vars
    BY StepScansOnce
<1> QED BY <1>1, CursorHolds, RepairInductive, PTL DEF Spec, ScannedOnce

----------------------------------------------------------------------------
(***************************************************************************)
(* Progress.                                                               *)
(***************************************************************************)
BatchHeld == job.phase = "rows" => Pending # {}

LEMMA FetchHolds == ASSUME TypeOK, BatchHeld, JobFetch PROVE BatchHeld'
<1>1. CASE Batch = {}
    BY <1>1 DEF JobFetch, TypeOK, BatchHeld
<1>2. CASE Batch # {}
    <2>1. PICK i \in Ids : i \in Batch /\ Exists(transactions[i])
        BY <1>2 DEF Batch, First
    <2>2. job'.batch[i] = transactions[i]
        BY <1>2, <2>1 DEF JobFetch, TypeOK
    <2> QED BY <2>1, <2>2 DEF BatchHeld, Pending
<1> QED BY <1>1, <1>2

LEMMA RecordHolds ==
    ASSUME TypeOK, NEW i \in Ids, NEW result, Record(i, result), i \in Pending
    PROVE  BatchHeld'
<1>1. /\ job'.phase = IF Pending = {i} THEN "fetch" ELSE "rows"
      /\ \A j \in Ids \ {i} : job'.batch[j] = job.batch[j]
    BY DEF Record, TypeOK
<1>2. Pending \ {i} \subseteq Pending'
    BY <1>1 DEF Pending
<1> QED BY <1>1, <1>2 DEF BatchHeld

LEMMA BatchStep == RepairInvariant /\ BatchHeld /\ [Next]_vars => BatchHeld'
<1> SUFFICES ASSUME TypeOK, BatchHeld, [Next]_vars PROVE BatchHeld'
    BY DEF RepairInvariant
<1>1. CASE JobRow
    <2>1. PICK i \in Ids, result \in Outcomes : Record(i, result) /\ i \in Pending
        BY <1>1 DEF JobRow, JobSkip, JobApply, JobApplyFails, Head, Outcomes
    <2> QED BY <2>1, RecordHolds
<1>2. CASE JobStart
    <2>1. job'.phase = "fetch"
        BY <1>2, IdleTyped DEF JobStart, Idle
    <2> QED BY <2>1 DEF BatchHeld
<1>3. CASE JobStop
    BY <1>3 DEF JobStop, BatchHeld, TypeOK
<1>4. CASE UNCHANGED job
    BY <1>4 DEF BatchHeld, Pending
<1>5. JobStart \/ JobFetch \/ JobRow \/ JobStop \/ UNCHANGED job
    BY DEF Next, vars, Request, Start, StartCreate, Find, Write, Abort, JobStep
<1> QED BY <1>1, <1>2, <1>3, <1>4, <1>5, FetchHolds

LEMMA BatchHolds == Spec => []BatchHeld
<1>1. Init => BatchHeld
    BY IdleTyped DEF Init, Idle, BatchHeld
<1> QED BY <1>1, BatchStep, RepairInductive, PTL DEF Spec

\* The batch is never empty while the run works on it, so there is a next row as long as
\* the run goes on, whichever rows requests have deleted from the table meanwhile.
THEOREM RunsGoOn == Spec => []RunGoesOn
<1>1. ASSUME BatchHeld, job.phase = "rows" PROVE \E i \in Ids : Head(i)
    <2>1. Pending \in SUBSET Nat /\ Pending # {}
        BY <1>1, RepairAssumption DEF BatchHeld, Pending
    <2>2. PICK i \in Pending : \A j \in Pending : i <= j
        BY <2>1, HasLeast
    <2> QED BY <1>1, <2>2 DEF Head, Pending
<1>2. BatchHeld => RunGoesOn
    BY <1>1 DEF RunGoesOn, Running
<1> QED BY <1>2, BatchHolds, PTL

\* What a run has in its batch it has not dealt with.
LEMMA PendingLeft ==
    ASSUME TypeOK, CursorInvariant, NEW i \in Pending
    PROVE  i \in RowsLeft
<1>1. i \in Ids /\ i \in Nat /\ job.last \in Nat /\ i > job.last
    BY LastTyped, RepairAssumption DEF CursorInvariant, CursorBetween, Pending
<1> QED BY <1>1 DEF CursorInvariant, CursorBetween, RowsLeft

LEMMA RowsLeftFinite == IsFiniteSet(RowsLeft) /\ Cardinality(RowsLeft) \in Nat
    BY IdsFinite DEF RowsLeft

LEMMA StepsOfRunning ==
    ASSUME TypeOK, CursorInvariant, BatchHeld, Running
    PROVE  StepsOfRun \in Nat \ {0}
<1>1. CASE job.phase = "fetch"
    BY <1>1, RowsLeftFinite DEF StepsOfRun
<1>2. CASE job.phase = "rows"
    <2>1. RowsLeft # {}
        BY <1>2, PendingLeft DEF BatchHeld
    <2>2. Cardinality(RowsLeft) # 0
        BY <2>1, RowsLeftFinite, FS_EmptySet
    <2> QED BY <1>2, <2>2, RowsLeftFinite DEF StepsOfRun
<1> QED BY <1>1, <1>2 DEF Running

LEMMA RowShortens ==
    ASSUME TypeOK, CursorInvariant, JobRow
    PROVE  StepsOfRun' \in 0..StepsOfRun - 1
<1>1. PICK i \in Ids, result \in Outcomes \ {"none"} : Record(i, result) /\ Head(i)
    BY DEF JobRow, JobSkip, JobApply, JobApplyFails, Outcomes
<1>2. i \in RowsLeft /\ job.phase = "rows"
    BY <1>1, PendingLeft DEF Head
<1>3. /\ job'.phase \in {"fetch", "rows"} /\ job'.outcome[i] # "none"
      /\ \A j \in Ids \ {i} : job'.outcome[j] = job.outcome[j]
    BY <1>1 DEF Record, TypeOK
<1>4. RowsLeft' = RowsLeft \ {i}
    BY <1>3 DEF RowsLeft
<1>5. Cardinality(RowsLeft') = Cardinality(RowsLeft) - 1
    BY <1>2, <1>4, RowsLeftFinite, FS_RemoveElement
<1>6. Cardinality(RowsLeft) \in Nat /\ Cardinality(RowsLeft') \in Nat
    <2>1. RowsLeft \ {i} \in SUBSET Ids
        BY DEF RowsLeft
    <2> QED BY <1>4, <2>1, IdsFinite, RowsLeftFinite
<1> QED BY <1>2, <1>3, <1>5, <1>6 DEF StepsOfRun

\* A run makes at most two steps for each id and one more: requests that insert rows in front
\* of its cursor, or change rows behind it, cannot keep it busy, and what fails is not
\* tried again.
THEOREM RunsAreShort == Spec => RunMovesOn
<1>1. TypeOK /\ CursorInvariant /\ BatchHeld /\ JobFetch => StepsOfRun' \in 0..StepsOfRun - 1
    <2> SUFFICES ASSUME TypeOK, CursorInvariant, BatchHeld, JobFetch
                 PROVE  StepsOfRun' \in 0..StepsOfRun - 1
        OBVIOUS
    <2>1. job.phase = "fetch" /\ job'.phase \in {"done", "rows"} /\ job'.outcome = job.outcome
        BY DEF JobFetch, TypeOK
    <2>2. RowsLeft' = RowsLeft
        BY <2>1 DEF RowsLeft
    <2> QED BY <2>1, <2>2, RowsLeftFinite DEF StepsOfRun
<1>2. TypeOK /\ CursorInvariant /\ BatchHeld /\ JobStop => StepsOfRun' \in 0..StepsOfRun - 1
    <2> SUFFICES ASSUME TypeOK, CursorInvariant, BatchHeld, JobStop
                 PROVE  StepsOfRun' \in 0..StepsOfRun - 1
        OBVIOUS
    <2>1. StepsOfRun' = 0
        BY DEF JobStop, StepsOfRun, TypeOK
    <2> QED BY <2>1, StepsOfRunning DEF JobStop
<1>3. \/ JobStart \/ JobFetch \/ JobRow \/ JobStop
      \/ [Next]_vars => job' = job /\ ~JobStep
    BY DEF Next, vars, Request, Start, StartCreate, Find, Write, Abort, JobStep
<1>4. RepairInvariant /\ CursorInvariant /\ BatchHeld /\ [Next]_vars
      => [\/ job' = job /\ ~JobStep
          \/ JobStart
          \/ StepsOfRun' \in 0..StepsOfRun - 1]_vars
    BY <1>1, <1>2, <1>3, RowShortens DEF RepairInvariant
<1> QED BY <1>4, CursorHolds, BatchHolds, RepairInductive, PTL DEF Spec, RunMovesOn

=============================================================================
