--------------------------- MODULE MCVerification ---------------------------
(***************************************************************************)
(* Small instances of Verification for TLC: two historical rows out of     *)
(* format around an id for a new row, scanned one row per batch.           *)
(***************************************************************************)
EXTENDS Verification, TLC

Old(status, posted, cancelled, income) ==
    [status |-> status, occurredAt |-> 0, plannedAt |-> 0, postedAt |-> posted,
     cancelledAt |-> cancelled, income |-> income, reserved |-> FALSE, createdAt |-> Epoch,
     updatedAt |-> Epoch]

PlannedWithIncome == Old("planned", 0, 0, TRUE)
PostedAndCancelled == Old("posted", 1, 1, FALSE)

MCIds == 1..3

MCTables == {<<PlannedWithIncome, NoRow, PostedAndCancelled>>}

MCOptions == {[dry |-> FALSE, limit |-> 0]}

ScanAndKeep == {[limit |-> 0, writes |-> TRUE, compares |-> FALSE]}
MCScanOptions == ScanAndKeep \cup {[limit |-> 2, writes |-> FALSE, compares |-> TRUE]}
MCCohortOptions == ScanAndKeep \cup {[limit |-> 0, writes |-> FALSE, compares |-> TRUE]}
=============================================================================
