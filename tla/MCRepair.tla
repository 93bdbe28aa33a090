------------------------------ MODULE MCRepair ------------------------------
(***************************************************************************)
(* Small instances of Repair for TLC: historical rows out of format and in *)
(* it, around an id for a new row.                                         *)
(***************************************************************************)
EXTENDS RepairInvariant, TLC

Old(status, posted, cancelled, income, reserved) ==
    [status |-> status, occurredAt |-> 0, plannedAt |-> 0, postedAt |-> posted,
     cancelledAt |-> cancelled, income |-> income, reserved |-> reserved, createdAt |-> Epoch,
     updatedAt |-> Epoch]

PlannedWithIncome == Old("planned", 0, 0, TRUE, FALSE)
PlannedAsPosted == Old("planned", 1, 1, FALSE, FALSE)
PostedWithoutTime == Old("posted", 0, 0, FALSE, TRUE)
PostedInFormat == Old("posted", 1, 0, FALSE, FALSE)
CancelledWithoutTime == Old("cancelled", 1, 0, FALSE, FALSE)

MCIds == 1..4

MCTables == {<<PlannedWithIncome, NoRow, PostedInFormat, PostedWithoutTime>>,
             <<PostedInFormat, PlannedAsPosted, NoRow, CancelledWithoutTime>>}

MCOptions == {[dry |-> FALSE, limit |-> 0], [dry |-> FALSE, limit |-> 3], [dry |-> TRUE, limit |-> 0]}
=============================================================================
