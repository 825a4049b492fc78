------------------------------ MODULE SlotStore ------------------------------
(***************************************************************************)
(* The slot manager implements TableStore as long as there is one fault:   *)
(* two copies per unit, written one after the other, and the firmware's    *)
(* choice and repair make each unit a register.                            *)
(***************************************************************************)
EXTENDS SlotManager

\* The units a running UpdatePartitionAttributes has yet to store: a unit is
\* stored when its primary copy is, or, while the CRC of that one is wrong, when
\* its backup copy is.
Pending ==
  IF pc = "flush"
  THEN {l \in Luns :
          \/ l > at.lun
          \/ l = at.lun /\ (at.iter = Primary \/ <<l, Primary>> \in torn)}
  ELSE {}

Phase ==
  IF pc \in {"off", "firmware"} THEN "off"
  ELSE IF pc = "os" THEN "os" ELSE "loader"

Store == INSTANCE TableStore WITH
  mem <- ram, disk <- View, todo <- Pending, phase <- Phase,
  failures <- faults, MaxFailures <- MaxFaults

\* UpdatePartitionAttributes, with the partition driver that presents the
\* tables after a reset, behaves like one register per logical unit under one
\* power cut or failed request: no unit is ever presented half written or
\* older than its last complete write, and units are stored in order.
ImplementsStore == Store!StoreSpec
=============================================================================
