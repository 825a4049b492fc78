------------------------------ MODULE TableStore ------------------------------
(***************************************************************************)
(* What the boot loader relies on when it stores its partition tables: one *)
(* register per logical unit.  A unit changes from one complete table to   *)
(* the next at one instant, a synchronisation stores the units in the      *)
(* order of their numbers while the table in RAM stands still, and a power *)
(* cut or a failed request only keeps the units that were still to come as *)
(* they are.  There are no copies, no CRCs and no repair here: that the    *)
(* loop of UpdatePartitionAttributes, with the partition driver that       *)
(* presents what it wrote, amounts to this is the refinement that          *)
(* SlotStore states.                                                       *)
(***************************************************************************)
EXTENDS SlotTable

CONSTANT
  MaxFailures  \* bound on failures, a number

VARIABLES
  mem,       \* the table in RAM; of no meaning while the power is off
  disk,      \* the table that the storage presents
  todo,      \* the units that the running synchronisation has yet to store
  phase,     \* "off", "loader" or "os"
  failures   \* power cuts at work and failed requests so far

storeVars == <<mem, disk, todo, phase, failures>>

StoreInit ==
  /\ mem \in Table
  /\ disk = mem
  /\ todo = {}
  /\ phase = "off"
  /\ failures = 0

\* The entries of unit l in t become those of u.
Put(t, l, u) ==
  [p \in Ptns |-> [s \in Slots |->
     IF LunOf[p][s] = l THEN u[p][s] ELSE t[p][s]]]

\* The loader comes up with exactly the table that was stored.
Load ==
  /\ phase = "off"
  /\ phase' = "loader"
  /\ mem' = disk
  /\ UNCHANGED <<disk, todo, failures>>

\* The loader changes its table, and may ask for it to be stored.  On the way a
\* request that is not about the tables may fail.
Edit ==
  /\ phase = "loader" /\ todo = {}
  /\ mem' \in Table
  /\ todo' \in {{}, Luns}
  /\ failures' \in {failures, failures + 1} \cap 0 .. MaxFailures
  /\ UNCHANGED <<disk, phase>>

StoreUnit ==
  /\ phase = "loader"
  /\ \E l \in todo :
       /\ \A k \in todo : l <= k
       /\ disk' = Put(disk, l, mem)
       /\ todo' = todo \ {l}
  /\ UNCHANGED <<mem, phase, failures>>

\* A request fails: the units that were still to come keep their tables.
StoreFails ==
  /\ phase = "loader"
  /\ failures < MaxFailures
  /\ failures' = failures + 1
  /\ todo' = {}
  /\ UNCHANGED <<mem, disk, phase>>

\* Power is lost at work: no unit changes.
Cut ==
  /\ phase \in {"off", "loader"}
  /\ failures < MaxFailures
  /\ failures' = failures + 1
  /\ phase' = "off"
  /\ todo' = {}
  /\ UNCHANGED <<mem, disk>>

\* The system is started, only when nothing is being stored.
StartOs ==
  /\ phase = "loader" /\ todo = {}
  /\ phase' = "os"
  /\ UNCHANGED <<mem, disk, todo, failures>>

\* The system writes tables of its own.
OsWrite ==
  /\ phase = "os"
  /\ disk' \in Table
  /\ UNCHANGED <<mem, todo, phase, failures>>

Down ==
  /\ phase \in {"loader", "os"} /\ todo = {}
  /\ phase' = "off"
  /\ UNCHANGED <<mem, disk, todo, failures>>

StoreNext ==
  \/ Load \/ Edit \/ StoreUnit \/ StoreFails \/ Cut
  \/ StartOs \/ OsWrite \/ Down

StoreSpec == StoreInit /\ [][StoreNext]_storeVars
=============================================================================
