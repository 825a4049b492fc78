----------------------------- MODULE SlotManager -----------------------------
(***************************************************************************)
(* The A/B slot manager of the boot loader (PartitionTableUpdate.c) with   *)
(* the storage below it and the power supply around it.                    *)
(*                                                                         *)
(* The loader is one thread.  It changes its table in RAM and then writes  *)
(* the table of every logical unit, the primary copy and then the backup   *)
(* copy, one WriteBlocks at a time; it never reads a table back.  The only *)
(* concurrency is with the power supply: the device may lose power between *)
(* any two of these steps, and in the middle of a write.  What survives is *)
(* the storage: gpt, torn and bootLun.                                     *)
(*                                                                         *)
(* Control is a program counter.  An entry point is called from "idle";    *)
(* "flush" is UpdatePartitionAttributes, which returns to the label ret.   *)
(* Errors unwind to "idle", as GUARD and GUARD_OUT do.                     *)
(*                                                                         *)
(* Bounds: faults counts requests that failed and power cuts in the middle *)
(* of work and stops at MaxFaults, tries stops at one more than is         *)
(* allowed; everything else is finite by itself.                           *)
(***************************************************************************)
EXTENDS SlotTable

CONSTANTS
  IsUfs,        \* the boot device is UFS (TRUE) or eMMC (FALSE)
  UserVariant,  \* TargetBuildVariantUser ()
  InitTables,   \* the tables a device may start with
  MaxFaults     \* bound on faults

Primary == 0
Backup  == 1
Copies  == {Primary, Backup}

LunFor(s) == IF s = "_a" THEN 1 ELSE 2

\* A table to start from: at most one boot entry is active, and an active one
\* has the top priority.
Sane(t) ==
  /\ \A s \in Slots : t["boot"][s].act => t["boot"][s].pri = MaxPriority
  /\ ~(t["boot"]["_a"].act /\ t["boot"]["_b"].act)

\* The slot a provisioned device starts from.
StartSlot(t) == IF ActiveOf(t) = NoSlot THEN "_a" ELSE ActiveOf(t)

\* The identifying type GUIDs are all on one slot's side.
TypesOn(t, s) ==
  \A p \in Ptns : t[p][s].type = "own" /\ t[p][OtherSlot(s)].type = "idle"

ASSUME ManagerAssumption ==
  /\ IsUfs \in BOOLEAN
  /\ UserVariant \in BOOLEAN
  /\ InitTables \subseteq Table
  /\ \A t \in InitTables : Sane(t) /\ TypesOn(t, StartSlot(t))
  /\ MaxFaults \in Nat

\* boot_a and boot_b are entries of one table.
ASSUME LayoutAssumption == LunOf["boot"]["_a"] = LunOf["boot"]["_b"]

Labels == {"off", "firmware", "idle", "query", "find", "validate", "markFound", "found",
           "clear", "unbootable", "fallback", "setActive", "setLun", "markSet",
           "setDone", "trail", "flashAttr", "flush", "reset", "os"}

EntryPoints ==
  {"none", "query", "find", "boot", "setActive", "fallback", "flashAttr"}

VARIABLES
  ram,        \* PtnEntries
  gpt,        \* the two copies of the tables on the storage
  torn,       \* the <<lun, copy>> whose CRC does not match
  bootLun,    \* the UFS boot logical unit, kept by the UFS device; 0 is none
  pc,         \* where the loader is
  ret,        \* where UpdatePartitionAttributes returns to
  at,         \* the copy UpdatePartitionAttributes is at (Lun and Iter)
  op,         \* the entry point being executed, "none" after a failure
  slot,       \* BootableSlot, NewSlot or AlternateSlot of that call
  firstBoot,  \* FirstBoot
  faults,     \* failed requests and power cuts during work so far
  failed,     \* history: "table" if a request that failed since the loader
              \* came up has left a part of a copy, "lun" if the boot logical
              \* unit could not be read or set in the last SetActiveSlot
  tries       \* history: boots of an unproven slot since it was armed,
              \* counted up to MaxRetry + 1

storage == <<gpt, torn, bootLun>>
vars == <<ram, gpt, torn, bootLun, pc, ret, at, op, slot, firstBoot,
          faults, failed, tries>>

\* Bound on tries
TryCounts == 0 .. MaxRetry + 1

Start == [lun |-> 0, iter |-> Primary]

\* One more failed request or power cut, as far as the bound allows
Fault == faults < MaxFaults /\ faults' = faults + 1

\* The table of a logical unit that the firmware presents: the primary copy
\* if its CRC is right, else the backup copy.
Presented(g, broken) ==
  [p \in Ptns |-> [s \in Slots |->
     IF <<LunOf[p][s], Primary>> \in broken
     THEN g[Backup][p][s] ELSE g[Primary][p][s]]]

View == Presented(gpt, torn)

TypeOK ==
  /\ ram \in Table
  /\ gpt \in [Copies -> Table]
  /\ torn \subseteq Luns \X Copies
  /\ bootLun \in {0, 1, 2}
  /\ pc \in Labels
  /\ ret \in Labels
  /\ at \in [lun : Luns, iter : Copies]
  /\ op \in EntryPoints
  /\ slot \in Slots \cup {NoSlot}
  /\ firstBoot \in BOOLEAN
  /\ faults \in 0 .. MaxFaults
  /\ failed \subseteq {"table", "lun"}
  /\ tries \in [Slots -> TryCounts]

Init ==
  \E t \in InitTables :
    /\ ram = t
    /\ gpt = [c \in Copies |-> t]
    /\ torn = {}
    /\ bootLun = LunFor(StartSlot(t))
    /\ pc = "off" /\ ret = "idle" /\ at = Start
    /\ op = "none" /\ slot = NoSlot
    /\ firstBoot = FALSE
    /\ faults = 0 /\ failed = {}
    /\ tries = [s \in Slots |-> 0]

-----------------------------------------------------------------------------
(* Power on: the firmware checks the primary and then the backup copy of    *)
(* every table, rewrites a broken one from the other and presents the      *)
(* partitions; the loader reads them and looks for the active slot.        *)

\* The entries of unit l in t become those of u.
WithLun(t, l, u) ==
  [p \in Ptns |-> [s \in Slots |->
     IF LunOf[p][s] = l THEN u[p][s] ELSE t[p][s]]]

Readable(l) == \E c \in Copies : <<l, c>> \notin torn

PowerUp ==
  /\ pc = "off"
  /\ pc' = "firmware"
  /\ UNCHANGED <<ram, storage, ret, at, op, slot, firstBoot, faults, failed, tries>>

\* PartitionRestoreGptTable: the header and then the entries; a copy that is
\* restored only in part is as broken as before.
RestoreCopy ==
  /\ pc = "firmware"
  /\ \E l \in Luns, c \in Copies :
       /\ <<l, c>> \in torn
       /\ <<l, 1 - c>> \notin torn
       /\ gpt' = [gpt EXCEPT ![c] = WithLun(@, l, gpt[1 - c])]
       /\ torn' = torn \ {<<l, c>>}
  /\ UNCHANGED <<ram, bootLun, pc, ret, at, op, slot, firstBoot, faults, failed, tries>>

\* Mutant of Present: the backup copy is not checked if the primary is right.
PresentUnchecked ==
  /\ pc = "firmware"
  /\ \A l \in Luns : <<l, Primary>> \notin torn
  /\ failed' = failed \ {"table"}
  /\ ram' = View
  /\ firstBoot' = FALSE
  /\ pc' = "query" /\ op' = "query" /\ slot' = NoSlot
  /\ ret' = "idle" /\ at' = Start
  /\ UNCHANGED <<storage, faults, tries>>

\* A backup copy that could not be restored does not stop the firmware.  A
\* primary copy does: its unit has no partitions until the next power on.
Present ==
  /\ pc = "firmware"
  /\ \A l \in Luns : <<l, Primary>> \notin torn
  /\ \/ torn = {} /\ faults' = faults
     \/ torn # {} /\ Fault
  /\ failed' = failed \ {"table"}
  /\ ram' = View
  /\ firstBoot' = FALSE
  /\ pc' = "query" /\ op' = "query" /\ slot' = NoSlot
  /\ ret' = "idle" /\ at' = Start
  /\ UNCHANGED <<storage, tries>>

-----------------------------------------------------------------------------
(* UpdatePartitionAttributes                                               *)

FlushThen(label) == pc' = "flush" /\ ret' = label /\ at' = Start

\* The copy differs from the table in RAM (SkipUpdation stays TRUE if not).
Stale(l, c) == gpt[c] # WithLun(gpt[c], l, ram)

\* Mutant of WriteCopy: only the primary copies are written.
WritePrimary ==
  /\ pc = "flush"
  /\ gpt' = [gpt EXCEPT ![Primary] = WithLun(@, at.lun, ram)]
  /\ torn' \in {torn, torn \ {<<at.lun, Primary>>}}
  /\ IF at.lun + 1 < MaxLuns
     THEN at' = [lun |-> at.lun + 1, iter |-> Primary] /\ pc' = pc
     ELSE at' = Start /\ pc' = ret
  /\ UNCHANGED <<ram, bootLun, ret, op, slot, firstBoot, faults, failed, tries>>

\* One turn of the Iter loop: the copy becomes equal to the RAM table, and a
\* copy that already is keeps its contents.  The CRCs of what was read are not
\* checked and those of what is written are right, so a broken copy is cured,
\* unless its entries happen to be current and only its CRC is wrong.
WriteCopy ==
  /\ pc = "flush"
  /\ gpt' = [gpt EXCEPT ![at.iter] = WithLun(@, at.lun, ram)]
  /\ torn' \in {torn, torn \ {<<at.lun, at.iter>>}}
  /\ IF at.iter = Primary
     THEN at' = [at EXCEPT !.iter = Backup] /\ pc' = pc
     ELSE IF at.lun + 1 < MaxLuns
          THEN at' = [lun |-> at.lun + 1, iter |-> Primary] /\ pc' = pc
          ELSE at' = Start /\ pc' = ret
  /\ UNCHANGED <<ram, bootLun, ret, op, slot, firstBoot, faults, failed, tries>>

\* Some blocks of the copy that is due are written: no CRC fits it.
HalfWritten ==
  /\ pc = "flush" /\ Stale(at.lun, at.iter)
  /\ torn' = torn \cup {<<at.lun, at.iter>>}

\* ReadBlocks or WriteBlocks reports an error: the copies that were still to
\* come are left alone and the caller is not told.  The one request for the
\* header and the entries may have written a part of them.
IoError ==
  /\ pc = "flush"
  /\ Fault
  /\ \/ UNCHANGED <<torn, failed>>
     \/ HalfWritten /\ failed' = failed \cup {"table"}
  /\ at' = Start /\ pc' = ret
  /\ UNCHANGED <<ram, gpt, bootLun, ret, op, slot, firstBoot, tries>>

Flush == WriteCopy \/ IoError

-----------------------------------------------------------------------------
(* GetActiveSlot, at the head of every entry point that needs it           *)

NeedsActive == {"query", "find", "unbootable", "setActive", "clear"}

\* First boot: slot _a is made the default and written, then the caller goes
\* on with it.
DefaultSlot ==
  /\ pc \in NeedsActive
  /\ ActiveOf(ram) = NoSlot
  /\ IsFirstBoot(ram)
  /\ ram' = WithDefault(ram)
  /\ tries' = [tries EXCEPT !["_a"] = 0]
  /\ firstBoot' = TRUE
  /\ FlushThen(pc)
  /\ UNCHANGED <<storage, op, slot, faults, failed>>

Fail == pc' = "idle" /\ op' = "none" /\ slot' = NoSlot

\* "No active slot found": every caller gives up, except the first query of
\* the loader, whose result is not looked at.
NoActiveSlot ==
  /\ pc \in NeedsActive
  /\ ActiveOf(ram) = NoSlot
  /\ ~IsFirstBoot(ram)
  /\ \/ pc = "query" /\ pc' = "idle" /\ UNCHANGED <<op, slot>>
     \/ pc # "query" /\ Fail
  /\ UNCHANGED <<ram, storage, ret, at, firstBoot, faults, failed, tries>>

Query ==
  /\ pc = "query"
  /\ ActiveOf(ram) # NoSlot
  /\ pc' = "idle"
  /\ UNCHANGED <<ram, storage, ret, at, op, slot, firstBoot, faults, failed, tries>>

-----------------------------------------------------------------------------
(* FindBootableSlot                                                        *)

FindProven ==
  /\ pc = "find"
  /\ ActiveOf(ram) # NoSlot
  /\ Proven(ram["boot"][ActiveOf(ram)])
  /\ slot' = ActiveOf(ram)
  /\ pc' = "validate"
  /\ UNCHANGED <<ram, storage, ret, at, op, firstBoot, faults, failed, tries>>

\* Mutant of FindOnTrial: the write is left to MarkPtnActive.
FindOnTrialUnwritten ==
  /\ pc = "find"
  /\ ActiveOf(ram) # NoSlot
  /\ OnTrial(ram["boot"][ActiveOf(ram)])
  /\ slot' = ActiveOf(ram)
  /\ pc' = "validate"
  /\ ram' = IF op = "boot" THEN ram ELSE WithTryUsed(ram, ActiveOf(ram))
  /\ UNCHANGED <<storage, ret, at, op, firstBoot, faults, failed, tries>>

\* A slot on trial loses one try, unless the image comes from the host
\* (IsBootDevImage).
FindOnTrial ==
  /\ pc = "find"
  /\ ActiveOf(ram) # NoSlot
  /\ OnTrial(ram["boot"][ActiveOf(ram)])
  /\ slot' = ActiveOf(ram)
  /\ \/ /\ op = "boot"
        /\ pc' = "validate"
        /\ UNCHANGED <<ram, ret, at>>
     \/ /\ op # "boot"
        /\ ram' = WithTryUsed(ram, ActiveOf(ram))
        /\ FlushThen("validate")
  /\ UNCHANGED <<storage, op, firstBoot, faults, failed, tries>>

FindUnbootable ==
  /\ pc = "find"
  /\ ActiveOf(ram) # NoSlot
  /\ ~Proven(ram["boot"][ActiveOf(ram)])
  /\ ~OnTrial(ram["boot"][ActiveOf(ram)])
  /\ pc' = "unbootable"
  /\ UNCHANGED <<ram, storage, ret, at, op, slot, firstBoot, faults, failed, tries>>

\* ValidateSlotGuids.  Here a boot unit that cannot be read is an error, like
\* one that does not fit the slot.
SlotValid(s) ==
  /\ SlotGuidsDiffer(ram, s)
  /\ IsUfs => bootLun = LunFor(s)

ValidateSlotGuids ==
  /\ pc = "validate"
  /\ \/ /\ SlotValid(slot)
        /\ pc' = "markFound"
        /\ UNCHANGED <<op, slot, faults>>
     \/ ~SlotValid(slot) /\ Fail /\ UNCHANGED faults
     \/ IsUfs /\ Fault /\ Fail
  /\ UNCHANGED <<ram, storage, ret, at, firstBoot, failed, tries>>

\* MarkPtnActive, called by FindBootableSlot and by SetActiveSlot
MarkPtnActive ==
  /\ \/ pc = "markFound" /\ FlushThen("found")
     \/ pc = "markSet" /\ FlushThen("setDone")
  /\ ram' = WithActiveBits(ram, slot)
  /\ UNCHANGED <<storage, op, slot, firstBoot, faults, failed, tries>>

-----------------------------------------------------------------------------
(* HandleActiveSlotUnbootable                                              *)

MarkUnbootable ==
  /\ pc = "unbootable"
  /\ ActiveOf(ram) # NoSlot
  /\ slot' = OtherSlot(ActiveOf(ram))
  /\ \/ /\ firstBoot /\ ~UserVariant
        /\ firstBoot' = FALSE
        /\ pc' = "fallback"
        /\ UNCHANGED <<ram, ret, at>>
     \/ /\ ~(firstBoot /\ ~UserVariant)
        /\ ram' = WithUnbootable(ram, ActiveOf(ram))
        /\ FlushThen("fallback")
        /\ UNCHANGED firstBoot
  /\ UNCHANGED <<storage, op, faults, failed, tries>>

\* Mutant of Fallback: the success bit is tested the wrong way round.
FallbackToTrial ==
  /\ pc = "fallback"
  /\ \/ /\ OnTrial(ram["boot"][slot])
        /\ pc' = "setActive"
        /\ op' = "fallback"
        /\ UNCHANGED slot
     \/ ~OnTrial(ram["boot"][slot]) /\ Fail
  /\ UNCHANGED <<ram, storage, ret, at, firstBoot, faults, failed, tries>>

Fallback ==
  /\ pc = "fallback"
  /\ \/ /\ Proven(ram["boot"][slot])
        /\ pc' = "setActive"
        /\ op' = "fallback"
        /\ UNCHANGED slot
     \/ ~Proven(ram["boot"][slot]) /\ Fail
  /\ UNCHANGED <<ram, storage, ret, at, firstBoot, faults, failed, tries>>

\* gRT->ResetSystem
ResetSystem ==
  /\ pc = "reset"
  /\ pc' = "off" /\ op' = "none" /\ slot' = NoSlot
  /\ UNCHANGED <<ram, storage, ret, at, firstBoot, faults, failed, tries>>

-----------------------------------------------------------------------------
(* SetActiveSlot: from set_active (op = "setActive", the success bit is    *)
(* reset) or from HandleActiveSlotUnbootable (op = "fallback", it is kept) *)

\* UfsGetSetBootLun: a request to the boot unit fails, which its callers here
\* do not look at.
LunRequestFails == Fault /\ failed' = failed \cup {"lun"}

\* The unit that is asked for: 1 is exchanged for 2 and 2 for 1; a device that
\* boots from neither is left as it is.
SwitchedLun == IF bootLun = 0 THEN 0 ELSE LunFor(slot)

LunSwitched ==
  bootLun' = SwitchedLun /\ failed' = failed \ {"lun"} /\ faults' = faults

\* Boot lun mismatch of an active slot
RepairBootLun == LunSwitched \/ (LunRequestFails /\ bootLun' = bootLun)

\* The slot already is the active one: attributes, and on UFS the boot
\* logical unit if it belongs to the other slot.
SetActiveSame ==
  /\ pc = "setActive"
  /\ ActiveOf(ram) = slot
  /\ ram' = WithActive(ram, slot, op = "setActive")
  /\ tries' = [tries EXCEPT ![slot] = 0]
  /\ IF IsUfs THEN RepairBootLun ELSE UNCHANGED <<bootLun, faults, failed>>
  /\ pc' = "setDone"
  /\ UNCHANGED <<gpt, torn, ret, at, op, slot, firstBoot>>

\* Mutant of SetActiveOther: the boot logical unit is forgotten.
SetActiveKeepsLun ==
  /\ pc = "setActive"
  /\ ActiveOf(ram) = OtherSlot(slot)
  /\ ram' = WithTypesSwapped(WithActive(ram, slot, op = "setActive"))
  /\ tries' = [tries EXCEPT ![slot] = 0]
  /\ pc' = "markSet"
  /\ UNCHANGED <<storage, ret, at, op, slot, firstBoot, faults, failed>>

\* The other slot is active: SwitchPtnSlots exchanges the type GUIDs in RAM
\* and, on UFS, goes on with the boot logical unit.
SetActiveOther ==
  /\ pc = "setActive"
  /\ ActiveOf(ram) = OtherSlot(slot)
  /\ ram' = WithTypesSwapped(WithActive(ram, slot, op = "setActive"))
  /\ tries' = [tries EXCEPT ![slot] = 0]
  /\ pc' = IF IsUfs THEN "setLun" ELSE "markSet"
  /\ UNCHANGED <<storage, ret, at, op, slot, firstBoot, faults, failed>>

\* UfsGetSetBootLun twice at the end of SwitchPtnSlots.  If the unit cannot be
\* read, UfsBootLun is still 0, and unit 0 is set.
SetBootLun ==
  /\ pc = "setLun"
  /\ LunSwitched \/ (LunRequestFails /\ bootLun' \in {bootLun, 0})
  /\ pc' = "markSet"
  /\ UNCHANGED <<ram, gpt, torn, ret, at, op, slot, firstBoot, tries>>

\* The last UpdatePartitionAttributes of SetActiveSlot, and then either the
\* one of CmdSetActive or the reset of HandleActiveSlotUnbootable.
FinishSetActive ==
  /\ \/ pc = "setDone" /\ op = "setActive" /\ FlushThen("trail")
     \/ pc = "setDone" /\ op # "setActive" /\ FlushThen("reset")
     \/ pc = "trail" /\ FlushThen("idle")
  /\ UNCHANGED <<ram, storage, op, slot, firstBoot, faults, failed, tries>>

-----------------------------------------------------------------------------
(* The other callers                                                       *)

\* CmdBoot: ClearUnbootable, then LoadImageAndAuth
ClearUnbootable ==
  /\ pc = "clear"
  /\ ActiveOf(ram) # NoSlot
  /\ ram' = WithUnbootableCleared(ram, ActiveOf(ram))
  /\ FlushThen("find")
  /\ UNCHANGED <<storage, op, slot, firstBoot, faults, failed, tries>>

\* Mutant of FastbootUpdateAttr: the table is not written.
FastbootUpdateAttrInRam ==
  /\ pc = "flashAttr"
  /\ ram' = WithFlashedAttr(ram, slot)
  /\ tries' = [tries EXCEPT ![slot] = 0]
  /\ pc' = "idle"
  /\ UNCHANGED <<storage, ret, at, op, slot, firstBoot, faults, failed>>

\* CmdFlash and CmdErase of boot_x
FastbootUpdateAttr ==
  /\ pc = "flashAttr"
  /\ ram' = WithFlashedAttr(ram, slot)
  /\ tries' = [tries EXCEPT ![slot] = 0]
  /\ FlushThen("idle")
  /\ UNCHANGED <<storage, op, slot, firstBoot, faults, failed>>

Enter(label, name, s) ==
  /\ pc = "idle"
  /\ pc' = label /\ op' = name /\ slot' = s
  /\ UNCHANGED <<ram, storage, ret, at, firstBoot, faults, failed, tries>>

Call ==
  \/ Enter("find", "find", NoSlot)
  \/ Enter("clear", "boot", NoSlot)
  \/ \E s \in Slots : Enter("setActive", "setActive", s)
  \/ \E s \in Slots : Enter("flashAttr", "flashAttr", s)

\* LoadImageAndAuth after FindBootableSlot: the image does not verify ...
VerifyFails ==
  /\ pc = "found"
  /\ pc' = "unbootable"
  /\ UNCHANGED <<ram, storage, ret, at, op, slot, firstBoot, faults, failed, tries>>

\* ... or it does, and BootLinux hands the machine over.
BootOs ==
  /\ pc = "found"
  /\ pc' = "os"
  /\ tries' = [tries EXCEPT ![slot] =
                 IF op = "find" /\ ~ram["boot"][slot].suc /\ @ <= MaxRetry
                 THEN @ + 1 ELSE @]
  /\ UNCHANGED <<ram, storage, ret, at, op, slot, firstBoot, faults, failed>>

\* BootLinux finds the image unusable and returns; the loader goes on with
\* fastboot.
BootLinuxReturns ==
  /\ pc = "found"
  /\ pc' = "idle"
  /\ UNCHANGED <<ram, storage, ret, at, op, slot, firstBoot, faults, failed, tries>>

-----------------------------------------------------------------------------
(* The operating system and the power supply                               *)

\* The system that came up marks its own slot successful.
OsMarkSuccessful ==
  /\ pc = "os"
  /\ gpt' = [c \in Copies |->
               UpdBoot(gpt[c], slot, [gpt[c]["boot"][slot] EXCEPT !.suc = TRUE])]
  /\ tries' = [tries EXCEPT ![slot] = 0]
  /\ UNCHANGED <<ram, torn, bootLun, pc, ret, at, op, slot, firstBoot, faults, failed>>

\* An orderly reboot or shutdown: nothing is being written.
Reboot ==
  /\ pc \in {"idle", "os"}
  /\ pc' = "off" /\ op' = "none" /\ slot' = NoSlot
  /\ UNCHANGED <<ram, storage, ret, at, firstBoot, faults, failed, tries>>

\* Power is lost while the loader works.  A copy that is being written may
\* be left with old and new blocks that no CRC fits.
PowerCut ==
  /\ pc \notin {"off", "idle", "os"}
  /\ Fault
  /\ torn' = torn \/ HalfWritten
  /\ pc' = "off" /\ op' = "none" /\ slot' = NoSlot
  /\ ret' = "idle" /\ at' = Start
  /\ UNCHANGED <<ram, gpt, bootLun, firstBoot, failed, tries>>

-----------------------------------------------------------------------------

Loader ==
  \/ PowerUp \/ RestoreCopy \/ Present \/ Flush
  \/ DefaultSlot \/ NoActiveSlot \/ Query
  \/ FindProven \/ FindOnTrial \/ FindUnbootable
  \/ ValidateSlotGuids \/ MarkPtnActive
  \/ MarkUnbootable \/ Fallback \/ ResetSystem
  \/ SetActiveSame \/ SetActiveOther \/ SetBootLun \/ FinishSetActive
  \/ ClearUnbootable \/ FastbootUpdateAttr

Environment ==
  \/ Call \/ VerifyFails \/ BootOs \/ BootLinuxReturns
  \/ OsMarkSuccessful \/ Reboot \/ PowerCut

Next == Loader \/ Environment

Spec == Init /\ [][Next]_vars

-----------------------------------------------------------------------------
(* Properties                                                              *)

\* Every logical unit has a copy of its table whose CRC is right.  One fault,
\* wherever it falls into UpdatePartitionAttributes or into the firmware's
\* repair, never leaves a unit without partitions, and neither do two, unless a
\* request that the loader saw fail half way and went on after is the first of
\* them: the loader repairs nothing until the next start.
LunReadable ==
  (faults <= 1 \/ (faults <= 2 /\ "table" \notin failed)) =>
    \A l \in Luns : Readable(l)

\* In RAM and in both copies on the storage, at every instant, at most one boot
\* slot is active and an active one has the top priority: at whatever step of
\* a slot switch the device goes down, the loader that comes up finds one
\* slot, never a tie that only the order of GetActiveSlot's loop decides.
OneActive(t) ==
  /\ \A s \in Slots : t["boot"][s].act => t["boot"][s].pri = MaxPriority
  /\ ~(t["boot"]["_a"].act /\ t["boot"]["_b"].act)

SelectionSane == OneActive(ram) /\ \A c \in Copies : OneActive(gpt[c])

\* From a factory table or one in use, GetActiveSlot does not take its "no active
\* slot found" return: a table without an active slot is one that no loader has
\* written.  It takes three lost writes in one first boot, and a system that
\* marks the slot successful all the same, to get there.
ActiveSlotFound ==
  faults <= 2 =>
    \A t \in {ram, gpt[Primary], gpt[Backup]} :
      ActiveOf(t) = NoSlot => IsFirstBoot(t)

\* The table the loader keeps in RAM is what the storage holds whenever the
\* loader waits for a command or hands over, if no write was lost: no entry
\* point forgets the write that follows its last change.
CacheCurrent ==
  (faults = 0 /\ pc \in {"idle", "found"}) => \A c \in Copies : gpt[c] = ram

\* With no write lost, whenever the loader waits, hands over, or the system
\* runs, the active slot, the identifying type GUIDs of all partitions and
\* the UFS boot logical unit name the same slot.
SlotsCoherent ==
  (faults = 0 /\ pc \in {"idle", "found", "os"} /\ ActiveOf(View) # NoSlot) =>
    /\ TypesOn(View, ActiveOf(View))
    /\ IsUfs => bootLun = LunFor(ActiveOf(View))

\* A set_active that was answered with OKAY leaves that slot active and armed,
\* whatever happened to the device before or to its own writes: this is what a
\* user relies on to repair an interrupted switch.  The boot logical unit is
\* that slot's too, provided that it answered this time and is unit 1 or 2.
SetActiveEstablishes ==
  (pc = "idle" /\ op = "setActive") =>
    /\ ActiveOf(ram) = slot
    /\ OnTrial(ram["boot"][slot]) /\ ram["boot"][slot].ret = MaxRetry
    /\ ~ram["boot"][OtherSlot(slot)].act
    /\ (IsUfs /\ "lun" \notin failed /\ bootLun # 0) => bootLun = LunFor(slot)

\* A slot that FindBootableSlot accepts has the identifying type GUIDs of all
\* partitions, so that the firmware loads the same slot's partitions that the
\* loader boots.  The code says "Validate slot suffix and partition guids".
FoundGuidsValid ==
  pc = "found" => \A p \in Ptns : ram[p][slot].type = "own"

\* A slot that never reported success is started at most MaxRetry times after
\* it was armed, even if one write is lost or the power is cut once.
AttemptsBounded ==
  faults <= 1 =>
    \A s \in Slots :
      ~View["boot"][s].suc => tries[s] + View["boot"][s].ret <= MaxRetry

\* The first power cut of a device, wherever it falls into the writing of the
\* tables, brings every logical unit back with its last complete table: the
\* primary copy is written while the backup copy still equals it.
CutKeepsTable == [][(PowerCut /\ faults = 0) => View' = View]_vars
=============================================================================
