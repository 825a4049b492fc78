----------------------------- MODULE TableFlash ------------------------------
(***************************************************************************)
(* Fastboot and the partition table of the unit with the boot partitions:  *)
(* flash partition[:lun] (CmdFlash, UpdatePartitionTable, WriteGpt,        *)
(* ReenumeratePartTable), set_active, and flash or erase of boot_x, with   *)
(* the three copies of what they change: the table on the storage,         *)
(* PtnEntries in RAM, and the answers to getvar that BootSlotInfo and      *)
(* CurrentSlotFB keep.                                                     *)
(*                                                                         *)
(* A flashed table is written in pieces, over an erased unit, one request  *)
(* after the other; each may fail, and power may be lost in each.  The     *)
(* loader starts again if the firmware finds a table with boot partitions. *)
(*                                                                         *)
(* The partitions of a table are [name, t]: name tells the layout, t the   *)
(* attributes of the pairs.  A header carries the CRC of one such value.   *)
(* WriteGpt puts the backup entries 33 blocks before the end of the unit.  *)
(* UpdatePartitionAttributes looks for them there with the 512 byte blocks *)
(* of eMMC, and 5 blocks before the end with the 4096 byte blocks of UFS;  *)
(* a header that refers to the first place of two is called far.           *)
(*                                                                         *)
(* Bounds: MaxFlashes partition flashes, and together MaxMishaps failed     *)
(* requests and power cuts while a command is carried out.                 *)
(***************************************************************************)
EXTENDS SlotTable

CONSTANTS
  Layouts,     \* the partitions before the first flash
  Images,      \* what a host may send to "flash partition"
  MaxFlashes, MaxMishaps

AbNames   == {"ab1", "ab2"}            \* layouts with boot_a and boot_b
BootNames == AbNames \cup {"plain"}    \* "plain" has one boot partition
ImgNames  == BootNames \cup {"other"}  \* "other" has none
Names     == ImgNames \cup {"none", "mixed", "torn"}

Partitions == [name : Names, t : Table]

\* The device starts before the first flash; a host may send any table.
ASSUME FlashAssumption ==
  /\ Layouts \subseteq [name : BootNames, t : Table]
  /\ Images \subseteq [gpt : BOOLEAN, pri : BOOLEAN, home : BOOLEAN,
                        bak : BOOLEAN, parts : [name : ImgNames, t : Table]]
  /\ {MaxFlashes, MaxMishaps} \subseteq Nat

VARIABLES
  ufs,      \* the boot device is UFS
  disk,     \* the pieces of the table on the storage
  ram,      \* Ptable and PtnEntries
  bootLun,  \* the UFS boot logical unit, 0 for none
  lun,      \* Lun: the unit of the last "partition:n", kept between commands
  second,   \* ParseSecondaryGpt
  fbvars,   \* BootSlotInfo (info, att), CurrentSlotFB, InitialPopulate
  pc,       \* where the loader is
  at, left, ret,    \* UpdatePartitionAttributes: copy, calls to come, return
  img, slot, form,  \* arguments of the command
  reply,    \* what the host was told last
  open,     \* history: an erase was not followed by a primary copy
  failed,   \* history: a flash ended between the erase and the refresh
  outdated, \* history: since the loader started a table with slots replaced
            \* another one, or set_active:_x came back
  forced,   \* history: partition flashed since the last set_active
  flashes, faults, cuts

static  == <<bootLun, lun, second>>
call    == <<at, left, ret>>
args    == <<img, slot, form>>
history == <<open, failed, outdated, forced>>
bounds  == <<flashes, faults, cuts>>
vars == <<ufs, disk, ram, static, fbvars, pc, call, args, reply, history, bounds>>

\* Lun: none yet, the unit of this model, or one not below MAX_LUNS
NoLun  == -1
Home   == 0
BadLun == 9

ZeroTable == [p \in Ptns |-> [s \in Slots |->
  [type |-> "idle", pri |-> 0, act |-> FALSE, ret |-> 0, suc |-> FALSE,
   unb |-> FALSE]]]
Parts(n) == [name |-> n, t |-> ZeroTable]
None == Parts("none")

-----------------------------------------------------------------------------
(* The pieces of a table and what the firmware makes of them               *)

Header(my, far, crc) == [sig |-> TRUE, my |-> my, far |-> far, crc |-> crc]
NoHeader == [sig |-> FALSE, my |-> FALSE, far |-> FALSE, crc |-> None]

\* As it leaves the factory: the backup entries are where
\* UpdatePartitionAttributes looks for them.
Whole(p) ==
  [mbr |-> TRUE, priHdr |-> Header(TRUE, FALSE, p), priEnt |-> p,
   bakHdr |-> Header(TRUE, FALSE, p), bakEnt |-> p, farEnt |-> None]

Erased == [mbr |-> FALSE, priHdr |-> NoHeader, priEnt |-> None,
           bakHdr |-> NoHeader, bakEnt |-> None, farEnt |-> None]

\* PartitionValidGptTable: signature, own address and the entries' CRC.
Valid(hdr, ent) == hdr.sig /\ hdr.my /\ hdr.crc = ent
BakEntries(d) == IF d.bakHdr.far THEN d.farEnt ELSE d.bakEnt
PriValid(d) == Valid(d.priHdr, d.priEnt)
BakValid(d) == Valid(d.bakHdr, BakEntries(d))

\* PartitionInstallGptChildHandles: the primary copy if it is valid, else
\* the backup copy; nothing without a protective MBR.
Presented(d) ==
  IF d.mbr /\ PriValid(d) THEN d.priEnt
  ELSE IF d.mbr /\ BakValid(d) THEN BakEntries(d) ELSE None

\* Entries of a backup copy, at the place its header refers to.
PutBak(d, hdr, ent) ==
  IF hdr.far THEN [d EXCEPT !.bakHdr = hdr, !.farEnt = ent]
             ELSE [d EXCEPT !.bakHdr = hdr, !.bakEnt = ent]

\* Mutant of Restored: only the primary copy is repaired.
RestoredPrimary(d) ==
  IF d.mbr /\ ~PriValid(d) /\ BakValid(d)
  THEN [d EXCEPT !.priHdr = d.bakHdr, !.priEnt = BakEntries(d)]
  ELSE d

\* PartitionRestoreGptTable: an invalid copy is rewritten from the valid one,
\* the backup entries after the last usable block.
Restored(d) ==
  IF d.mbr /\ PriValid(d) /\ ~BakValid(d) THEN PutBak(d, d.priHdr, d.priEnt)
  ELSE IF d.mbr /\ ~PriValid(d) /\ BakValid(d)
  THEN [d EXCEPT !.priHdr = d.bakHdr, !.priEnt = BakEntries(d)]
  ELSE d

\* What a power cut, or an error, leaves of EraseBlocks: some of the blocks.
Spared(d, m, p, b) ==
  [d EXCEPT !.mbr = @ /\ m,
            !.priHdr = IF p THEN @ ELSE NoHeader,
            !.bakHdr = IF b THEN @ ELSE NoHeader]

PartlyErased(d) ==
  {Spared(d, m, p, b) : m \in BOOLEAN, p \in BOOLEAN, b \in BOOLEAN}

-----------------------------------------------------------------------------
(* The table in RAM                                                        *)

MultiSlot(r) == r.name \in AbNames           \* PartitionHasMultiSlot (boot)
Active(r) == IF MultiSlot(r) THEN ActiveOf(r.t) ELSE NoSlot
LunFor(s) == IF s = "_a" THEN 1 ELSE 2

\* UpdatePartitionAttributes puts attributes and type GUIDs into the entries
\* it read, one after the other, without looking at names: in entries of
\* another layout, or in erased ones, they end up where they do not belong.
Over(ent, r) ==
  IF r.name = "none" THEN ent
  ELSE IF r.name = ent.name THEN r ELSE Parts("mixed")

\* The variables of one slot
Att(e) == [suc |-> e.suc, unb |-> e.unb, ret |-> e.ret]
FreshAtt == [suc |-> FALSE, unb |-> FALSE, ret |-> MaxRetry]
NoVars == [pop |-> FALSE, info |-> FALSE, cur |-> NoSlot,
           att |-> [s \in Slots |-> FreshAtt]]

NoImage == [gpt |-> FALSE, pri |-> FALSE, home |-> FALSE, bak |-> FALSE,
            parts |-> None]

-----------------------------------------------------------------------------
(* States                                                                  *)

Init ==
  /\ ufs \in BOOLEAN
  /\ ram \in Layouts /\ disk = Whole(ram)
  /\ bootLun = IF Active(ram) = "_b" THEN 2 ELSE 1
  /\ lun = NoLun /\ second = FALSE /\ fbvars = NoVars
  /\ pc = "off" /\ at = 0 /\ left = 1 /\ ret = "ready"
  /\ img = NoImage /\ slot = "_a" /\ form = "bare" /\ reply = "none"
  /\ open = FALSE /\ failed = FALSE /\ outdated = FALSE /\ forced = FALSE
  /\ flashes = 0 /\ faults = 0 /\ cuts = 0

\* The arguments of a command are gone when it is answered.
Answer(text) ==
  /\ reply' = text /\ pc' = "ready"
  /\ img' = NoImage /\ slot' = "_a" /\ form' = "bare"

Goto(label) == pc' = label /\ UNCHANGED <<reply, args>>

\* A request fails, as far as the bound allows.
Mishap == faults + cuts < MaxMishaps /\ faults' = faults + 1

-----------------------------------------------------------------------------
(* flash partition[:lun]                                                   *)

\* GetStorageHandle: eMMC answers to NO_LUN and UFS to its units; any other
\* number finds no handle, which is not an error.
Found(n) == IF ufs THEN n = Home ELSE n = NoLun

\* UpdatePartitionTable and ParseGptHeader, before anything is written: MBR
\* of a GPT, primary header, its address unless ParseSecondaryGpt is set,
\* backup header.
PrimaryParses(i) == i.pri /\ (second \/ i.home)

\* UfsGetSetBootLun of CmdFlash: unit 1 is set unless it is read.  Whether a
\* request failed is not looked at.
SetFirstBootLun ==
  \/ bootLun' = (IF ufs THEN 1 ELSE bootLun) /\ faults' = faults
  \/ ufs /\ Mishap /\ bootLun' = bootLun

\* CmdFlash of "partition".  The boot unit is set and Lun is kept whatever
\* becomes of the command; WriteGpt returns success if no unit answers.
CmdFlashTable ==
  /\ pc = "ready" /\ flashes < MaxFlashes
  /\ flashes' = flashes + 1
  /\ \E i \in Images, n \in {NoLun, Home, BadLun} :
       LET to     == IF n = NoLun THEN lun ELSE n
           parsed == i.gpt /\ Found(to) /\ PrimaryParses(i)
       IN
       /\ lun' = to
       /\ IF n = BadLun
          THEN Answer("fail") /\ UNCHANGED <<bootLun, second, forced, faults>>
          ELSE /\ SetFirstBootLun
               /\ forced' = TRUE
               /\ second' = (second \/ parsed)
               /\ \/ /\ i.gpt /\ ~Found(to)
                     /\ pc' = "refresh" /\ reply' = "none" /\ img' = i
                     /\ UNCHANGED <<slot, form>>
                  \/ /\ parsed /\ i.bak
                     /\ pc' = "erase" /\ reply' = "none" /\ img' = i
                     /\ UNCHANGED <<slot, form>>
                  \/ /\ ~i.gpt \/ (Found(to) /\ ~(parsed /\ i.bak))
                     /\ Answer("fail")
  /\ UNCHANGED <<ufs, disk, ram, fbvars, call, open, failed, outdated, cuts>>

Writing == {"erase", "mbr", "priHdr", "bakHdr", "priEnt", "bakEnt"}

\* PatchGpt: the primary header keeps its own address, the backup header gets
\* address 1; both get the CRC of their entries.
PatchedPri == Header(img.home, ufs, img.parts)
PatchedBak == Header(FALSE, ufs, img.parts)

\* Mutant of Piece: PatchGpt fills in no CRC for the primary entries.
PieceUnpatched(d) ==
  CASE pc = "erase"  -> Erased
    [] pc = "mbr"    -> [d EXCEPT !.mbr = TRUE]
    [] pc = "priHdr" -> [d EXCEPT !.priHdr = Header(img.home, ufs, None)]
    [] pc = "bakHdr" -> [d EXCEPT !.bakHdr = PatchedBak]
    [] pc = "priEnt" -> [d EXCEPT !.priEnt = img.parts]
    [] OTHER         -> PutBak(d, d.bakHdr, img.parts)

\* The six requests of WriteGpt
Piece(d) ==
  CASE pc = "erase"  -> Erased
    [] pc = "mbr"    -> [d EXCEPT !.mbr = TRUE]
    [] pc = "priHdr" -> [d EXCEPT !.priHdr = PatchedPri]
    [] pc = "bakHdr" -> [d EXCEPT !.bakHdr = PatchedBak]
    [] pc = "priEnt" -> [d EXCEPT !.priEnt = img.parts]
    [] OTHER         -> PutBak(d, d.bakHdr, img.parts)

\* What is left of the request when it fails or power is lost.
Partial(d) ==
  CASE pc = "erase"  -> PartlyErased(d)
    [] pc = "priEnt" -> {d, [d EXCEPT !.priEnt = Parts("torn")]}
    [] pc = "bakEnt" -> {d, PutBak(d, d.bakHdr, Parts("torn"))}
    [] OTHER         -> {d}

After(label) ==
  CASE label = "erase"  -> "mbr"    [] label = "mbr"    -> "priHdr"
    [] label = "priHdr" -> "bakHdr" [] label = "bakHdr" -> "priEnt"
    [] label = "priEnt" -> "bakEnt" [] OTHER            -> "refresh"

WriteGpt ==
  /\ pc \in Writing
  /\ disk' = Piece(disk)
  /\ pc' = After(pc)
  /\ open' = IF pc = "erase" THEN TRUE ELSE IF pc = "priEnt" THEN FALSE ELSE open
  /\ UNCHANGED <<ufs, ram, static, fbvars, call, args, reply, failed, outdated,
                 forced, bounds>>

\* An error ends the command, and PtnEntries stays what it was.
WriteGptFails ==
  /\ pc \in Writing
  /\ Mishap
  /\ disk' \in Partial(disk)
  /\ Answer("fail")
  /\ failed' = TRUE
  /\ open' = IF pc = "erase" THEN TRUE ELSE open
  /\ UNCHANGED <<ufs, ram, static, fbvars, call, outdated, forced, flashes, cuts>>

-----------------------------------------------------------------------------
(* ReenumeratePartTable, also when nothing was written                     *)

\* Mutant of Refresh: EnumeratePartitions finds the handles of before.
RefreshStale ==
  /\ pc = "refresh"
  /\ disk' = Restored(disk) /\ ram' = ram
  /\ IF MultiSlot(ram) THEN Goto("active") ELSE Answer("okay")
  /\ UNCHANGED <<ufs, fbvars, static, call, history, bounds>>

\* Mutant of Cleared: InitialPopulate is not reset.
ClearedButPopulated ==
  IF fbvars.info THEN [NoVars EXCEPT !.pop = TRUE] ELSE fbvars

\* "Nullifying A/B info", if BootSlotInfo is allocated.  (SlotCount, which
\* no property is about, is not reset and only added to.)
Cleared == IF fbvars.info THEN NoVars ELSE fbvars

\* The event makes the firmware read the unit again, and repair the backup
\* copy unless that fails.  IsBootPtnUpdated looks at the handles of Lun;
\* with a number beyond MAX_LUNS it looks beyond Ptable and may find anything.
Refresh ==
  /\ pc = "refresh"
  /\ \/ disk' = Restored(disk) /\ faults' = faults
     \/ /\ disk # Restored(disk) /\ disk' = disk
        /\ Mishap
  /\ ram' = Presented(disk)
  /\ \E updated \in BOOLEAN :
       /\ lun # BadLun => updated = (ram'.name \in BootNames)
       /\ IF updated /\ MultiSlot(ram')
          THEN Goto("active") /\ UNCHANGED fbvars
          ELSE /\ fbvars' = IF updated THEN Cleared ELSE fbvars
               /\ Answer("okay")
  /\ UNCHANGED <<ufs, static, call, history, flashes, cuts>>

\* CreateEventEx, SignalEvent or EnumeratePartitions fails.
RefreshFails ==
  /\ pc = "refresh"
  /\ Mishap
  /\ Answer("fail")
  /\ failed' = TRUE
  /\ UNCHANGED <<ufs, disk, ram, static, fbvars, call, open, outdated, forced,
                 flashes, cuts>>

StoreThen(label, n) == pc' = "store" /\ ret' = label /\ at' = 0 /\ left' = n

\* GetActiveSlot in FindPtnActiveSlot and in SetActiveSlot: a new table gets
\* slot _a as its default.
DefaultSlot ==
  /\ pc \in {"active", "setActive"}
  /\ Active(ram) = NoSlot /\ IsFirstBoot(ram.t)
  /\ ram' = [ram EXCEPT !.t = WithDefault(@)]
  /\ StoreThen(IF pc = "active" THEN "populate" ELSE pc, 1)
  /\ UNCHANGED <<ufs, disk, static, fbvars, args, reply, history, bounds>>

FindPtnActiveSlot ==
  /\ pc = "active"
  /\ Active(ram) # NoSlot \/ ~IsFirstBoot(ram.t)
  /\ pc' = "populate"
  /\ UNCHANGED <<ufs, disk, ram, static, fbvars, call, args, reply, history, bounds>>

\* The first time all variables are filled in from the table; later a table
\* is assumed to be new, and current-slot and slot-count stay.
PopulateMultislotMetadata ==
  /\ pc = "populate"
  /\ IF fbvars.pop
     THEN /\ fbvars' = [fbvars EXCEPT !.att = [s \in Slots |-> FreshAtt]]
          /\ outdated' = TRUE
     ELSE /\ fbvars' = [pop |-> TRUE, info |-> TRUE,
                        cur |-> Active(ram),
                        att |-> [s \in Slots |-> Att(ram.t["boot"][s])]]
          /\ UNCHANGED outdated
  /\ Answer(IF reply = "start" THEN "start" ELSE "okay")
  /\ UNCHANGED <<ufs, disk, ram, static, call, open, failed, forced, bounds>>

-----------------------------------------------------------------------------
(* UpdatePartitionAttributes: the primary copy, then the backup copy where *)
(* it is expected; a copy that already agrees is left alone.               *)

Stored(d) ==
  LET pri == Over(d.priEnt, ram)
      bak == Over(d.bakEnt, ram)
  IN  IF at = 0
      THEN IF pri = d.priEnt THEN d
           ELSE [d EXCEPT !.priEnt = pri, !.priHdr.crc = pri]
      ELSE IF bak = d.bakEnt THEN d
           ELSE [d EXCEPT !.bakEnt = bak, !.bakHdr.crc = bak]

TornCopy(d) ==
  IF at = 0 THEN [d EXCEPT !.priHdr.crc = Parts("torn")]
            ELSE [d EXCEPT !.bakHdr.crc = Parts("torn")]

\* What is left of the request for the header and the entries when it fails or
\* power is lost: no CRC fits the entries, be they old or new.
HalfStored(d) ==
  IF Stored(d) = d THEN {d} ELSE {d, TornCopy(d), TornCopy(Stored(d))}

CallReturns ==
  /\ at' = 0
  /\ IF left > 1
     THEN left' = left - 1 /\ UNCHANGED <<ret, pc, reply, args>>
     ELSE /\ left' = 1 /\ ret' = "ready"
          /\ IF ret = "ready" THEN Answer("okay") ELSE Goto(ret)

Store ==
  /\ pc = "store"
  /\ disk' = Stored(disk)
  /\ IF at = 0 THEN at' = 1 /\ UNCHANGED <<left, ret, pc, reply, args>>
               ELSE CallReturns
  /\ UNCHANGED <<ufs, ram, static, fbvars, history, bounds>>

\* The copies still to come are left alone, and the caller is not told.
StoreFails ==
  /\ pc = "store"
  /\ Mishap
  /\ disk' \in HalfStored(disk)
  /\ CallReturns
  /\ UNCHANGED <<ufs, ram, static, fbvars, history, flashes, cuts>>

-----------------------------------------------------------------------------
(* set_active:x, and flash or erase of boot_x                              *)

CmdSetActive ==
  /\ pc = "ready"
  /\ \/ /\ MultiSlot(ram)
        /\ slot' \in Slots /\ form' \in {"bare", "underscore"}
        /\ pc' = "setActive" /\ reply' = "none" /\ UNCHANGED img
     \/ ~MultiSlot(ram) /\ Answer("fail")
  /\ UNCHANGED <<ufs, disk, ram, static, fbvars, call, history, bounds>>

\* The boot unit that is asked for: 1 is exchanged for 2 and 2 for 1, and a
\* device that boots from neither is left as it is.
SwitchedLun == IF ufs /\ bootLun # 0 THEN LunFor(slot) ELSE bootLun

\* UfsGetSetBootLun, whose failures SetActiveSlot does not look at.  If the
\* unit cannot be read, SwitchPtnSlots sets its initial value 0.
SwitchBootLun ==
  \/ bootLun' = SwitchedLun /\ faults' = faults
  \/ /\ ufs /\ Mishap
     /\ \/ bootLun' = bootLun
        \/ Active(ram) # slot /\ bootLun' = 0

\* Mutant of SetActiveSlot: the boot unit of an active slot is not looked at.
SetActiveSlotTrusting ==
  /\ pc = "setActive"
  /\ Active(ram) # NoSlot
  /\ LET t == WithActive(ram.t, slot, TRUE) IN
     IF Active(ram) = slot
     THEN /\ ram' = [ram EXCEPT !.t = t]
          /\ StoreThen("setVars", 1) /\ UNCHANGED bootLun
     ELSE /\ ram' = [ram EXCEPT !.t = WithActiveBits(WithTypesSwapped(t), slot)]
          /\ StoreThen("setVars", 2)
          /\ bootLun' = IF ufs THEN LunFor(slot) ELSE bootLun
  /\ forced' = FALSE
  /\ UNCHANGED <<ufs, disk, lun, second, fbvars, args, reply, open, failed,
                 outdated, bounds>>

\* SetActiveSlot: the boot unit is seen to in both cases, a slot that was
\* not active is written by MarkPtnActive first.
SetActiveSlot ==
  /\ pc = "setActive"
  /\ Active(ram) # NoSlot
  /\ LET t == WithActive(ram.t, slot, TRUE) IN
     IF Active(ram) = slot
     THEN ram' = [ram EXCEPT !.t = t] /\ StoreThen("setVars", 1)
     ELSE /\ ram' = [ram EXCEPT !.t = WithActiveBits(WithTypesSwapped(t), slot)]
          /\ StoreThen("setVars", 2)
  /\ SwitchBootLun
  /\ forced' = FALSE
  /\ UNCHANGED <<ufs, disk, lun, second, fbvars, args, reply, open, failed,
                 outdated, flashes, cuts>>

SetActiveFails ==
  /\ pc = "setActive"
  /\ Active(ram) = NoSlot /\ ~IsFirstBoot(ram.t)
  /\ Answer("fail")
  /\ UNCHANGED <<ufs, disk, ram, static, fbvars, call, history, bounds>>

WithFreshVars == [fbvars EXCEPT !.att[slot] = FreshAtt]

\* CmdSetActive after SetActiveSlot.  BootSlotInfo holds "a" and "b": the
\* loop finds the argument "a" in "a", but "_a" in none of them, and goes on
\* behind the end of the array.
SetActiveVars ==
  /\ pc = "setVars"
  /\ IF form = "bare" /\ fbvars.info
     THEN /\ fbvars' = [WithFreshVars EXCEPT !.cur = Active(ram)]
          /\ StoreThen("ready", 1)
     ELSE /\ fbvars' = [fbvars EXCEPT !.cur = Active(ram)]
          /\ pc' = "spin" /\ UNCHANGED call
  /\ UNCHANGED <<ufs, disk, ram, static, args, reply, history, bounds>>

\* The memory behind the array may happen to hold the argument.
SpinEnds ==
  /\ pc = "spin"
  /\ StoreThen("ready", 1)
  /\ outdated' = TRUE
  /\ UNCHANGED <<ufs, disk, ram, static, fbvars, args, reply, open, failed,
                 forced, bounds>>

\* FastbootUpdateAttr
CmdFlashBoot ==
  /\ pc = "ready" /\ MultiSlot(ram)
  /\ \E s \in Slots :
       slot' = s /\ ram' = [ram EXCEPT !.t = WithFlashedAttr(@, s)]
  /\ StoreThen("attrVars", 1) /\ reply' = "none"
  /\ UNCHANGED <<ufs, disk, static, fbvars, img, form, history, bounds>>

\* Mutant of FlashBootVars: the variables are left to the next start.
FlashBootAnswers ==
  /\ pc = "attrVars"
  /\ Answer("okay")
  /\ UNCHANGED <<ufs, disk, ram, static, fbvars, call, history, bounds>>

FlashBootVars ==
  /\ pc = "attrVars"
  /\ fbvars' = WithFreshVars
  /\ Answer("okay")
  /\ UNCHANGED <<ufs, disk, ram, static, call, history, bounds>>

-----------------------------------------------------------------------------
(* Power                                                                   *)

\* A reboot while the loader waits is a power cut that hurts nothing.
PowerOff ==
  /\ pc # "off"
  /\ \/ pc \in {"ready", "spin"} /\ cuts' = cuts
     \/ faults + cuts < MaxMishaps /\ cuts' = cuts + 1
  /\ disk' \in CASE pc \in Writing -> Partial(disk)
                 [] pc = "store"   -> HalfStored(disk)
                 [] OTHER          -> {disk}
  /\ open' = IF pc = "erase" THEN TRUE ELSE open
  /\ pc' = "off" /\ reply' = "none"
  /\ ram' = None /\ fbvars' = NoVars
  /\ lun' = NoLun /\ second' = FALSE
  /\ at' = 0 /\ left' = 1 /\ ret' = "ready"
  /\ img' = NoImage /\ slot' = "_a" /\ form' = "bare"
  /\ outdated' = FALSE
  /\ UNCHANGED <<ufs, bootLun, failed, forced, flashes, faults>>

\* The loader is on the same unit: without a table there is nothing to start.
\* (A mixed table has the partitions of no layout and is not started either.)
PowerOn ==
  /\ pc = "off"
  /\ Presented(disk).name \in BootNames
  /\ \/ disk' = Restored(disk) /\ faults' = faults
     \/ /\ disk # Restored(disk) /\ PriValid(disk) /\ disk' = disk
        /\ Mishap
  /\ ram' = Presented(disk)
  /\ pc' = IF MultiSlot(ram') THEN "active" ELSE "ready"
  /\ reply' = "start"
  /\ UNCHANGED <<ufs, static, fbvars, call, args, history, flashes, cuts>>

Loader ==
  \/ WriteGpt \/ WriteGptFails \/ Refresh \/ RefreshFails
  \/ DefaultSlot \/ FindPtnActiveSlot \/ PopulateMultislotMetadata
  \/ Store \/ StoreFails
  \/ SetActiveSlot \/ SetActiveFails \/ SetActiveVars \/ FlashBootVars

Next ==
  \/ Loader \/ SpinEnds
  \/ CmdFlashTable \/ CmdSetActive \/ CmdFlashBoot
  \/ PowerOff \/ PowerOn

\* The loader is one thread that waits for nobody between two commands.
Spec == Init /\ [][Next]_vars /\ WF_vars(Loader)

-----------------------------------------------------------------------------
(* Properties                                                              *)

Quiet == faults = 0 /\ cuts = 0

\* Once the new primary copy is complete, eMMC presents a table whatever
\* single request fails and wherever power is lost once, in the flash itself
\* or in any later command: from there to the repair of the backup copy, whose
\* header PatchGpt gives the wrong address, the primary copy stands alone.
\* (A table whose primary header was accepted with another address is lost.)
TableReadable ==
  (~ufs /\ ~open /\ faults + cuts <= 1 /\ (disk.priHdr.sig => disk.priHdr.my))
    => Presented(disk).name # "none"

\* A flash that is not refused presents the image, with right CRCs in spite
\* of PatchGpt's changes, if its number has a unit and its primary header
\* names its own place.  Otherwise the host is told OKAY all the same.
FlashedTablePresented ==
  [][(pc = "refresh" /\ reply' # "fail" /\ pc' # "off" /\ Found(lun) /\ img.home)
       => ram' = img.parts /\ Presented(disk') = img.parts]_vars

\* As long as no request failed, the loader works with the table that the
\* firmware would present: no command is carried out on a table that a flash
\* replaced.
RamFollowsDisk ==
  (pc = "ready" /\ faults = 0) => ram = Presented(disk)

\* Entries of one layout never get type GUIDs and attributes of another one,
\* as long as no flash has failed between the erase and the refresh.  After
\* such a failure PtnEntries is the old table, and set_active writes it.
TablesWhole == Presented(disk).name = "mixed" => failed

\* What getvar answers for the slots is what the table in RAM says, after
\* every command and power cut, as long as no request failed, no table with
\* slots replaced another one and no set_active:_x came back.
VarsFollowTable ==
  (pc = "ready" /\ MultiSlot(ram) /\ ~outdated /\ faults = 0) =>
    /\ fbvars.cur = Active(ram)
    /\ \A s \in Slots : fbvars.att[s] = Att(ram.t["boot"][s])

\* set_active leaves the UFS boot unit with the active slot, also after flash
\* partition has set it to the one of _a.
BootLunFollowsActive ==
  (ufs /\ Quiet /\ pc = "ready" /\ ~forced /\ Active(ram) # NoSlot) =>
    bootLun = LunFor(Active(ram))

\* set_active of "a" or "b" is answered, whatever tables were flashed before.
\* (Of "_a" or "_b" it is not.)
SetActiveAnswered == (pc = "setActive" /\ form = "bare") ~> pc \in {"ready", "off"}

\* PartitionTableUpdate.c on the loop of UpdatePartitionAttributes: "This loop
\* iterates twice to update both primary and backup Gpt".
BackupWritten ==
  (Quiet /\ pc = "ready" /\ ram.name # "none") =>
    BakValid(disk) /\ BakEntries(disk) = disk.priEnt
=============================================================================
