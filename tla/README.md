# A TLA+ development of the Android boot loader (QcomModulePkg)

The repository is a fork of EDK II. Its own program is the Android boot loader
under `src/QcomModulePkg`: the UEFI application `LinuxLoader` with `BootLib`,
`FastbootLib` and `avb`. Everything else (MdePkg, MdeModulePkg, BaseTools,
NetworkPkg, AppPkg, ...) is the upstream framework; of it only the partition
driver (`MdeModulePkg/Universal/Disk/PartitionDxe/Gpt.c`) matters here, since
the loader relies on which copy of a partition table it presents.

`FB`, `PT`, `LL`, `DI`, `VB`, `UM` and `MK` below are `FastbootCmds.c`,
`PartitionTableUpdate.c`, `LinuxLoader.c`, `DeviceInfo.c`, `VerifiedBoot.c`,
`UnlockMenu.c` and `MenuKeysDetection.c`.

## 1. Inventory

| part | state it keeps | operations | hard behaviour | what makes it correct |
|---|---|---|---|---|
| A/B slot manager (PT) | `PtnEntries` in RAM, the primary and backup table of every logical unit, the UFS boot unit, `FirstBoot` | `GetActiveSlot`, `FindBootableSlot`, `SetActiveSlot`, `HandleActiveSlotUnbootable`, `ClearUnbootable`, `UpdatePartitionAttributes` | power cuts between and inside the writes, swallowed write errors, several tables that must agree | a readable table in every unit; one active slot; attributes, type GUIDs and boot unit name the same slot; bounded tries |
| partition driver (`Gpt.c`) | none; restores a broken copy | choose, check, restore | a restored copy may be the older one | a unit with one right copy is presented |
| boot flow (LL, VB, `BootLinux.c`, `ShutdownServices.c`) | boot mode, reset reason, boot state | power on, key and reason, load and authenticate, hand over, reset | endless resets, fallback between slots, statuses that are overwritten | a bad update leads back to the old system; a system that never works is not tried for ever |
| GPT flashing (`WriteGpt`, `PatchGpt`, `ReenumeratePartTable`, `CmdFlash`) | tables on the storage, static `Lun`, GPT parser state, cached slot variables | flash `partition:N` | erase before write, order of copies, state not reset on an error path | the storage, RAM, boot unit and answers agree after a flash; a table stays readable |
| device state (DI, UM) | `DevInfo` in RAM and in secure storage, key store, message to recovery | lock, unlock, verity mode, charger screen, user key | several writes in several places for one change | the loader acts on the stored lock state; keys and data follow it |
| fastboot session (`FastbootMain.c`, FB) | `mState`, two data buffers, flash in progress, timers | command, download, flash, completion, responses | timer callbacks during a flash, one buffer flashed while the other is filled | what is flashed is what was downloaded; failures reach the host; every command is answered |
| sparse image processing (FB, `LinuxLoaderLib.c`) | the partition, the result of the last flash | header, chunk loop, block writes | counts in two block sizes, last partial block, failures between requests, late answers | all of an image or a reported failure; nothing outside it |
| verified boot (VB, `libavb`) | rollback indexes on the storage and in RAM | slot verification, fallback | indexes that rise while a slot is verified, A/B fallback | a locked device runs what was verified and is not older; a slot to fall back to remains |
| menus and keys (MK, UM, `FastbootMenu.c`, `VerifiedBootMenu.c`) | menu state, statics of the key handler, timer event | key handler, timeouts, drawing | timer callbacks while a menu is drawn | the executed option was on the screen; waits end |
| image, device tree, command line (`BootLinux.c`, ...) | none across calls | load, relocate, patch | sizes | sequential preparation of memory |

The parts meet in these places. `LinuxLoaderEntry` reads `DeviceInfo`, reads
the partition tables that the partition driver presents into `PtnEntries`, asks
for the active slot, and then either runs `LoadImageAndAuth` followed by
`BootLinux`, or fastboot. `LoadImageAndAuth` asks the slot manager for a slot
and tells it when authentication failed; fastboot commands call the same
entry points. Menus and fastboot change the device state. The storage, the boot
unit, the reset reason, the message to recovery and the operating system (which
sets the successful bit) are all that survive a reset.

`PROJECT.json` lists the hazards of each part at their lines, with the
properties that would show them.

## 2. Modules

| module | what it is |
|---|---|
| `SlotTable` | the partition table as a value: entries with the A/B attribute bits and the type GUID, and the pure functions that read and change it |
| `SlotManager` | EXTENDS `SlotTable`: the slot manager as a state machine over RAM, storage and power |
| `TableStore` | abstract: one register per logical unit |
| `SlotStore` | `SlotManager` with the refinement mapping to `TableStore` |
| `BootFlow` | EXTENDS `SlotManager`: from power on to a system, fastboot, fallback and reset |
| `TableFlash` | EXTENDS `SlotTable`: flashing partition tables between other commands |
| `DeviceState` | lock state, key store, data and recovery |
| `KeyMenus` | menus, key timer, warnings |
| `SlotVerify` | EXTENDS `SlotTable`: AVB 2 with rollback indexes and fallback |
| `FastbootSession` | a fastboot session: event loop, command and data phases, timers, the host and its cable |
| `SparseFlash` | a host that flashes sparse and raw images in pieces, down to the requests to the storage |
| `...Proofs` | theorems, see section 4 |
| `Devices`, `MC...` | small devices, tables and images for TLC |

`SlotManager`, `TableFlash` and `SlotVerify` share `SlotTable`, so that the
reading and the changing of attributes exists once. Each of the three keeps the
part of the loader the others leave out: `SlotManager` how a change of the
attributes reaches the storage, `TableFlash` how a whole table does, and
`SlotVerify` what the one bit per slot of `BootFlow` stands for.

### SlotTable and SlotManager

`ram` is `PtnEntries`, `gpt` the two copies of the tables on the storage,
`torn` the copies whose CRC does not match, `bootLun` the UFS boot unit,
`firstBoot` the static `FirstBoot`. Control is a program counter `pc`, because
the device may lose power between any two steps: each step that changes the
storage is an action of its own, and what the code does in RAM between two
such steps is one action. `UpdatePartitionAttributes` is the label `flush`
with the cursor `at` (its loop variables `Lun` and `Iter`) and returns to
`ret`. `op` and `slot` are the entry point in progress and the slot it works
on. `faults`, `tries` and `failed` are history variables; `failed` tells of a
request that left half a table, until the next start, and of a boot unit that
could not be read or set in the last `set_active`.

| action | code (PT unless named) |
|---|---|
| `PowerUp`, `RestoreCopy`, `Present` | the partition driver checks and restores the copies; `EnumeratePartitions`, `UpdatePartitionEntries` |
| `WriteCopy`, `IoError` | one iteration of the loops of `UpdatePartitionAttributes`, and its exits |
| `DefaultSlot`, `NoActiveSlot`, `Query` | `GetActiveSlot`, `FindPtnActiveSlot` |
| `FindProven`, `FindOnTrial`, `FindUnbootable`, `ValidateSlotGuids` | `FindBootableSlot` |
| `MarkPtnActive` | `MarkPtnActive`, for both of its callers |
| `MarkUnbootable`, `Fallback`, `ResetSystem` | `HandleActiveSlotUnbootable` |
| `SetActiveSame`, `SetActiveOther`, `SetBootLun`, `FinishSetActive` | `SetActiveSlot`, `SwitchPtnSlots`, and the trailing write of `CmdSetActive`; `RepairBootLun`, `LunSwitched`, `LunRequestFails` are their calls of `UfsGetSetBootLun` (`Board.c`) |
| `ClearUnbootable`, `FastbootUpdateAttr` | the functions of these names |
| `Call`, `VerifyFails`, `BootOs`, `BootLinuxReturns` | the callers |
| `OsMarkSuccessful`, `Reboot`, `PowerCut` | the operating system and the power supply |

What is abstracted: a table entry keeps the attribute bits 48..55 and which of
the pair's two type GUIDs it has; CRCs are one bit per copy; the partitions
that exist once are left out, since the code changes only a bit of theirs that
nothing reads. `boot_a` and `boot_b` lie in one logical unit
(`LayoutAssumption`), as in every table layout the code supports.

Facts of the code that the model keeps because they matter:
`UpdatePartitionAttributes` skips a copy whose entries equal those in RAM, even
one with a wrong CRC, and recomputes the CRC of a broken copy it does change,
so a write may or may not cure a torn copy. It writes the header and the
entries of a copy with one request, of which a failure, like a power cut, may
leave a part (`HalfWritten`); it returns nothing, so a failed write leaves the
remaining copies alone and the caller goes on. Nobody looks at the status of
`UfsGetSetBootLun` when a slot is set, and it reports neither a failing
`GetBootLU` nor a failing `SetBootLU`: the unit stays as it is, or becomes 0
where `SwitchPtnSlots` could not read it, and a unit that is neither 1 nor 2 is
no longer exchanged. `HandleActiveSlotUnbootable` sets the unbootable bit
without clearing the successful bit.

### TableStore and SlotStore

`TableStore` is what the rest of the loader relies on: a unit changes from one
complete table to the next at one instant, a synchronisation stores the units
in the order of their numbers while the table in RAM stands still, and a cut or
a failed request only keeps the units that were still to come as they are. It
has no copies, no CRCs and no repair. `SlotStore` maps a unit's register to the
copy the partition driver would present and states `ImplementsStore` for runs
with at most one fault.

### BootFlow

Adds `mode` (what `LinuxLoaderEntry` is about to do), the reset `reason`,
`usable` (the slots whose images lead to a boot under the device's lock state;
`ResultShouldContinue` makes this set larger on an unlocked device) and `red`
(`BootState`). It calls the entry points of the slot manager and acts on their
results: a failed `LoadImageAndAuth` is a reset into recovery mode on a locked
device and the red screen with its shutdown on an unlocked one, whose status
`LoadImageAndAuth` overwrites; `BootLinux` that returns goes to fastboot. The
recovery mode of a device with two slots boots the same boot image, so it is
not a mode of its own. A fastboot command starts when the one before has ended.

### TableFlash

The unit with the boot partitions: `disk` has two headers and two arrays of
entries, a header refers to the value its CRC was computed over, to its own
place and to the place of the entries; `ram` is `PtnEntries`, `fbvars` is
`BootSlotInfo` with `CurrentSlotFB` and the flags that say whether they were
filled. `CmdFlashTable`, `WriteGpt` (one request per step: erase, protective
MBR, headers, entries), `Refresh` (`ReenumeratePartTable`), `CmdSetActive`
with `SetActiveSlot` and its loop over `BootSlotInfo`, `CmdFlashBoot`
(`FastbootUpdateAttr` and its variables), `Store` (`UpdatePartitionAttributes`)
and `PowerOn` follow the code; `StoreFails`, `WriteGptFails`, `RefreshFails`
are its error exits; a request of `Store` that fails leaves what `HalfStored`
says, as a power cut does. `SetFirstBootLun` and `SwitchBootLun` are the calls
of `UfsGetSetBootLun` with their failures (`Mishap`). An image is a record of
what `ParseGptHeader` looks at.
Layouts are names; what `UpdatePartitionAttributes` makes of entries of another
layout is called "mixed". One unit is modelled; an image for another one is a
number the loader does not find here.

### DeviceState

`dev` is `DevInfo`, `stored` the record the verified boot protocol keeps,
`keys` the lock state the key store was last used under, `data` the one the
user's data was written under, `misc`, `reason` and `frp` what survives a
reset; `told` is what a host knows from the answers. The four requests of
`SetDeviceUnlockValue` are actions (`SetValue`, `ResetState`, `UndoValue`,
`WriteWipe`), each of which may fail, and power may go between them. `unasked`
is a history variable: the data is that of another lock state and the message
to recovery was not written, or was replaced. Keys may be held at every start
(`ReadKeysAndReason`, `KeyTurnsOff`), and `ReadKeysFails` is the exit of
`LinuxLoaderEntry` when they or the reset reason cannot be read. `avbLe`
tells the two kinds of device apart: one that asks on a menu and reboots, and
one that changes the state and then answers.

### KeyMenus

`info` holds the `gMenuInfo` of each file, `event` the one the timer event
belongs to, `screen` what the user sees; `lastKey`, `isRefresh`, `poweroff` and
`late` are the statics of the handler and its timers. `MenuKeysHandler` is one
action per key event (it runs at `TPL_CALLBACK`), the main thread draws in two
steps: the screen with a zeroed state first, then the filled state. A timer
that cannot be created or started has the same effect as an error inside the
handler, `KeyError`.

### SlotVerify

`check` and `ret` are where `load_and_verify_vbmeta` is and its result so far;
`VerifyMain`, `VerifyDisabled`, `VerifyChain`, `VerifyHash`,
`LoadRequestedPartitions` are its steps in the order of the descriptors;
`StoreIndex` is the `write_rollback_index` between them, for a slot that is
marked successful. `stored` and `mem` are the rollback indexes on the storage
and in `DevInfo`. `Accepted`, `KeyMasterFails`, `AuthFails` and
`HandleActiveSlotUnbootable` are the tail of `LoadImageAndAuthVB2` and its
caller. The environment installs images in the other slot, flashes, locks,
unlocks and cuts the power. Images are records of what the checks tell apart
(signer, index, flags, whether hashes match). A change of the table is one step.

### FastbootSession

The device in fastboot: `mState`, `usbBuf` (`mUsbDataBuffer`; the other buffer
is `mFlashDataBuffer`), their `content`, `numData`, `got`
(`mBytesReceivedSoFar`), `flashComplete`, `flashResult`, the USB timer, the
timers of `FlashCompleteHandler` and `AcceptCmdHandler`, `gRxBuffer` and what
the driver is doing in each direction (`rx`, `tx`). `main` is the main thread:
polling, or at a step of `CmdFlash` with its locals.

| action | code |
|---|---|
| `HostCommand`, `HostData` | `ProcessBulkXfrCompleteRx`, `DataReady`, then `AcceptCmd` (`CmdDownload`, `CmdFlash`, the others) or `AcceptData` |
| `PollConnected`, `PollSent` | the other branches of `HandleUsbEvents` |
| `FlashEnds`, `FlashAcks`, `FlashTail` | the rest of `CmdFlash` for a sparse image |
| `FlashCompleteHandler`, `AcceptCmdHandler` | the timer callbacks of these names |
| `Unplug`, `Plug` | the cable |

Timer callbacks run at `TPL_CALLBACK` and do not interrupt one another, so each
is one action, and a flash that a callback starts is one action too; the main
thread's flash is several, between which callbacks come. `Polling` holds in the
main loop, and during a flash while the USB timer exists. The flash of an image
that is not sparse is one action of the main thread: `AcceptCmd` has stopped the
USB timer, and the only callback left, that of a deferred command, finds the
flags as they are before or after. Images are model values, a partition is its
size against `MAX_DOWNLOAD_SIZE`, a data phase is a number of transfers.

The OKAY of a flash is sent after it, so a host that waits for it never
downloads in parallel; only a host that was plugged in again during the flash
does. The driver is taken to hold one transfer per direction and to refuse a
second one. Left out: NAND (one buffer), failing `CreateEvent` and allocation,
INFO replies, `upload`, the battery check. `getvar` is in `TableFlash`.

### SparseFlash

Below `FastbootSession`: what the flash of one downloaded piece does to the
partition. Sizes are in units, the smallest amount of data that is told apart;
`BlockSize` is the device's block, `blk` that of the image. `CheckHeader`,
`RawChunk`, `FillChunk`, `SkippedChunk`, `FillBlock`, `ChunkWritten`,
`CompareTotal` are the loop of `HandleSparseImgFlash`; `ChunkRefused` and
`ChunkCut` its exits; `WriteRequest` and `WriteTail` are the requests of
`WriteBlockToPartition`, which writes up to `MaxWrite` units at a time and the
last partial block through a buffer. The host sends an image in one or several
pieces, each describing all blocks of the image (those it does not carry as
DONT_CARE), and learns the result of a piece from the command after it. The
division of a piece into chunks is chosen as the loader comes to them.

## 3. Runs

| run | module, cfg | what it shows |
|---|---|---|
| `slots_ufs` | `MCSlotStore`, `SlotManagerUfs.cfg` | safety of the slot manager with two logical units and one fault anywhere, and the refinement of `TableStore` |
| `boot` | `MCBootFlow`, `BootFlow.cfg` | fallback and bounded trials, no slot condemned without reason, readable tables and an active slot, on a locked or unlocked device under two faults |
| `table_flash` | `MCTableFlash`, `TableFlash.cfg` | a host that flashes sound and unsound tables between other commands; the copies of the table, RAM, boot unit and answers keep agreeing |
| `device` | `MCDeviceState`, `Device.cfg` | lock state, keys, data and answers under two failing requests and a cut |
| `menus` | `MCKeyMenus`, `Menus.cfg` | an option is executed from its own, complete menu; warnings end |
| `slot_verify` | `MCSlotVerify`, `SlotVerify.cfg` | what a locked device runs, what it can fall back to, and that it gets to a system |
| `fastboot` | `MCFastboot`, `Fastboot.cfg` | buffers, failures, answers and the loop, with a cable that is pulled once at any instant |
| `sparse` | `MCSparseFlash`, `Sparse.cfg` | what three images leave on the partition under failures and cuts |
| `slot_guids`, `fastboot_deferred`, `table_backup`, `rollback_writes` | | violated, see Findings |

Bounds. Two partition pairs, `boot` and `system`: all code that treats pairs
treats them alike, and these are the two `ValidateSlotGuids` compares. Two
logical units are the fewest with which tables can disagree. `MaxRetry` is 1
or 2 in place of 7: 2 distinguishes the first, a middle and the last try.
`MaxFaults` counts lost writes and power cuts: properties with a premise
`faults <= n` are false with one more fault, and the bounds of the runs include
the largest `n` that holds. `LunReadable` has two: one fault, or two if none of
them is a failed request that left half a copy and after which the loader went
on, since the next failure or cut of the same power cycle may then break the
other copy. `tries` needs no bound where `AttemptsBounded`
holds. `InitTables` are a table without attributes, as the factory writes it,
and that of a device in use with both slots successful; `slots_ufs` adds
`Unprepared`, the table that several lost writes of a first boot leave, from
which `GetActiveSlot` finds no slot.

* `table_flash`: two layouts with slots, one with a single boot partition and
  one with none, two table flashes (the
  second finds the state the first left) and one mishap, a failing request or a
  cut, at any request.
* `device`: two failing requests, so that the undoing of a change can fail as
  well, and one cut. `MaxCuts` is a bound on arbitrary cuts; regular resets are
  free. A key may be held at any start. Secure boot and a user build, the
  configuration that is sold.
* `menus`: two changes of the lock state and two returns to a warning.
* `slot_verify`: indexes 0 and 1, two installations (an update, and one more
  over it or over its predecessor), two mishaps; nine images, one for each way
  a check can fail.
* `fastboot`: a sparse and a raw image, two transfers per data phase (a first
  and a last one), one replug, and a partition of each size that `CmdFlash`
  tells apart.
* `sparse`: a partition of five device blocks of two units; images with blocks
  of one, two and one and a half device blocks, of full, short and excessive
  length, and with a header that names another number of blocks. Three images
  in a row, so that each can find what the one before left; two faults.

Deadlock is checked in `slots_ufs`, `device` and `slot_verify`. The
others may stop: a device in `boot` that lost both copies to two faults in one
power cycle does not start again; a loader in `menus` hands over or turns the
device off; where a
cable is pulled during a data phase the device still expects data when it is
plugged in again, takes the next command for data, and host and device wait for
each other; a device whose table was lost halfway through a flash does not
start again; and in `sparse` the number of images is bounded.

Fairness. `FairFlow` is weak fairness of `Device`, the disjunction of what the
device does without help: the loader is one thread that never blocks but at
the fastboot prompt, and a reset always comes up again. Nothing is assumed of
users, of the operating system or of the power supply. `SlotVerify` and
`TableFlash` are likewise weakly fair to the loader's own steps as one action.
`FairSpec` of `FastbootSession` is weak fairness of its `Device`, as one action:
the loop polls, timers fire, `HandleSparseImgFlash` returns, and a host that
waits reads its reply. A host need not begin a command or go on with its data.
`KeyMenus` has a timer that goes on ticking, a timeout that is reached, and a
main thread that goes on drawing and leaves a wait that has ended; no key need
ever be pressed.

Every property has a mutant in `PROJECT.json`, a plausible slip in the code
that breaks it under the bounds of its run. The mutated definitions stand next
to the ones they would replace and are used nowhere else.

## 4. Proofs

TLC checks instances, TLAPS the following for every value of the constants
(sets of images, partitions, layouts, sizes, retry limits and bounds).
`Spec => []Inv` throughout; each proof has an inductive invariant with
`Init => IInv`, `IInv /\ [Next]_vars => IInv'` and `IInv => Inv`, one lemma or
step per action.

**`SlotManagerProofs`**

* `TypeInvariance`. `TypeOK` is not inductive: a call that works on `slot`
  updates the table there, so `SlotKnown` adds that `slot` is a slot at every
  label of such a call, including the label that a running
  `UpdatePartitionAttributes` returns to. The retry count stays in range since
  `FindOnTrial` decrements it only where `OnTrial` holds.
* `SelectionInvariance`: at most one active slot, with the top priority.
  `MarkPtnActive` gives the active bit to whatever slot it is called for, so the
  strengthening `SlotActive` says that at the labels on the way to it that slot
  is active in RAM. Writing, restoring and presenting tables keeps the property
  because both boot entries are in one unit (`LayoutAssumption`).
* `LunReadability`. The strengthening `TornBudget` counts: without a fault no
  copy is broken; with one fault at most one copy is, and once the loader runs
  only one of which a failed request has left half, because the firmware either
  cures a copy or spends a second fault on failing to; with two every unit still
  has a copy, unless the loader goes on after such a request.
* `CutSafety`: the first power cut leaves the tables as they were before it.
  The strengthening `Mirrored` says that before the first fault the two copies
  of a unit are equal, but for the unit that `UpdatePartitionAttributes` is at
  between its two writes, whose primary copy then equals the table in RAM.
* `CacheInvariance`. `Cached` names the labels at which no change waits to be
  written, says that `UpdatePartitionAttributes` returns to such a label (or to
  `setDone`, which writes again), and that it has written the units below `Lun`.
* `CoherenceInvariance`. `Agreed` follows the type GUIDs and the boot logical
  unit through every step; only at `setLun`, inside `SwitchPtnSlots`, do they
  name different slots. It needs `Cached`, because the device is handed over
  with what is on the storage, and `SlotActive`, because `MarkPtnActive` must
  move no active bit to another slot.
* `SetActiveInvariance`, for any number of faults: `SetEstablished` carries the
  attributes that `SetActiveSlot` set to the answer. No fault can disturb them
  since `UpdatePartitionAttributes` never changes the table in RAM. Of the boot
  unit it says what the code gives, `LunDone`: that of the slot, unless a
  request to it failed this time or the device boots from no unit. Without
  these two exceptions the statement is false, see section 5.
* `TriesInvariance`, for one fault: `FindBootableSlot` writes the table once for
  the try it takes and, through `MarkPtnActive`, once more for the active bits.
  `TriesTaken` has to say, while that second write is in progress and nothing
  was lost, that the first is complete (every copy has `Room` for one more
  boot), and, with `Written`, that a second write which ends without a fault
  makes up for a first that was lost.

* `StoreRefinement`, `Spec => ImplementsStore` if `MaxFaults <= 1`. Initial
  states map to initial states and every step to a step of `TableStore` or a
  stutter; the write of a primary copy is the step, that of a backup copy and a
  repair are stutters, which needs `Mirrored` and `TornBudget` from above.
* `ActiveSlotInvariance`, for two faults: after them a table without an active
  slot is still one that no loader has written. The argument counts. A first
  boot synchronises the tables three times before the system starts (default
  slot, try, active bits); a copy without an active slot is left only if the
  write to it was lost each time. `BlankCosts` says so label by label: with
  such a copy left, at least one fault was spent before any other table has an
  active slot, two at the labels of the second synchronisation and three at the
  system. `Fresh` keeps track of what the default slot looks like meanwhile, so
  that `FindBootableSlot` has something to write. The theorem has the hypothesis
  `FactoryTables`, that the tables a device starts with obey the property; the
  run `slots_ufs` starts from another one on purpose and does not check it.

**`BootFlowProofs`**: `FlowRefines`, `FlowSpec => Spec`: each step of the boot
flow is a step of the slot manager or leaves its state alone, so the theorems
above hold of whole boots, with fallbacks, resets and commands;
`FlowLunReadable` and `FlowActiveSlot` state the two that the run `boot`
checks. `VerdictsDeserved`, for any number of faults: `Condemned` gives the
reason for each way to `HandleActiveSlotUnbootable` (the images do not boot,
the slot is out of tries or marked already, or the image came from fastboot
boot), `FoundActive` that the slot whose images were verified is the active
one, which is the one that gets marked; `SelectionInv` makes it the only one.

**`DeviceStateProofs`**: `LockStateStored` and `ChangesConfirmed`, for a device
with a menu and any number of failing requests and cuts. The invariant says at
which labels RAM and storage have the same lock bits, that a change in progress
is the one on the menu, and that defaults are written only over a record
without magic. `TypeCorrect`. `KeysFollow` for one failing request and
without a cut: `ChangeInv` adds that a change is
always of a bit that has the other value, so that the undo restores the old
record; `KeysAgree` that at `reset` and `undo` the keys still fit the record from
`Before` the change. `DataFollow` holds for any number of failing requests and
cuts, with keys held at any start: a user who holds the volume key leads the
device past recovery into fastboot, and `CmdContinue` starts the system, but the
message in misc stays. `DataUnder` is what the property asks, for a given lock
state; `DataAgree` says that it holds of the stored state outside of a change,
of the state from `Before` inside one, and that while a change is between the
reset of the key store and the message, all that may be lost is what `unasked`
then records.
`AnswersAreTrue` covers AVB_LE as well: there the answer follows the change, and
`AnswerAgree` says what the host will have to be told.

**`SlotVerifyProofs`**: `LockedVerified` (what a locked device runs was verified
as a whole and is not older than stored) and `IndexesRise`. The invariant
`PassedSoFar` says which checks the slot under verification has passed by the
step `check`, also after a chained struct failed, since the main struct goes
on; `IndexesOrdered` says that an index in RAM is never below the stored one,
as a write may fail after RAM was changed. `TypeCorrect`.
`FallbackVerified`: while no call fails and the
device stays locked, `Safe` names the slot to fall back to, the active one if it
is proven, the other one while the active one is on trial.

**`TableFlashProofs`**: all safety properties of the run `table_flash`, for all
layouts and images and any number of flashes, failing requests and cuts (as far
as the properties' own premises allow them). The invariant is about the pieces
of the table on the storage:

* `Written`: which of the five pieces WriteGpt has written at each of its
  steps. `FlashPresented` follows: in spite of what PatchGpt changes the primary
  copy is valid at the refresh, the backup copy is not, so the firmware presents the image.
* `OneLayout`: if no flash failed between erase and refresh, the backup entries
  that a header refers to have the layout of the primary ones, and so has the
  table in RAM whenever it can be written. `WholeTables` needs all of it,
  because the table that is presented may come from either copy and
  `UpdatePartitionAttributes` writes over whatever is there.
* `Current`: at which labels RAM is what the firmware would present; `RamFollows`.
* `Legible`, for eMMC: which copies are valid at each step of a flash, after a
  failure and after a cut. Between the last primary write and the repair of the
  backup copy there is only one, which is why `Readable` allows one mishap. A
  failing request of `UpdatePartitionAttributes` may leave either copy half
  written (`HalfDisk`). It also has to say that a mishap which broke the primary copy is over only when
  the firmware has restored it.
* `VarsFollow`, `LunFollows`: `Known` follows `BootSlotInfo` and
  `CurrentSlotFB` through the commands (at `setVars`, between the change of the
  attributes and its answer, only the slot that is set may differ), and `LunSet`
  the boot unit. Both theorems have the hypothesis `SaneTables`: no table marks
  both boot slots active, or an active one below the top priority. Of a table
  that does, flash boot_x, which resets the attributes of its slot, may change
  which slot the loader takes for the active one, and updates neither
  current-slot nor the boot unit. The loader makes no such table.

**`KeyMenusProofs`**: `Confirmed` and `PauseIsOffered`, for every set of changes
and any number of returns. `Phases` ties the position of the main thread to the
event that may exist; `ScreenAgrees` says that while the unlock menu's event is
there and its state is filled, the screen shows that menu with the option that
the power key would execute, unless a warning is being drawn over it. Every
step that draws one half disturbs it, which is why the property needs the order
in which the code clears, draws and fills. `FirstWarning` says that before
`BootLinux` has returned the notice on the screen is the one the time-out acts
on.

**`FastbootSessionProofs`**: `FlashBufferInvariance` and `TimerInvariance` for
any number of replugs from `FlashInv`, which ties the flag, the timer and the
buffer of the main thread's flash together. `DownloadFlashed`,
`FailureReported` and `SessionInvariance` while the cable stays in: `Turn` says
for each state of the host what the device owes it (which reply, which data,
which receive is pending), `Have` that the buffer holds what the host believes,
`Owed` that a failure which was answered with OKAY is remembered until FAIL is
sent. `OneSend`: the same invariant says at each step whether a reply is
still on the endpoint; only the result of a sparse image in a small partition
finds one. `TypeCorrect`.

**`SparseFlashProofs`**: all four properties of the run
`sparse` (`FlashedWholeInvariance`, `OldOrNewInvariance`,
`AcceptsFittingInvariance`, `InPartitionInvariance`) and `TypeCorrect`, for all
images, block sizes, request sizes, divisions and faults. The invariant says
which blocks the current chunk stands for, that the count of blocks times the
image's block size is where the next request begins, and that everything
before it is on the partition; products and remainders of sizes counted in
blocks are lemmas of their own at its beginning. Widths of integers are not part of it (see section 6).

The proofs rest on the named assumptions of the modules (`TableAssumption`,
`ManagerAssumption`, `LayoutAssumption`, `DeviceAssumption`, `VerifyAssumption`,
`InUseAssumption`, `SessionAssumption`, `MarkAssumption`, `MenuAssumption`, and
`FlashAssumption` of `TableFlash` and of `SparseFlash`), which TLC evaluates in
the runs. `FallbackVerified` is the only user of `InUseAssumption`, that the
active slot of the device has proved itself. `FactoryTables` and `SaneTables`
are hypotheses of the theorems named above, met by the tables of the runs `boot`
and `table_flash`.

Every invariant, action property and refinement of the passing runs is proved.
Only model-checked: liveness (`FallbackBoots`, `TrialsEnd`, `WarningEnds`,
`AlwaysBoots`, `Answered`, `SetActiveAnswered`), which with fairness and ENABLED
is out of the prover's reach. No module uses RECURSIVE.

## 5. Findings

* `slot_guids`. `FindBootableSlot` says "Validate slot suffix and partition
  guids" (PT:1583). `ValidateSlotGuids` compares the boot and system GUIDs with
  each other, so a slot whose two GUIDs come from different slots passes. One
  power cut between the tables of two units during a slot switch, and a
  `set_active` back, leads there.
* `fastboot_deferred`. A command that has to "Wait for flash finished"
  (FB:2722) is kept as a pointer to `gRxBuffer`; after a replug during a flash
  the next command can overwrite it.
* `table_backup`. "This loop iterates twice to update both primary and backup
  Gpt" (PT:297). `PatchGpt` places the backup entries 33 blocks before the end
  of the unit whatever the block size, `UpdatePartitionAttributes` looks for
  them 5 blocks before the end on UFS: after a table was flashed the backup
  copy goes wrong with the first attribute update, without any failure.
* `rollback_writes`. `avb_slot_verify.h` says that `avb_slot_verify` "will
  NEVER" write rollback indexes. `load_and_verify_vbmeta` writes them between
  its checks. One consequence: a failing write marks a good slot unbootable,
  while the index in RAM has already risen.

Met while modelling, and not the subject of a run:

* `WriteGpt` answers OKAY and writes nothing when no unit answers
  (PT:963-967), and `Lun` stays 9 after "Invalid Lun number" (FB:1609-1613), so
  that the next `flash partition` indexes beyond its arrays.
* `ParseSecondaryGpt` stays TRUE, so that a later image whose primary header
  names another block is accepted, answered with OKAY, and leaves no table
  (PT:990); `FlashingGpt` has no effect (PT:838).
* `set_active:_a` loops past the end of `BootSlotInfo` (FB:390-394 against
  1913); an empty argument or "_" matches `boot_a` and deactivates both slots.
* `SlotCount` is not reset when the A/B information is cleared (FB:1518-1527,
  465-483), and current slot and retry counts are stale after a table with
  slots has been replaced by another one (FB:494-507).
* "If no bootable slot found, enter fastboot" (VB:1054): `LinuxLoaderEntry`
  resets into recovery mode instead (LL:477) and fails the same way again.
* A sparse image in a small partition is answered twice (FB:1694 and 1735 or
  1742), although `EFIUsbDevice.h:155` asks to wait for the transfer before.
  `OneSendAtATime` says that nothing else does so.
* "Doesn't look like we were sent any data" (FB:1566) tests a pointer that is
  never NULL.
* `FastbootInitialize` leaves its loop when a receive is refused
  (`FastbootMain.c:376`), against "we keep waiting for USB to be connected"
  (336, 345).
* A key held after an unlock leads past the request for recovery (LL:364,
  UM:75-77): the system may start on data that is to be wiped, and the message
  in misc waits for the next recovery. A power cut or a failing request between
  the record of the lock state and that message (DI:155-193) leaves the
  change made, the data as it was, and nothing that remembers to wipe it.
* `UfsGetSetBootLun` returns EFI_SUCCESS when `GetBootLU` or `SetBootLU` fails
  (`Board.c:652-657`), and its callers do not look at its status either
  (PT:558, 572, 1349-1363): `set_active` answers OKAY with the boot unit
  unchanged. If `SwitchPtnSlots` cannot read the unit, it sets its initial
  value 0, and no later `set_active` brings the unit back, since only 1 and 2
  are exchanged; a flash of a partition table does (it sets 1).
* `WriteBlocks` of one request for header and entries (PT:395-405) may fail
  half way. The loader goes on and repairs nothing before the next start, so
  that a second failure or a power cut in the same power cycle can leave a unit
  without a valid copy.
* With AVB_LE, a failed write of the lock bits is stored by a later write of
  another field (DI:119, FB:2420).
* A warning that is shown a second time turns the device off without a key
  (MK:251, `VerifiedBootMenu.c:82`); drawn over an unlock menu it leaves the
  keys of that menu active (MK:439, UM:84-85).
* `fastboot boot` counts the image from the host as loaded, so that a missing
  dtbo is not noticed (VB:975).
* The failure of the last piece of a sparse image is reported only if another
  download or flash command follows (FB:2733).
* CRC chunks with their four bytes of data are refused by the test of
  `total_sz` in `ValidateChunkDataAndFlash`.
* `ErasePartition` ignores the status of the token of `EraseBlocks`
  (`LinuxLoaderLib.c:719-750`).
* `EnableEnforcingMode (FALSE)` is commented out (LL:428), so that the verity
  mode never changes to logging.

## 6. Not modelled, and what could follow

* The share of the repository that is modelled is small by its nature: the
  loader's own libraries have about 27 000 lines, the upstream framework with
  its vendored applications (a Python interpreter, a regular expression engine,
  network stacks, build tools) 2.8 million. A development about the loader
  does not model those.
* Image loading, device tree selection, command line: sequential preparation of
  memory without state across calls; image contents are one bit per slot in
  `BootFlow` and a record in `SlotVerify`.
* Widths of integers in sparse images: sizes are natural numbers here. The
  guards of the code against overflow are therefore not shown to be needed or
  sufficient.
* Meta images, CRC chunks, UBI and NAND, erase; headers that are wrong in other
  fields than the number of blocks.
* AVB 1, AVB_LE verification, MDTP, recovery images, boot state colours.
* Orange, EIO and red warnings; drawing beyond what is on the screen.
* Several logical units in a table flash; the contents of entries. Composing
  `TableFlash` with `SlotManager` needs a coarser table on the storage than
  either has.
* What a host that was plugged in again during a data phase may expect: no
  source of the repository says, so the run `fastboot` explores these states
  without a property for them.
* The vendor's boot reason log, the hypervisor and RTIC hand-over (calls into
  firmware that is not here), zlib and the sanitizer runtime (third-party).
* Theorems that could follow: the safety halves of the liveness properties (a
  fallback takes a bounded number of resets, a slot's tries only fall between
  two commands that arm it), and the guards against overflow in sparse images.
