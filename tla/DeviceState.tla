---------------------------- MODULE DeviceState ----------------------------
(***************************************************************************)
(* The lock state of the device (DeviceInfo.c) and everything that follows *)
(* from changing it: the record DevInfo in RAM and the copy the verified   *)
(* boot protocol stores, the key store that ResetDeviceState resets, the   *)
(* message to recovery in the partition misc, the reset reason, the menu   *)
(* on which the user confirms a change (UnlockMenu.c) and the part of      *)
(* LinuxLoaderEntry that reads all of these.                               *)
(*                                                                         *)
(* A change of the lock state is four separate requests (store the record, *)
(* reset the key store, undo, write misc) between which the power may go;  *)
(* each may fail.  The record is written as a whole, so a field whose own  *)
(* write failed is stored by the next write of any other field.            *)
(***************************************************************************)
EXTENDS Naturals

CONSTANTS
  Display,     \* the PCD EnableDisplayMenu
  SecureBoot,  \* IsSecureBootEnabled ()
  UserBuild,   \* TargetBuildVariantUser ()
  BootKeys,    \* whether somebody may hold a key while the device starts
  MaxFaults,   \* requests that may fail
  MaxCuts      \* times the power may go at an arbitrary moment

ASSUME DeviceAssumption ==
  /\ {Display, SecureBoot, UserBuild, BootKeys} \subseteq BOOLEAN
  /\ MaxFaults \in Nat /\ MaxCuts \in Nat

VARIABLES
  avbLe,      \* GetAVBVersion () = AVB_LE: no menu, no key store to reset
  pc,         \* where the loader is, or the system it has started
  dev,        \* DevInfo, the record in RAM
  stored,     \* the record VBRwDeviceState keeps
  keys,       \* the lock state the key store was last used under, or none
  data,       \* the lock state the user's data was last written under, or none
  misc,       \* the message in the partition misc
  unasked,    \* history: the data outlives the last change of the lock state and
              \* nothing on the storage asks recovery to wipe it
  reason,     \* the reset reason
  want,       \* BootIntoFastboot, BootIntoRecovery, BootReason
  frp,        \* the bit of the partition frp that allows unlocking
  allow,      \* IsAllowUnlock, read when fastboot starts
  published,  \* getvar unlocked
  told,       \* the lock bits as the host knows them from the answers
  menu,       \* the change the displayed menu asks about, or none
  change,     \* the change in progress
  faults, cuts

vars == <<avbLe, pc, dev, stored, keys, data, misc, unasked, reason, want, frp,
          allow, published, told, menu, change, faults, cuts>>

LockBits == {"unlocked", "critical"}          \* UNLOCK, UNLOCK_CRITICAL
DeviceInfo == [magic : BOOLEAN, unlocked : BOOLEAN, critical : BOOLEAN,
               verity : BOOLEAN, charger : BOOLEAN, userKey : BOOLEAN]
Change == [type : LockBits, state : BOOLEAN]
NoChange == [type |-> "none", state |-> FALSE]
Locks == [LockBits -> BOOLEAN]
Lock(rec) == [b \in LockBits |-> rec[b]]

\* What is written under one lock state: nothing, or that state.
Bound == {"none", "locked", "unlocked"}
Name(unlocked) == IF unlocked THEN "unlocked" ELSE "locked"

Blank == [magic |-> FALSE, unlocked |-> FALSE, critical |-> FALSE,
          verity |-> FALSE, charger |-> FALSE, userKey |-> FALSE]
Defaults == [magic |-> TRUE, unlocked |-> ~SecureBoot, critical |-> ~SecureBoot,
             verity |-> TRUE, charger |-> FALSE, userKey |-> FALSE]

NoWant == [fastboot |-> FALSE, recovery |-> FALSE, reason |-> "normal"]

\* The steps of SetDeviceUnlockValue and of what surrounds it.
Changing == {"setValue", "reset", "undo", "wipe", "leave"}
Stages == {"off", "init", "default", "keys", "reason", "mode", "exit",
           "fastboot", "recovery", "os"} \cup Changing
Reasons == {"normal", "recovery", "fastboot", "enforcing", "keysclear"}

TypeOK ==
  /\ avbLe \in BOOLEAN
  /\ pc \in Stages
  /\ dev \in DeviceInfo /\ stored \in DeviceInfo
  /\ keys \in Bound /\ data \in Bound
  /\ misc \in {"none", "command", "wipe"} /\ unasked \in BOOLEAN
  /\ reason \in Reasons
  /\ want \in [fastboot : BOOLEAN, recovery : BOOLEAN, reason : Reasons]
  /\ frp \in BOOLEAN /\ allow \in BOOLEAN /\ published \in BOOLEAN
  /\ told \in Locks
  /\ menu \in Change \cup {NoChange} /\ change \in Change \cup {NoChange}
  /\ faults \in 0..MaxFaults /\ cuts \in 0..MaxCuts

\* A new device, or one whose record an earlier loader wrote: this one no longer
\* turns enforcing mode off.
Init ==
  /\ avbLe \in BOOLEAN
  /\ pc = "off"
  /\ stored \in {Blank, [Defaults EXCEPT !.verity = FALSE]} /\ dev = Blank
  /\ keys = "none" /\ data = "none" /\ misc = "none" /\ unasked = FALSE
  /\ reason = "normal"
  /\ want = NoWant
  /\ frp \in BOOLEAN /\ allow = FALSE /\ published = FALSE
  /\ told = Lock(Blank)
  /\ menu = NoChange /\ change = NoChange
  /\ faults = 0 /\ cuts = 0

-----------------------------------------------------------------------------
(* Requests, resets                                                        *)

\* What lasts through a reset, and what fastboot holds in RAM.
disk == <<stored, keys, data, misc, unasked, frp>>
session == <<allow, published, told, menu, change>>

Fault == faults < MaxFaults /\ faults' = faults + 1

\* ReadWriteDeviceInfo (WRITE_CONFIG): the whole record, or an error and
\* nothing.
Stores(ok, rec) ==
  \/ ok /\ stored' = rec /\ UNCHANGED faults
  \/ ~ok /\ UNCHANGED stored /\ Fault

\* RebootDevice (r), and the RAM of the loader is gone.
Reset(r) ==
  /\ pc' = "off"
  /\ reason' = r
  /\ dev' = Blank
  /\ want' = NoWant
  /\ allow' = FALSE /\ published' = FALSE /\ told' = Lock(Blank)
  /\ menu' = NoChange /\ change' = NoChange

Leaves(r) == Reset(r) /\ UNCHANGED <<avbLe, disk, faults, cuts>>

\* Between the record and the message to recovery nothing remembers that a
\* change is in progress.
PowerCut ==
  /\ pc # "off" /\ cuts < MaxCuts
  /\ Reset("normal")
  /\ cuts' = cuts + 1
  /\ unasked' = (unasked \/ pc \in {"reset", "undo", "wipe"})
  /\ UNCHANGED <<avbLe, stored, keys, data, misc, frp, faults>>

PowerUp ==
  /\ pc = "off"
  /\ pc' = "init"
  /\ UNCHANGED <<avbLe, dev, disk, reason, want, session, faults, cuts>>

-----------------------------------------------------------------------------
(* LinuxLoaderEntry                                                        *)

\* DeviceInfoInit: a failed read ends the loader, a record without the magic
\* is replaced.
ReadDeviceInfo ==
  /\ pc = "init"
  /\ \/ /\ UNCHANGED faults
        /\ dev' = IF stored.magic THEN stored ELSE Defaults
        /\ pc' = IF stored.magic THEN "keys" ELSE "default"
     \/ Fault /\ pc' = "exit" /\ UNCHANGED dev
  /\ UNCHANGED <<avbLe, disk, reason, want, session, cuts>>

WriteDefaults(ok) ==
  /\ pc = "default"
  /\ Stores(ok, dev)
  /\ pc' = IF ok THEN "keys" ELSE "exit"
  /\ UNCHANGED <<avbLe, dev, keys, data, misc, unasked, frp, reason, want,
                 session, cuts>>

\* GetKeyPress, then GetRebootReason, which clears the reason it returns.
ReadKeysAndReason(key) ==
  /\ pc = "keys"
  /\ want' = [fastboot |-> key = "down" \/ reason = "fastboot",
              recovery |-> key = "up" \/ reason = "recovery",
              reason |-> reason]
  /\ reason' = "normal"
  /\ pc' = "reason"
  /\ UNCHANGED <<avbLe, dev, disk, session, faults, cuts>>

\* One of the two reports an error: the loader ends.
ReadKeysFails ==
  /\ pc = "keys"
  /\ Fault
  /\ pc' = "exit"
  /\ UNCHANGED <<avbLe, dev, disk, reason, want, session, cuts>>

\* SCAN_ESC: RebootDevice (EMERGENCY_DLOAD), SCAN_POWEROFF: ShutdownDevice
KeyTurnsOff ==
  /\ pc = "keys" /\ BootKeys
  /\ Leaves("normal")

\* DM_VERITY_ENFORCING: EnableEnforcingMode (TRUE), whose failure ends the
\* loader.
ReasonEnforcing(ok) ==
  /\ pc = "reason" /\ want.reason = "enforcing"
  /\ dev' = [dev EXCEPT !.verity = TRUE]
  /\ IF dev.verity THEN ok /\ UNCHANGED <<stored, faults>> ELSE Stores(ok, dev')
  /\ pc' = IF ok THEN "mode" ELSE "exit"
  /\ UNCHANGED <<avbLe, keys, data, misc, unasked, frp, reason, want, session,
                 cuts>>

\* ResetDeviceState
Resets(ok) ==
  \/ avbLe /\ ok /\ UNCHANGED <<keys, faults>>
  \/ ~avbLe /\ ok /\ keys' = "none" /\ UNCHANGED faults
  \/ ~avbLe /\ ~ok /\ UNCHANGED keys /\ Fault

ReasonKeysClear(ok) ==
  /\ pc = "reason" /\ want.reason = "keysclear"
  /\ Resets(ok)
  /\ pc' = IF ok THEN "mode" ELSE "exit"
  /\ UNCHANGED <<avbLe, dev, stored, data, misc, unasked, frp, reason, want,
                 session, cuts>>

ReasonOther ==
  /\ pc = "reason" /\ want.reason \notin {"enforcing", "keysclear"}
  /\ pc' = "mode"
  /\ UNCHANGED <<avbLe, dev, disk, reason, want, session, faults, cuts>>

\* RecoveryInit looks at the command in misc and nothing else; its failure is
\* ignored.
IntoRecovery(ok) == want.recovery \/ (ok /\ misc = "command")

StartFastboot ==
  /\ pc = "mode" /\ want.fastboot
  /\ pc' = "fastboot"
  /\ allow' = frp
  /\ published' = dev.unlocked
  /\ told' = Lock(dev)
  /\ UNCHANGED <<avbLe, dev, disk, reason, want, menu, change, faults, cuts>>

StartSystem(ok) ==
  /\ pc = "mode" /\ ~want.fastboot
  /\ IF ok THEN UNCHANGED faults ELSE Fault
  /\ pc' = IF IntoRecovery(ok) THEN "recovery" ELSE "os"
  /\ UNCHANGED <<avbLe, dev, disk, reason, want, session, cuts>>

\* LoadImageAndAuth fails.
LoadFails ==
  /\ pc = "mode" /\ ~want.fastboot
  /\ Leaves("recovery")

\* After LinuxLoaderEntry has returned somebody turns the device off and on.
TurnOffAndOn ==
  /\ pc = "exit"
  /\ Leaves("normal")

-----------------------------------------------------------------------------
(* Fastboot                                                                *)

InFastboot == pc = "fastboot"

Answered == UNCHANGED <<avbLe, pc, keys, data, misc, unasked, frp, reason, want,
                        session, cuts>>

\* EnableChargingScreen (b), for three commands
CmdOemChargerScreen(b, ok) ==
  /\ InFastboot /\ dev.charger # b
  /\ dev' = [dev EXCEPT !.charger = b]
  /\ Stores(ok, dev')
  /\ Answered

\* CmdFlash and CmdErase look at the lock state on AVB_LE and in a build for
\* users.
MayWrite(type) ==
  (avbLe \/ UserBuild) => dev.unlocked /\ (type = "critical" => dev.critical)

\* CmdFlash and CmdErase of avb_custom_key: StoreUserKey, EraseUserKey.
CmdUserKey(b, ok) ==
  /\ InFastboot /\ MayWrite("unlocked")
  /\ dev' = [dev EXCEPT !.userKey = b]
  /\ Stores(ok, dev')
  /\ Answered

\* CmdFlash of system restores enforcing mode; the image itself is elsewhere.
CmdFlashSystem(ok) ==
  /\ InFastboot /\ MayWrite("unlocked") /\ ~dev.verity
  /\ dev' = [dev EXCEPT !.verity = TRUE]
  /\ Stores(ok, dev')
  /\ Answered

\* CmdFlash and CmdErase of frp, and outside a build for users
\* CmdFlashingFrpLock and CmdFlashingFrpUnlock: the bit changes, IsAllowUnlock
\* does not.
CmdFlashFrp(b) ==
  /\ InFastboot
  /\ MayWrite("critical") \/ ~UserBuild
  /\ frp' = b
  /\ UNCHANGED <<avbLe, pc, dev, stored, keys, data, misc, unasked, reason,
                 want, session, faults, cuts>>

\* SetDeviceUnlock
MayChange(c) == InFastboot /\ c.state # dev[c.type] /\ (c.state => allow)

\* Not AVB_LE: the menu is displayed and the answer is OKAY.  A menu that is
\* displayed already is replaced.
SetDeviceUnlockMenu(c) ==
  /\ MayChange(c) /\ ~avbLe /\ Display
  /\ menu' = c
  /\ UNCHANGED <<avbLe, pc, dev, disk, reason, want, allow, published, told,
                 change,
                 faults, cuts>>

\* AVB_LE: the change is made, then answered.
SetDeviceUnlockNow(c) ==
  /\ MayChange(c) /\ avbLe
  /\ change' = c
  /\ pc' = "setValue"
  /\ UNCHANGED <<avbLe, dev, disk, reason, want, allow, published, told, menu,
                 faults,
                 cuts>>

CmdReboot == InFastboot /\ Leaves("normal")
CmdRebootBootloader == InFastboot /\ Leaves("fastboot")

\* CmdContinue looks neither at misc nor at the keys: BootInfo is all zero.
CmdContinue ==
  /\ InFastboot
  /\ pc' = "os"
  /\ menu' = NoChange
  /\ UNCHANGED <<avbLe, dev, disk, reason, want, allow, published, told, change,
                 faults, cuts>>

-----------------------------------------------------------------------------
(* UpdateDeviceStatus, called when the user chooses on the menu            *)

Restart ==
  /\ InFastboot /\ menu # NoChange
  /\ Leaves("normal")

\* RECOVER: ResetDeviceUnlockStatus reads the stored record, and does nothing
\* when that fails.
ResetDeviceUnlockStatus(ok) ==
  /\ InFastboot /\ menu # NoChange
  /\ change' = menu
  /\ pc' = IF ok THEN "setValue" ELSE "leave"
  /\ IF ok THEN UNCHANGED faults ELSE Fault
  /\ UNCHANGED <<avbLe, dev, disk, reason, want, allow, published, told, menu,
                 cuts>>

-----------------------------------------------------------------------------
(* SetDeviceUnlockValue                                                    *)

\* Mutants: one unlocks both, the other only changes the record in RAM.
SetsBothBits(c, ok) ==
  /\ dev' = [dev EXCEPT !.unlocked = c.state, !.critical = c.state]
  /\ Stores(ok, dev')
SetsBitInRam(c, ok) ==
  /\ ok /\ dev' = [dev EXCEPT ![c.type] = c.state]
  /\ UNCHANGED <<stored, faults>>

\* SetUnlockValue, SetUnlockCriticalValue: the field in RAM, then the record.
\* The field keeps its new value when the record could not be written.
SetsBit(c, ok) ==
  /\ dev' = [dev EXCEPT ![c.type] = c.state]
  /\ IF dev[c.type] = c.state THEN ok /\ UNCHANGED <<stored, faults>>
                              ELSE Stores(ok, dev')

\* The end, with the status of the change: the menu's caller reboots to
\* recovery whatever it is, fastboot answers.
Ends(ok) ==
  IF avbLe
  THEN /\ pc' = "fastboot"
       /\ told' = IF ok THEN [told EXCEPT ![change.type] = change.state] ELSE told
       /\ change' = NoChange
  ELSE pc' = "leave" /\ UNCHANGED <<told, change>>

SetValue(ok) ==
  /\ pc = "setValue"
  /\ SetsBit(change, ok)
  /\ IF ok THEN pc' = "reset" /\ UNCHANGED <<told, change>> ELSE Ends(FALSE)
  /\ UNCHANGED <<avbLe, keys, data, misc, unasked, frp, reason, want, allow,
                 published, menu, cuts>>

\* Mutant: the status of ResetDeviceState is not looked at.
ResetStateUnchecked(ok) ==
  /\ pc = "reset"
  /\ Resets(ok)
  /\ pc' = "wipe"
  /\ UNCHANGED <<avbLe, dev, stored, data, misc, unasked, frp, reason, want,
                 session, cuts>>

ResetState(ok) ==
  /\ pc = "reset"
  /\ Resets(ok)
  /\ pc' = IF ok THEN "wipe" ELSE "undo"
  /\ UNCHANGED <<avbLe, dev, stored, data, misc, unasked, frp, reason, want,
                 session, cuts>>

Opposite(c) == [c EXCEPT !.state = ~c.state]

UndoValue(ok) ==
  /\ pc = "undo"
  /\ SetsBit(Opposite(change), ok)
  /\ Ends(FALSE)
  /\ unasked' = (unasked \/ ~ok)
  /\ UNCHANGED <<avbLe, keys, data, misc, frp, reason, want, allow, published,
                 menu, cuts>>

\* Mutant of WriteWipe: the message only asks for recovery.
WriteCommand(ok) ==
  /\ pc = "wipe"
  /\ \/ ok /\ misc' = "command" /\ UNCHANGED faults
     \/ ~ok /\ UNCHANGED misc /\ Fault
  /\ unasked' = ~ok
  /\ Ends(ok)
  /\ UNCHANGED <<avbLe, dev, stored, keys, data, frp, reason, want, allow,
                 published, menu, cuts>>

\* The message is zero but for the recovery text: a command that was there is
\* gone.
WriteWipe(ok) ==
  /\ pc = "wipe"
  /\ \/ ok /\ misc' = "wipe" /\ UNCHANGED faults
     \/ ~ok /\ UNCHANGED misc /\ Fault
  /\ unasked' = ~ok
  /\ Ends(ok)
  /\ UNCHANGED <<avbLe, dev, stored, keys, data, frp, reason, want, allow,
                 published, menu, cuts>>

\* Mutant: the menu's caller goes on after a change.
BackToFastboot ==
  /\ pc = "leave" /\ pc' = "fastboot"
  /\ menu' = NoChange /\ change' = NoChange
  /\ UNCHANGED <<avbLe, dev, disk, reason, want, allow, published, told,
                 faults, cuts>>

RebootToRecovery ==
  /\ pc = "leave"
  /\ Leaves("recovery")

-----------------------------------------------------------------------------
(* The systems the loader starts; outside this repository.                 *)

\* The system writes data and uses keys under the lock state it was given.
OsRuns ==
  /\ pc = "os"
  /\ data' = Name(dev.unlocked) /\ keys' = Name(dev.unlocked)
  /\ frp' \in BOOLEAN
  /\ unasked' = FALSE
  /\ UNCHANGED <<avbLe, pc, dev, stored, misc, reason, want, session, faults,
                 cuts>>

\* It restarts the device with any reason, or asks for recovery, over whatever
\* message is there.
OsRestarts(r) ==
  /\ pc = "os"
  /\ Reset(r)
  /\ misc' \in {misc} \cup (IF r = "recovery" THEN {"command"} ELSE {})
  /\ unasked' = (unasked \/ (misc = "wipe" /\ misc' # "wipe"))
  /\ UNCHANGED <<avbLe, stored, keys, data, frp, faults, cuts>>

\* Recovery does what the message says, clears it and restarts.
RecoveryRuns ==
  /\ pc = "recovery"
  /\ data' = IF misc = "wipe" THEN "none" ELSE data
  /\ unasked' = (unasked /\ misc # "wipe")
  /\ misc' = "none"
  /\ Reset("normal")
  /\ UNCHANGED <<avbLe, stored, keys, frp, faults, cuts>>

-----------------------------------------------------------------------------

Keys == IF BootKeys THEN {"none", "down", "up"} ELSE {"none"}

Loader(ok) ==
  \/ WriteDefaults(ok)
  \/ ReasonEnforcing(ok)
  \/ ReasonKeysClear(ok)
  \/ StartSystem(ok)

Fastboot(ok) ==
  \/ \E b \in BOOLEAN : CmdOemChargerScreen(b, ok)
  \/ \E b \in BOOLEAN : CmdUserKey(b, ok)
  \/ CmdFlashSystem(ok)

SetDeviceUnlockValue(ok) ==
  \/ ResetDeviceUnlockStatus(ok)
  \/ SetValue(ok)
  \/ ResetState(ok)
  \/ UndoValue(ok)
  \/ WriteWipe(ok)

Next ==
  \/ PowerCut \/ PowerUp \/ ReadDeviceInfo
  \/ (\E key \in Keys : ReadKeysAndReason(key)) \/ ReadKeysFails \/ KeyTurnsOff
  \/ ReasonOther \/ StartFastboot \/ LoadFails \/ TurnOffAndOn
  \/ \E ok \in BOOLEAN : Loader(ok) \/ Fastboot(ok) \/ SetDeviceUnlockValue(ok)
  \/ \E b \in BOOLEAN : CmdFlashFrp(b)
  \/ \E c \in Change : SetDeviceUnlockMenu(c) \/ SetDeviceUnlockNow(c)
  \/ CmdReboot \/ CmdRebootBootloader \/ CmdContinue
  \/ Restart \/ RebootToRecovery
  \/ OsRuns \/ (\E r \in Reasons : OsRestarts(r)) \/ RecoveryRuns

Spec == Init /\ [][Next]_vars

-----------------------------------------------------------------------------
(* Properties                                                              *)

\* On a device with a menu, wherever the loader acts on the lock state or hands
\* it to a system, the lock bits in RAM are the stored ones, and getvar
\* unlocked tells them: a write of DevInfo that failed never outlives the
\* reboot that follows the menu (SetUnlockValue does not take the new value
\* back).
LockBitsStored ==
  (~avbLe /\ pc \in {"keys", "reason", "mode", "fastboot", "recovery", "os"})
    => /\ Lock(dev) = Lock(stored)
       /\ pc = "fastboot" => published = stored.unlocked

\* With a menu, the stored lock state of an initialised device changes only
\* while the change the user has confirmed there is made, or taken back: no
\* other write of the whole record carries a lock bit with it.
OnlyConfirmedChanges ==
  [][ ~avbLe /\ stored.magic /\ Lock(stored') # Lock(stored)
        => /\ pc \in {"setValue", "undo"}
           /\ change = menu /\ menu.type # "none"
           /\ \A b \in LockBits \ {menu.type} : stored'[b] = stored[b] ]_vars

\* With a menu, a system is never started with keys that were used under
\* another lock state: whichever single request fails, the change is undone or the key
\* store reset (SetDeviceUnlockValue).  A power cut in between, or a second
\* failure, leaves the change half made.
KeysFollowLock ==
  (~avbLe /\ faults <= 1 /\ cuts = 0 /\ pc = "os") =>
    keys \in {"none", Name(dev.unlocked)}

\* With a menu, a system that finds the data of another lock state starts over a
\* message in misc that still asks recovery to wipe it (SetDeviceUnlockValue
\* writes it): however often the start goes past recovery, for a key that is
\* held, a reset reason that is lost or a request that fails.  Excepted is what
\* "unasked" names: a change that stopped between the record and the message,
\* and a system that writes its own message over it.
DataFollowsLock ==
  (~avbLe /\ pc = "os" /\ ~unasked) =>
    data \in {"none", Name(dev.unlocked)} \/ misc = "wipe"

\* What the host has been told of the lock bits, by OKAY to a change and by
\* "Set device ... failed", is what is stored (SetDeviceUnlock).  After a
\* failed write it need not be: the refused value is stored by the next write.
AnswersTrue == (faults = 0 /\ pc = "fastboot") => told = Lock(stored)

=============================================================================
