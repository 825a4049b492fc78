------------------------------ MODULE BootFlow ------------------------------
(***************************************************************************)
(* From power on to a running system: LinuxLoaderEntry (LinuxLoader.c),    *)
(* LoadImageAndAuth (VerifiedBoot.c, with AVB 2 on a device with two boot  *)
(* slots) and the fastboot commands that lead back to them, around the     *)
(* slot manager.  Every step of the slot manager is taken from there; this *)
(* module decides when its entry points are called and what follows from   *)
(* their result, and adds what the decision depends on: the keys, the      *)
(* reset reason, the images and the lock state.                            *)
(*                                                                         *)
(* What avb_slot_verify finds is abstracted to one bit per slot: whether   *)
(* the images of the slot lead to a boot under the lock state the device   *)
(* has (ResultShouldContinue lets an unlocked one go on after a mere       *)
(* verification error).                                                    *)
(***************************************************************************)
EXTENDS SlotManager

VARIABLES
  unlocked,   \* IsUnlocked (), the same for as long as the model runs
  mode,       \* what LinuxLoaderEntry is about to do, or does: "start",
              \* "boot", "fastboot" or "shutdown"
  reason,     \* the reset reason, kept across a reset
  usable,     \* the slots whose images lead to a boot
  red         \* BootState is RED: the last authentication failed

flow == <<unlocked, mode, reason, usable, red>>
allVars == <<vars, flow>>

Reasons == {"normal", "recovery", "fastboot"}

FlowInit ==
  /\ Init
  /\ mode = "start"
  /\ reason = "normal"
  /\ usable \in SUBSET Slots
  /\ unlocked \in BOOLEAN
  /\ red = FALSE

-----------------------------------------------------------------------------
(* LinuxLoaderEntry                                                        *)

\* After RebootDevice or ResetSystem the device comes up by itself, after
\* ShutdownDevice when somebody presses the power key.
ComeUp ==
  /\ PowerUp
  /\ mode' = "start"
  /\ red' = FALSE
  /\ UNCHANGED <<unlocked, reason, usable>>

Restart == mode # "shutdown" /\ ComeUp
PowerKey == mode = "shutdown" /\ ComeUp

\* GetKeyPress and GetRebootReason, which clears the reason it returns.
ChooseMode(fastbootKey) ==
  /\ pc = "idle" /\ mode = "start"
  /\ mode' = IF fastbootKey \/ reason = "fastboot" THEN "fastboot" ELSE "boot"
  /\ reason' = "normal"
  /\ UNCHANGED <<unlocked, vars, usable, red>>

LoadImageAndAuth ==
  /\ mode = "boot" /\ op = "query"
  /\ Enter("find", "find", NoSlot)
  /\ UNCHANGED flow

\* LoadImageAndAuthVB2 with the images of the slot, or, for fastboot boot,
\* with one that the host sent.
Accepted == op # "boot" /\ slot \in usable
Rejected == op # "boot" /\ slot \notin usable

AuthFails ==
  /\ Rejected \/ op = "boot"
  /\ VerifyFails
  /\ red' = TRUE
  /\ UNCHANGED <<unlocked, mode, reason, usable>>

HandOver ==
  /\ Accepted \/ op = "boot"
  /\ BootOs
  /\ UNCHANGED flow

BootLinuxFails ==
  /\ Accepted \/ op = "boot"
  /\ BootLinuxReturns
  /\ mode' = "fastboot"
  /\ UNCHANGED <<unlocked, reason, usable, red>>

\* The end of a failed LoadImageAndAuth.  On an unlocked device the status of
\* a failed authentication is not returned: DisplayVerifiedBootScreen shows
\* the red screen and shuts the device down.  Any other failure is returned,
\* and LinuxLoaderEntry calls RebootDevice (RECOVERY_MODE).
LoadFailed == pc = "idle" /\ op = "none"

RedScreen ==
  /\ LoadFailed /\ red /\ unlocked
  /\ Reboot
  /\ mode' = "shutdown"
  /\ UNCHANGED <<unlocked, reason, usable, red>>

RebootToRecovery ==
  /\ LoadFailed /\ ~(red /\ unlocked)
  /\ mode = "boot"
  /\ Reboot
  /\ reason' = "recovery"
  /\ UNCHANGED <<unlocked, mode, usable, red>>

-----------------------------------------------------------------------------
(* Fastboot.  A command starts when the one before it has ended.           *)

Ready == mode = "fastboot" /\ ~(LoadFailed /\ red /\ unlocked)

CmdSetActive(s) ==
  /\ Ready /\ (UserVariant => unlocked)
  /\ Enter("setActive", "setActive", s)
  /\ red' = FALSE
  /\ UNCHANGED <<unlocked, mode, reason, usable>>

\* The image is written before the attributes are.
CmdFlash(s) ==
  /\ Ready /\ (UserVariant => unlocked)
  /\ Enter("flashAttr", "flashAttr", s)
  /\ usable' \in {usable \cup {s}, usable \ {s}}
  /\ red' = FALSE
  /\ UNCHANGED <<unlocked, mode, reason>>

CmdBoot ==
  /\ Ready
  /\ Enter("clear", "boot", NoSlot)
  /\ red' = FALSE
  /\ UNCHANGED <<unlocked, mode, reason, usable>>

CmdContinue ==
  /\ Ready
  /\ Enter("find", "find", NoSlot)
  /\ red' = FALSE
  /\ UNCHANGED <<unlocked, mode, reason, usable>>

CmdReboot(r) ==
  /\ Ready
  /\ pc = "idle" /\ Reboot
  /\ reason' = r
  /\ UNCHANGED <<unlocked, mode, usable, red>>

Fastboot ==
  \/ \E s \in Slots : CmdSetActive(s) \/ CmdFlash(s)
  \/ CmdBoot \/ CmdContinue
  \/ \E r \in {"normal", "fastboot"} : CmdReboot(r)

-----------------------------------------------------------------------------
(* The system and the power supply                                         *)

OsMarks == OsMarkSuccessful /\ UNCHANGED flow

OsReboots ==
  /\ pc = "os" /\ Reboot
  /\ mode' = "boot"
  /\ reason' \in Reasons
  /\ UNCHANGED <<unlocked, usable, red>>

\* A power cut may leave the reset reason as it was, or lose it.
PowerLost ==
  /\ PowerCut
  /\ reason' \in {reason, "normal"}
  /\ UNCHANGED <<unlocked, mode, usable, red>>

-----------------------------------------------------------------------------

\* The steps of the slot manager between a call and its return
SlotManagerStep ==
  /\ \/ RestoreCopy \/ Present \/ Flush
     \/ DefaultSlot \/ NoActiveSlot \/ Query
     \/ FindProven \/ FindOnTrial \/ FindUnbootable
     \/ ValidateSlotGuids \/ MarkPtnActive
     \/ MarkUnbootable \/ Fallback \/ ResetSystem
     \/ SetActiveSame \/ SetActiveOther \/ SetBootLun \/ FinishSetActive
     \/ ClearUnbootable \/ FastbootUpdateAttr
  /\ UNCHANGED flow

\* What the device does without anybody's help
Device ==
  \/ SlotManagerStep
  \/ Restart
  \/ \E k \in BOOLEAN : ChooseMode(k)
  \/ LoadImageAndAuth
  \/ AuthFails \/ HandOver \/ BootLinuxFails
  \/ RedScreen \/ RebootToRecovery

People == PowerKey \/ Fastboot \/ OsMarks \/ OsReboots \/ PowerLost

FlowNext == Device \/ People

FlowSpec == FlowInit /\ [][FlowNext]_allVars

\* The loader is one thread that never waits for anybody but at the fastboot
\* prompt, and a device that was reset comes up again.
FairFlow == FlowSpec /\ WF_allVars(Device)

-----------------------------------------------------------------------------
(* Properties                                                              *)

\* An update that cannot boot does not cost the device: when the loader is
\* about to try a slot whose images do not lead to a boot and the other slot
\* is one that ran before and still would, the device gets to a system again
\* without help, or somebody takes it to fastboot, unless it loses its tables in
\* the way that LunReadable excepts.
CanFallBack ==
  /\ pc = "find" /\ mode = "boot" /\ ActiveOf(ram) # NoSlot
  /\ ActiveOf(ram) \notin usable
  /\ OtherSlot(ActiveOf(ram)) \in usable
  /\ Proven(ram["boot"][OtherSlot(ActiveOf(ram))])

TablesLost == \E l \in Luns : ~Readable(l)

FallbackBoots == CanFallBack ~> (pc = "os" \/ mode = "fastboot" \/ TablesLost)

\* Systems that never report success are not started for ever: this takes
\* somebody who arms a slot again and again with set_active or flash.
StartUnproven == HandOver /\ op = "find" /\ ~ram["boot"][slot].suc
Arm == \E s \in Slots : CmdSetActive(s) \/ CmdFlash(s)

TrialsEnd == []<><<StartUnproven>>_allVars => []<><<Arm>>_allVars

\* A slot that would boot and has tries left, or was successful, is not
\* written off: HandleActiveSlotUnbootable marks the slot that failed and no
\* other.  The exception is fastboot boot: an image from the host that fails
\* to verify condemns the installed slot.
UnbootableDeserved ==
  [][\A s \in Slots :
       LET e == ram["boot"][s] IN
         (pc = "unbootable" /\ ~e.unb /\ ram'["boot"][s].unb) =>
           s \notin usable \/ (~e.suc /\ e.ret = 0) \/ op = "boot"]_allVars
=============================================================================
