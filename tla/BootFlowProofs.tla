--------------------------- MODULE BootFlowProofs ---------------------------
(***************************************************************************)
(* Theorems about the boot flow: it uses the slot manager only by its      *)
(* entry points, so that what is proved of the slot manager under any      *)
(* sequence of calls holds of the loader, and what it writes off deserves  *)
(* it.                                                                     *)
(***************************************************************************)
EXTENDS BootFlow, SlotManagerProofs

-----------------------------------------------------------------------------
(* The boot flow refines the slot manager.                                 *)

LEMMA FlowStep == [FlowNext]_allVars => [Next]_vars
<1> SUFFICES ASSUME [FlowNext]_allVars
             PROVE  [Next]_vars
  OBVIOUS
<1> USE DEF Next, Loader, Environment
<1>1. CASE UNCHANGED allVars
  BY <1>1 DEF allVars
<1>2. CASE SlotManagerStep
  BY <1>2 DEF SlotManagerStep
<1>3. CASE Restart \/ PowerKey
  BY <1>3 DEF Restart, PowerKey, ComeUp
<1>4. ASSUME NEW k \in BOOLEAN, ChooseMode(k)
      PROVE  UNCHANGED vars
  BY <1>4 DEF ChooseMode
<1>5. CASE LoadImageAndAuth \/ CmdBoot \/ CmdContinue
  BY <1>5 DEF LoadImageAndAuth, CmdBoot, CmdContinue, Call
<1>6. CASE AuthFails \/ HandOver \/ BootLinuxFails
  BY <1>6 DEF AuthFails, HandOver, BootLinuxFails
<1>7. CASE RedScreen \/ RebootToRecovery \/ OsReboots
  BY <1>7 DEF RedScreen, RebootToRecovery, OsReboots
<1>8. ASSUME NEW s \in Slots, CmdSetActive(s) \/ CmdFlash(s)
      PROVE  Next
  BY <1>8 DEF CmdSetActive, CmdFlash, Call
<1>9. ASSUME NEW r \in {"normal", "fastboot"}, CmdReboot(r)
      PROVE  Next
  BY <1>9 DEF CmdReboot
<1>10. CASE OsMarks \/ PowerLost
  BY <1>10 DEF OsMarks, PowerLost
<1> QED
  BY <1>1, <1>2, <1>3, <1>4, <1>5, <1>6, <1>7, <1>8, <1>9, <1>10
  DEF FlowNext, Device, People, Fastboot

\* Every behaviour of the loader is one of the slot manager: LinuxLoaderEntry,
\* LoadImageAndAuth and the fastboot commands change the table and the boot
\* logical unit only by calls of its entry points, one after the other.
THEOREM FlowRefines == FlowSpec => Spec
<1>1. FlowInit => Init
  BY DEF FlowInit
<1> QED
  BY <1>1, FlowStep, PTL DEF FlowSpec, Spec

\* One fault never leaves a unit unreadable, whatever the keys, the reset reasons
\* and the host do, and neither do two, unless the loader goes on after a request
\* that failed half way.
THEOREM FlowLunReadable == FlowSpec => []LunReadable
BY FlowRefines, LunReadability, PTL

\* From factory tables or ones in use, the loader does not run into GetActiveSlot's
\* failure return with two faults, whatever the keys, the reset reasons, the
\* images and the host do.
THEOREM FlowActiveSlot == FactoryTables => (FlowSpec => []ActiveSlotFound)
BY FlowRefines, ActiveSlotInvariance, PTL

-----------------------------------------------------------------------------
(* A slot that is written off                                              *)

\* A slot that FindBootableSlot returned is the active one.
FoundActive == Ahead({"found"}) => ram["boot"][slot].act

\* Why HandleActiveSlotUnbootable is called
Condemned ==
  pc = "unbootable" =>
    /\ ActiveOf(ram) # NoSlot
    /\ LET e == ram["boot"][ActiveOf(ram)] IN
         \/ ActiveOf(ram) \notin usable
         \/ e.unb
         \/ ~e.suc /\ e.ret = 0
         \/ op = "boot"

VerdictInv ==
  /\ SelectionInv
  /\ FoundActive
  /\ Condemned
  /\ pc = "flush" => ret # "unbootable"

LEMMA VerdictInvInit == FlowInit => VerdictInv
<1> SUFFICES ASSUME FlowInit
             PROVE  VerdictInv
  OBVIOUS
<1>1. Init
  BY DEF FlowInit
<1>2. SelectionInv
  BY <1>1, SelectionInvInit
<1>3. pc = "off"
  BY <1>1 DEF Init
<1> QED
  BY <1>2, <1>3 DEF VerdictInv, FoundActive, Condemned, Ahead

LEMMA VerdictInvNext == VerdictInv /\ [FlowNext]_allVars => VerdictInv'
<1> SUFFICES ASSUME VerdictInv, [FlowNext]_allVars
             PROVE  VerdictInv'
  OBVIOUS
<1>1. [Next]_vars
  BY FlowStep
<1>2. SelectionInv /\ SelectionInv'
  BY <1>1, SelectionInvNext DEF VerdictInv
<1>3. SUFFICES /\ FoundActive' /\ Condemned'
               /\ pc' = "flush" => ret' # "unbootable"
  BY <1>2 DEF VerdictInv
<1>4. FoundActive /\ Condemned /\ (pc = "flush" => ret # "unbootable")
  BY DEF VerdictInv
<1>5. /\ ram \in Table /\ OneActive(ram)
      /\ ActiveOf(ram) \in Slots \cup {NoSlot}
      /\ SlotKnown
  BY <1>2, ActiveOfType DEF SelectionInv, SelectionSane, TypeInv, TypeOK
<1> USE DEF FoundActive, Condemned, Ahead
\* Most steps lead neither to a found slot nor to an unbootable one.
<1>6. ASSUME \/ pc' \notin {"found", "unbootable", "flush"}
             \/ pc' = "flush" /\ ret' \notin {"found", "unbootable"}
      PROVE  /\ FoundActive' /\ Condemned'
             /\ pc' = "flush" => ret' # "unbootable"
  BY <1>6
<1>7. CASE UNCHANGED allVars
  BY <1>4, <1>7 DEF allVars, vars, flow
<1>8. CASE SlotManagerStep
  <2>1. CASE RestoreCopy \/ Present
    BY <1>6, <2>1 DEF RestoreCopy, Present, Fault
  <2>2. CASE Flush
    <3>1. /\ pc = "flush" /\ pc' \in {pc, ret}
          /\ UNCHANGED <<ram, ret, slot>>
      BY <2>2 DEF Flush, WriteCopy, IoError, Fault, HalfWritten
    <3> QED
      BY <1>4, <3>1
  <2>3. CASE DefaultSlot
    BY <1>4, <1>6, <2>3 DEF DefaultSlot, FlushThen, NeedsActive
  <2>4. CASE NoActiveSlot
    BY <1>6, <2>4 DEF NoActiveSlot, Fail, NeedsActive
  <2>5. CASE Query \/ FindProven
    BY <1>6, <2>5 DEF Query, FindProven
  <2>6. CASE FindOnTrial
    BY <1>6, <2>6 DEF FindOnTrial, FlushThen
  <2>7. CASE FindUnbootable
    <3>1. /\ pc' = "unbootable" /\ ram' = ram
          /\ ActiveOf(ram) \in Slots
          /\ ~Proven(ram["boot"][ActiveOf(ram)])
          /\ ~OnTrial(ram["boot"][ActiveOf(ram)])
      BY <1>5, <2>7 DEF FindUnbootable
    <3>2. ram["boot"][ActiveOf(ram)].ret \in Nat
      BY <1>5, <3>1, RetType
    <3>3. LET e == ram["boot"][ActiveOf(ram)] IN e.unb \/ (~e.suc /\ e.ret = 0)
      BY <3>1, <3>2 DEF Proven, OnTrial
    <3> QED
      BY <3>1, <3>3 DEF NoSlot, Slots
  <2>8. CASE ValidateSlotGuids
    BY <1>6, <2>8 DEF ValidateSlotGuids, Fail, Fault
  <2>9. CASE MarkPtnActive
    <3>1. slot \in Slots /\ slot' = slot /\ ram' = WithActiveBits(ram, slot)
          /\ pc' = "flush" /\ ret' # "unbootable"
      BY <1>5, <2>9 DEF MarkPtnActive, FlushThen, SlotKnown, SlotLabels
    <3>2. ram'["boot"][slot'].act
      BY <1>5, <3>1, WithActiveBitsApply, BootIsPtn
    <3> QED
      BY <3>1, <3>2
  <2>10. CASE MarkUnbootable
    BY <1>6, <2>10 DEF MarkUnbootable, FlushThen
  <2>11. CASE Fallback \/ ResetSystem
    BY <1>6, <2>11 DEF Fallback, ResetSystem, Fail
  <2>12. CASE SetActiveSame \/ SetActiveOther \/ SetBootLun \/ FinishSetActive
    BY <1>6, <2>12 DEF SetActiveSame, SetActiveOther, SetBootLun,
                       FinishSetActive, FlushThen, RepairBootLun, LunSwitched,
                       LunRequestFails, SwitchedLun, Fault
  <2>13. CASE ClearUnbootable \/ FastbootUpdateAttr
    BY <1>6, <2>13 DEF ClearUnbootable, FastbootUpdateAttr, FlushThen
  <2> QED
    BY <1>8, <2>1, <2>2, <2>3, <2>4, <2>5, <2>6, <2>7, <2>8, <2>9, <2>10,
       <2>11, <2>12, <2>13
    DEF SlotManagerStep
<1>9. CASE Restart \/ PowerKey
  BY <1>6, <1>9 DEF Restart, PowerKey, ComeUp, PowerUp
<1>10. ASSUME NEW k \in BOOLEAN, ChooseMode(k)
       PROVE  /\ FoundActive' /\ Condemned'
              /\ pc' = "flush" => ret' # "unbootable"
  BY <1>6, <1>10 DEF ChooseMode, vars
<1>11. CASE LoadImageAndAuth \/ CmdBoot \/ CmdContinue
  BY <1>6, <1>11 DEF LoadImageAndAuth, CmdBoot, CmdContinue, Enter
<1>12. CASE AuthFails
  <2>1. /\ pc = "found" /\ pc' = "unbootable"
        /\ UNCHANGED <<ram, op, slot, usable>>
        /\ slot \notin usable \/ op = "boot"
    BY <1>12 DEF AuthFails, VerifyFails, Rejected
  <2>2. slot \in Slots /\ ActiveOf(ram) = slot
    BY <1>4, <1>5, <2>1, ActiveOfOne DEF SlotKnown, SlotLabels
  <2> QED
    BY <2>1, <2>2 DEF NoSlot, Slots
<1>13. CASE HandOver \/ BootLinuxFails
  BY <1>6, <1>13 DEF HandOver, BootLinuxFails, BootOs, BootLinuxReturns
<1>14. CASE RedScreen \/ RebootToRecovery \/ OsReboots
  BY <1>6, <1>14 DEF RedScreen, RebootToRecovery, OsReboots, Reboot
<1>15. ASSUME NEW s \in Slots, CmdSetActive(s) \/ CmdFlash(s)
       PROVE  /\ FoundActive' /\ Condemned'
              /\ pc' = "flush" => ret' # "unbootable"
  BY <1>6, <1>15 DEF CmdSetActive, CmdFlash, Enter
<1>16. ASSUME NEW r \in {"normal", "fastboot"}, CmdReboot(r)
       PROVE  /\ FoundActive' /\ Condemned'
              /\ pc' = "flush" => ret' # "unbootable"
  BY <1>6, <1>16 DEF CmdReboot, Reboot
<1>17. CASE OsMarks \/ PowerLost
  BY <1>6, <1>17 DEF OsMarks, OsMarkSuccessful, PowerLost, PowerCut, Fault,
                     HalfWritten
<1> QED
  BY <1>7, <1>8, <1>9, <1>10, <1>11, <1>12, <1>13, <1>14, <1>15, <1>16, <1>17
  DEF FlowNext, Device, People, Fastboot

LEMMA VerdictStep ==
  ASSUME VerdictInv, [FlowNext]_allVars, NEW s \in Slots,
         pc = "unbootable", ~ram["boot"][s].unb, ram'["boot"][s].unb
  PROVE  LET e == ram["boot"][s] IN
           s \notin usable \/ (~e.suc /\ e.ret = 0) \/ op = "boot"
<1>1. [Next]_vars
  BY FlowStep
<1>2. ram' # ram
  OBVIOUS
<1>3. /\ ram \in Table /\ ActiveOf(ram) # NoSlot
      /\ ActiveOf(ram) \in Slots
  BY ActiveOfType
     DEF VerdictInv, Condemned, SelectionInv, TypeInv, TypeOK
<1>4. MarkUnbootable
  <2>1. Next
    BY <1>1, <1>2 DEF vars
  <2> USE <1>2, <1>3
  <2>2. ~(PowerUp \/ RestoreCopy \/ Present \/ Flush)
    BY DEF PowerUp, RestoreCopy, Present, Flush, WriteCopy, IoError, Fault,
           HalfWritten
  <2>3. ~(DefaultSlot \/ NoActiveSlot \/ Query)
    BY DEF DefaultSlot, NoActiveSlot, Query
  <2>4. ~(FindProven \/ FindOnTrial \/ FindUnbootable \/ ValidateSlotGuids)
    BY DEF FindProven, FindOnTrial, FindUnbootable, ValidateSlotGuids, Fault
  <2>5. ~(MarkPtnActive \/ Fallback \/ ResetSystem)
    BY DEF MarkPtnActive, Fallback, ResetSystem
  <2>6. ~(SetActiveSame \/ SetActiveOther \/ SetBootLun \/ FinishSetActive)
    BY DEF SetActiveSame, SetActiveOther, SetBootLun, FinishSetActive,
           RepairBootLun, LunSwitched, LunRequestFails, SwitchedLun, Fault
  <2>7. ~(ClearUnbootable \/ FastbootUpdateAttr)
    BY DEF ClearUnbootable, FastbootUpdateAttr
  <2>8. ~Environment
    BY DEF Environment, Call, Enter, VerifyFails, BootOs, BootLinuxReturns,
           OsMarkSuccessful, Reboot, PowerCut, Fault, HalfWritten
  <2> QED
    BY <2>1, <2>2, <2>3, <2>4, <2>5, <2>6, <2>7, <2>8 DEF Next, Loader
<1>5. ram' = WithUnbootable(ram, ActiveOf(ram))
  BY <1>2, <1>4 DEF MarkUnbootable
<1>6. s = ActiveOf(ram)
  BY <1>3, <1>5, UpdBootApply DEF WithUnbootable
<1> QED
  BY <1>6 DEF VerdictInv, Condemned

\* HandleActiveSlotUnbootable writes off only the slot that failed: one whose
\* images do not lead to a boot or that has used up its tries, or the active
\* one if a fastboot boot failed; never a slot that would still boot.
THEOREM VerdictsDeserved == FlowSpec => UnbootableDeserved
<1>1. VerdictInv /\ [FlowNext]_allVars =>
        [\A s \in Slots :
           LET e == ram["boot"][s] IN
             (pc = "unbootable" /\ ~e.unb /\ ram'["boot"][s].unb) =>
               s \notin usable \/ (~e.suc /\ e.ret = 0) \/ op = "boot"]_allVars
  BY VerdictStep
<1> QED
  BY <1>1, VerdictInvInit, VerdictInvNext, PTL DEF FlowSpec, UnbootableDeserved
=============================================================================
