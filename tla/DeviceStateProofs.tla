------------------------- MODULE DeviceStateProofs -------------------------
(***************************************************************************)
(* For any number of failing requests and power cuts: on a device whose    *)
(* user confirms a change of the lock state on a menu (not AVB_LE) the     *)
(* loader acts on the stored lock state, the stored lock state changes     *)
(* only as confirmed, and data of another lock state is waiting to be      *)
(* wiped.  The keys follow the lock state up to one failing request, the   *)
(* answers to the host up to the first one.                                *)
(***************************************************************************)
EXTENDS DeviceState, TLAPS

\* Where the lock bits in RAM must be the stored ones: everywhere but between
\* a failed write and the end of the loader that follows it.
InStep == {"keys", "reason", "mode", "fastboot", "recovery", "os",
           "setValue", "reset", "undo", "wipe"}

\* The inductive invariant: besides LockBitsStored, the change in progress is
\* the one on the menu, and defaults are written only over a blank record.
IInv ==
  /\ TypeOK
  /\ pc \in Changing => change.type \in LockBits
  /\ (~avbLe /\ pc \in InStep) => Lock(dev) = Lock(stored)
  /\ (~avbLe /\ pc = "fastboot") => published = dev.unlocked
  /\ (~avbLe /\ pc \in Changing) => change = menu
  /\ pc = "default" => ~stored.magic

-----------------------------------------------------------------------------
(* Records                                                                 *)

\* Setting a field of the record to a truth value gives a record.
LEMMA RecordSet ==
  ASSUME NEW rec \in DeviceInfo, NEW b \in BOOLEAN
  PROVE /\ [rec EXCEPT !.verity = b] \in DeviceInfo
        /\ [rec EXCEPT !.charger = b] \in DeviceInfo
        /\ [rec EXCEPT !.userKey = b] \in DeviceInfo
        /\ \A c \in LockBits : [rec EXCEPT ![c] = b] \in DeviceInfo
  BY Zenon DEF DeviceInfo, LockBits

\* The blank record and the defaults are records.
LEMMA Records == Blank \in DeviceInfo /\ Defaults \in DeviceInfo
  BY DeviceAssumption DEF Blank, Defaults, DeviceInfo

\* A write that touches no lock bit leaves the lock bits of the records equal,
\* whether it succeeds or not.
LEMMA OtherField ==
  ASSUME NEW rec \in DeviceInfo, NEW b \in BOOLEAN
  PROVE /\ Lock([rec EXCEPT !.verity = b]) = Lock(rec)
        /\ Lock([rec EXCEPT !.charger = b]) = Lock(rec)
        /\ Lock([rec EXCEPT !.userKey = b]) = Lock(rec)
  BY DEF DeviceInfo, Lock, LockBits

\* The lock bits of a record are truth values.
LEMMA LockType ==
  ASSUME NEW rec \in DeviceInfo
  PROVE Lock(rec) \in Locks
  BY DEF Lock, Locks, LockBits, DeviceInfo

\* Taking a change back is a change of the same bit.
LEMMA OppositeChange ==
  ASSUME NEW c \in Change
  PROVE Opposite(c) \in Change /\ Opposite(c).type = c.type
  BY DEF Change, Opposite, LockBits

\* Everything a reset sets is in its type.
LEMMA ResetType ==
  ASSUME NEW r \in Reasons, Reset(r)
  PROVE /\ pc' = "off" /\ reason' \in Reasons /\ dev' \in DeviceInfo
        /\ want' \in [fastboot : BOOLEAN, recovery : BOOLEAN, reason : Reasons]
        /\ allow' \in BOOLEAN /\ published' \in BOOLEAN /\ told' \in Locks
        /\ menu' \in Change \cup {NoChange} /\ change' \in Change \cup {NoChange}
  BY Records, LockType DEF Reset, NoWant, Reasons

-----------------------------------------------------------------------------
(* The invariant                                                           *)

LEMMA InvInit == Init => IInv
  <1> SUFFICES ASSUME Init PROVE IInv
    OBVIOUS
  <1>1. 0 \in 0..MaxFaults /\ 0 \in 0..MaxCuts
    BY DeviceAssumption
  <1>2. Lock(Blank) \in Locks
    BY Records, LockType
  <1>4. stored \in DeviceInfo
    <2>1. CASE stored = Blank
      BY <2>1, Records
    <2>2. CASE stored = [Defaults EXCEPT !.verity = FALSE]
      BY <2>2, Records, RecordSet, Zenon
    <2> QED
      BY <2>1, <2>2, Zenon DEF Init
  <1>3. TypeOK
    <2>1. /\ dev = Blank /\ pc = "off" /\ told = Lock(Blank) /\ avbLe \in BOOLEAN
          /\ keys = "none" /\ data = "none" /\ misc = "none" /\ reason = "normal"
          /\ want = NoWant /\ frp \in BOOLEAN /\ allow = FALSE /\ published = FALSE
          /\ menu = NoChange /\ change = NoChange /\ faults = 0 /\ cuts = 0
          /\ unasked = FALSE
      BY Zenon DEF Init
    <2> QED
      BY <1>1, <1>2, <1>4, <2>1, Records DEF TypeOK, Stages, Reasons, NoWant, Bound
  <1>5. pc = "off"
    BY Zenon DEF Init
  <1> QED
    BY <1>3, <1>5 DEF IInv, InStep, Changing

\* A reset establishes the invariant when what lasts keeps its type.
LEMMA InvReset ==
  ASSUME IInv, NEW r \in Reasons, Reset(r), stored' = stored,
         keys' \in Bound, data' \in Bound, misc' \in {"none", "command", "wipe"},
         frp' \in BOOLEAN, unasked' \in BOOLEAN, avbLe' = avbLe, faults' \in 0..MaxFaults, cuts' \in 0..MaxCuts
  PROVE IInv'
  <1>1. TypeOK'
    BY ResetType DEF IInv, TypeOK, Stages, Bound
  <1>2. pc' = "off"
    BY DEF Reset
  <1> QED
    BY <1>1, <1>2 DEF IInv, InStep, Changing

LEMMA InvNext ==
  ASSUME IInv, [Next]_vars
  PROVE IInv'
  <1> USE DEF IInv
  <1>d. TypeOK
    OBVIOUS
  <1>f. /\ faults \in 0..MaxFaults /\ cuts \in 0..MaxCuts
        /\ MaxFaults \in Nat /\ MaxCuts \in Nat
    BY <1>d, DeviceAssumption DEF TypeOK
  <1>u. Fault => faults' \in 0..MaxFaults
    BY <1>f DEF Fault
  <1>1. CASE UNCHANGED vars
    BY <1>1 DEF vars, TypeOK, InStep, Changing, Lock
  <1>2. CASE PowerCut
    <2>1. cuts' \in 0..MaxCuts /\ unasked' \in BOOLEAN
      BY <1>2, <1>d, <1>f DEF PowerCut, TypeOK
    <2> QED
      BY <1>2, <2>1, <1>d, InvReset DEF PowerCut, TypeOK, disk, Reasons
  <1>3. CASE PowerUp
    BY <1>3, <1>d DEF PowerUp, TypeOK, disk, session, Stages, InStep, Changing
  <1>4. CASE ReadDeviceInfo
    <2>1. dev' \in DeviceInfo /\ faults' \in 0..MaxFaults
      BY <1>4, <1>d, <1>u, Records DEF ReadDeviceInfo, TypeOK
    <2>2. TypeOK'
      BY <1>4, <2>1, <1>d DEF ReadDeviceInfo, TypeOK, disk, session, Stages
    <2> QED
      BY <1>4, <2>2 DEF ReadDeviceInfo, disk, InStep, Changing
  <1>5. ASSUME NEW ok \in BOOLEAN, WriteDefaults(ok) PROVE IInv'
    <2>1. TypeOK'
      BY <1>5, <1>d, <1>u DEF WriteDefaults, Stores, TypeOK, session, Stages
    <2> QED
      BY <1>5, <2>1 DEF WriteDefaults, Stores, InStep, Changing
  <1>6. ASSUME NEW key \in Keys, ReadKeysAndReason(key) PROVE IInv'
    <2>1. TypeOK'
      BY <1>6, <1>d DEF ReadKeysAndReason, TypeOK, disk, session, Stages, Reasons
    <2> QED
      BY <1>6, <2>1 DEF ReadKeysAndReason, disk, InStep, Changing, Lock
  <1>k. CASE ReadKeysFails
    <2>1. TypeOK'
      BY <1>k, <1>d, <1>u DEF ReadKeysFails, TypeOK, disk, session, Stages
    <2> QED
      BY <1>k, <2>1 DEF ReadKeysFails, disk, InStep, Changing
  <1>7. ASSUME NEW ok \in BOOLEAN, ReasonEnforcing(ok) PROVE IInv'
    <2>1. dev' \in DeviceInfo /\ Lock(dev') = Lock(dev)
      BY <1>7, <1>d, RecordSet, OtherField DEF ReasonEnforcing, TypeOK
    <2>2. stored' \in DeviceInfo /\ faults' \in 0..MaxFaults
      BY <1>7, <1>d, <1>u, <2>1 DEF ReasonEnforcing, Stores, TypeOK
    <2>3. TypeOK'
      BY <1>7, <1>d, <2>1, <2>2 DEF ReasonEnforcing, TypeOK, session, Stages
    <2>4. (ok /\ ~avbLe) => Lock(stored') = Lock(dev')
      BY <1>7, <2>1 DEF ReasonEnforcing, Stores, InStep
    <2> QED
      BY <1>7, <2>3, <2>4 DEF ReasonEnforcing, InStep, Changing
  <1>8. ASSUME NEW ok \in BOOLEAN, ReasonKeysClear(ok) PROVE IInv'
    <2>1. TypeOK'
      BY <1>8, <1>d, <1>u DEF ReasonKeysClear, Resets, TypeOK, session, Stages, Bound
    <2> QED
      BY <1>8, <2>1 DEF ReasonKeysClear, InStep, Changing, Lock
  <1>9. CASE ReasonOther
    BY <1>9, <1>d DEF ReasonOther, TypeOK, disk, session, Stages, InStep, Changing, Lock
  <1>10. CASE StartFastboot
    <2>1. TypeOK'
      BY <1>10, <1>d, LockType DEF StartFastboot, TypeOK, disk, Stages, DeviceInfo
    <2> QED
      BY <1>10, <2>1 DEF StartFastboot, disk, InStep, Changing, Lock
  <1>11. ASSUME NEW ok \in BOOLEAN, StartSystem(ok) PROVE IInv'
    <2>1. TypeOK'
      BY <1>11, <1>d, <1>u DEF StartSystem, TypeOK, disk, session, Stages
    <2> QED
      BY <1>11, <2>1 DEF StartSystem, disk, InStep, Changing, Lock
  <1>12. ASSUME NEW r \in Reasons, Leaves(r) PROVE IInv'
    BY <1>12, <1>d, InvReset DEF Leaves, TypeOK, disk
  <1>13. CASE LoadFails \/ TurnOffAndOn \/ CmdReboot \/ CmdRebootBootloader
              \/ Restart \/ RebootToRecovery \/ KeyTurnsOff
    BY <1>13, <1>12 DEF KeyTurnsOff, LoadFails, TurnOffAndOn, CmdReboot, CmdRebootBootloader,
       Restart, RebootToRecovery, Reasons
  <1>14. ASSUME NEW ok \in BOOLEAN, InFastboot, Answered,
                dev' \in DeviceInfo, Lock(dev') = Lock(dev), Stores(ok, dev')
         PROVE IInv'
    <2>1. stored' \in DeviceInfo /\ faults' \in 0..MaxFaults
      BY <1>14, <1>d, <1>u DEF Stores, TypeOK
    <2>2. TypeOK'
      BY <1>14, <1>d, <2>1 DEF Answered, TypeOK, session
    <2>3. ~avbLe => Lock(stored') = Lock(dev')
      BY <1>14 DEF Stores, InFastboot, InStep, Answered
    <2>4. dev'.unlocked = dev.unlocked
      BY <1>14 DEF Lock, LockBits
    <2> QED
      BY <1>14, <2>2, <2>3, <2>4 DEF Answered, InFastboot, session, InStep, Changing
  <1>15. ASSUME NEW ok \in BOOLEAN, Fastboot(ok) PROVE IInv'
    <2>1. ASSUME NEW b \in BOOLEAN, CmdOemChargerScreen(b, ok) PROVE IInv'
      <3>1. dev' \in DeviceInfo /\ Lock(dev') = Lock(dev)
        BY <2>1, <1>d, RecordSet, OtherField DEF CmdOemChargerScreen, TypeOK
      <3> QED
        BY <2>1, <3>1, <1>14 DEF CmdOemChargerScreen
    <2>2. ASSUME NEW b \in BOOLEAN, CmdUserKey(b, ok) PROVE IInv'
      <3>1. dev' \in DeviceInfo /\ Lock(dev') = Lock(dev)
        BY <2>2, <1>d, RecordSet, OtherField DEF CmdUserKey, TypeOK
      <3> QED
        BY <2>2, <3>1, <1>14 DEF CmdUserKey
    <2>3. ASSUME CmdFlashSystem(ok) PROVE IInv'
      <3>1. dev' \in DeviceInfo /\ Lock(dev') = Lock(dev)
        BY <2>3, <1>d, RecordSet, OtherField DEF CmdFlashSystem, TypeOK
      <3> QED
        BY <2>3, <3>1, <1>14 DEF CmdFlashSystem
    <2> QED
      BY <1>15, <2>1, <2>2, <2>3 DEF Fastboot
  <1>16. ASSUME NEW b \in BOOLEAN, CmdFlashFrp(b) PROVE IInv'
    BY <1>16, <1>d DEF CmdFlashFrp, InFastboot, TypeOK, session, InStep, Changing, Lock
  <1>17. ASSUME NEW c \in Change, SetDeviceUnlockMenu(c) PROVE IInv'
    BY <1>17, <1>d DEF SetDeviceUnlockMenu, MayChange, InFastboot, TypeOK, disk,
       InStep, Changing, Lock
  <1>18. ASSUME NEW c \in Change, SetDeviceUnlockNow(c) PROVE IInv'
    BY <1>18, <1>d DEF SetDeviceUnlockNow, MayChange, InFastboot, TypeOK, disk,
       Stages, InStep, Changing, Change, Lock
  <1>19. CASE CmdContinue
    BY <1>19, <1>d DEF CmdContinue, InFastboot, TypeOK, disk, Stages, InStep,
       Changing, Lock
  <1>20. ASSUME NEW ok \in BOOLEAN, ResetDeviceUnlockStatus(ok) PROVE IInv'
    <2>1. TypeOK'
      BY <1>20, <1>d, <1>u DEF ResetDeviceUnlockStatus, TypeOK, disk, Stages, Changing
    <2>2. menu.type \in LockBits
      BY <1>20, <1>d DEF ResetDeviceUnlockStatus, TypeOK, Change
    <2> QED
      BY <1>20, <2>1, <2>2
      DEF ResetDeviceUnlockStatus, InFastboot, disk, InStep, Changing, Lock
  <1>c. pc \in Changing => change \in Change /\ Opposite(change) \in Change
    <2>1. pc \in Changing => change \in Change
      BY <1>d DEF TypeOK, NoChange, LockBits
    <2> QED
      BY <2>1, OppositeChange
  <1>21. ASSUME NEW c \in Change, NEW ok \in BOOLEAN, SetsBit(c, ok),
                avbLe \/ Lock(dev) = Lock(stored)
         PROVE /\ dev' \in DeviceInfo /\ stored' \in DeviceInfo
               /\ faults' \in 0..MaxFaults
               /\ (ok /\ ~avbLe) => Lock(dev') = Lock(stored')
    <2>1. c.type \in LockBits /\ c.state \in BOOLEAN
      BY DEF Change
    <2>2. dev' \in DeviceInfo
      BY <1>21, <2>1, <1>d, RecordSet DEF SetsBit, TypeOK
    <2>3. CASE dev[c.type] = c.state
      <3>1. dev' = dev
        BY <1>21, <2>1, <2>3, <1>d, Zenon DEF SetsBit, TypeOK, DeviceInfo, LockBits
      <3> QED
        BY <1>21, <2>3, <3>1, <1>d DEF SetsBit, TypeOK, Lock
    <2>4. CASE dev[c.type] # c.state
      BY <1>21, <2>2, <2>4, <1>d, <1>u DEF SetsBit, Stores, TypeOK
    <2> QED
      BY <2>2, <2>3, <2>4
  <1>22. ASSUME NEW ok \in BOOLEAN, SetValue(ok) PROVE IInv'
    <2>1. /\ dev' \in DeviceInfo /\ stored' \in DeviceInfo
          /\ faults' \in 0..MaxFaults
          /\ (ok /\ ~avbLe) => Lock(dev') = Lock(stored')
      BY <1>22, <1>21, <1>c DEF SetValue, InStep, Changing
    <2>2. TypeOK'
      BY <1>22, <2>1, <1>d DEF SetValue, Ends, TypeOK, Stages, Changing
    <2> QED
      BY <1>22, <2>1, <2>2 DEF SetValue, Ends, InStep, Changing
  <1>23. ASSUME NEW ok \in BOOLEAN, ResetState(ok) PROVE IInv'
    <2>1. TypeOK'
      BY <1>23, <1>d, <1>u DEF ResetState, Resets, TypeOK, session, Stages, Changing, Bound
    <2> QED
      BY <1>23, <2>1 DEF ResetState, session, InStep, Changing, Lock
  <1>24. ASSUME NEW ok \in BOOLEAN, UndoValue(ok) PROVE IInv'
    <2>1. dev' \in DeviceInfo /\ stored' \in DeviceInfo /\ faults' \in 0..MaxFaults
      BY <1>24, <1>21, <1>c DEF UndoValue, InStep, Changing
    <2>2. TypeOK'
      BY <1>24, <2>1, <1>d DEF UndoValue, Ends, TypeOK, Stages, Changing
    <2> QED
      BY <1>24, <2>2 DEF UndoValue, Ends, InStep, Changing
  <1>25. ASSUME NEW ok \in BOOLEAN, WriteWipe(ok) PROVE IInv'
    <2>1. TypeOK'
      <3>1. told' \in Locks
        BY <1>25, <1>c, <1>d DEF WriteWipe, Ends, TypeOK, Locks, Change, Changing
      <3>2. /\ faults' \in 0..MaxFaults /\ misc' \in {"none", "command", "wipe"}
            /\ pc' \in Stages /\ change' \in Change \cup {NoChange}
        BY <1>25, <1>d, <1>u DEF WriteWipe, Ends, TypeOK, Stages, Changing
      <3> QED
        BY <1>25, <1>d, <3>1, <3>2 DEF WriteWipe, TypeOK
    <2> QED
      BY <1>25, <2>1 DEF WriteWipe, Ends, InStep, Changing, Lock
  <1>26. CASE OsRuns
    <2>1. TypeOK'
      BY <1>26, <1>d DEF OsRuns, TypeOK, session, Name, Bound
    <2> QED
      BY <1>26, <2>1 DEF OsRuns, InStep, Changing, Lock
  <1>27. ASSUME NEW r \in Reasons, OsRestarts(r) PROVE IInv'
    <2>1. misc' \in {"none", "command", "wipe"} /\ unasked' \in BOOLEAN
      BY <1>27, <1>d DEF OsRestarts, TypeOK
    <2> QED
      BY <1>27, <2>1, <1>d, InvReset DEF OsRestarts, TypeOK
  <1>28. CASE RecoveryRuns
    BY <1>28, <1>d, InvReset DEF RecoveryRuns, TypeOK, Bound, Reasons
  <1>29. ASSUME NEW ok \in BOOLEAN, Loader(ok) PROVE IInv'
    BY <1>29, <1>5, <1>7, <1>8, <1>11 DEF Loader
  <1>30. ASSUME NEW ok \in BOOLEAN, SetDeviceUnlockValue(ok) PROVE IInv'
    BY <1>30, <1>20, <1>22, <1>23, <1>24, <1>25 DEF SetDeviceUnlockValue
  <1> QED
    BY <1>1, <1>2, <1>3, <1>4, <1>6, <1>k, <1>9, <1>10, <1>13, <1>15, <1>16, <1>17,
       <1>18, <1>19, <1>26, <1>27, <1>28, <1>29, <1>30 DEF Next

-----------------------------------------------------------------------------
(* The theorems                                                            *)

\* IInv holds in every reachable state.
THEOREM Invariant == Spec => []IInv
  <1>1. IInv /\ [Next]_vars => IInv'
    BY InvNext
  <1> QED
    BY <1>1, InvInit, PTL DEF Spec

\* Every variable keeps its type.
THEOREM TypeCorrect == Spec => []TypeOK
  <1>1. IInv => TypeOK
    BY DEF IInv
  <1> QED
    BY <1>1, Invariant, PTL

\* On a device with a menu every part of the loader that acts on the lock
\* state acts on the stored one, however many requests have failed.
THEOREM LockStateStored == Spec => []LockBitsStored
  <1>1. IInv => LockBitsStored
    BY DEF IInv, InStep, LockBitsStored, Lock, LockBits
  <1> QED
    BY <1>1, Invariant, PTL

\* The step of OnlyConfirmedChanges.
LEMMA ConfirmedStep ==
  ASSUME ~avbLe, IInv, [Next]_vars, stored.magic, Lock(stored') # Lock(stored)
  PROVE /\ pc \in {"setValue", "undo"}
        /\ change = menu /\ menu.type # "none"
        /\ \A b \in LockBits \ {menu.type} : stored'[b] = stored[b]
  <1> USE DEF IInv
  <1>1. stored' # stored
    BY DEF Lock
  <1>2. ASSUME NEW ok \in BOOLEAN, InFastboot, Lock(dev') = Lock(dev), Stores(ok, dev')
        PROVE FALSE
    <2>1. Lock(stored) = Lock(dev)
      BY <1>2 DEF InFastboot, InStep
    <2>2. Lock(stored') = Lock(dev')
      BY <1>1, <1>2 DEF Stores
    <2> QED
      BY <2>1, <2>2, <1>2
  <1>3. ASSUME NEW ok \in BOOLEAN, Fastboot(ok) PROVE FALSE
    <2>d. dev \in DeviceInfo
      BY DEF TypeOK
    <2>1. ASSUME NEW b \in BOOLEAN, CmdOemChargerScreen(b, ok) PROVE FALSE
      <3>1. Lock(dev') = Lock(dev)
        BY <2>1, <2>d, OtherField DEF CmdOemChargerScreen
      <3> QED
        BY <2>1, <3>1, <1>2 DEF CmdOemChargerScreen
    <2>2. ASSUME NEW b \in BOOLEAN, CmdUserKey(b, ok) PROVE FALSE
      <3>1. Lock(dev') = Lock(dev)
        BY <2>2, <2>d, OtherField DEF CmdUserKey
      <3> QED
        BY <2>2, <3>1, <1>2 DEF CmdUserKey
    <2>3. ASSUME CmdFlashSystem(ok) PROVE FALSE
      <3>1. Lock(dev') = Lock(dev)
        BY <2>3, <2>d, OtherField DEF CmdFlashSystem
      <3> QED
        BY <2>3, <3>1, <1>2 DEF CmdFlashSystem
    <2> QED
      BY <1>3, <2>1, <2>2, <2>3 DEF Fastboot
  <1>4. ASSUME NEW ok \in BOOLEAN, Loader(ok) PROVE FALSE
    <2>1. ~WriteDefaults(ok)
      BY DEF WriteDefaults
    <2>2. ~ReasonEnforcing(ok)
      <3>1. ReasonEnforcing(ok) => Lock(dev') = Lock(dev)
        BY OtherField DEF ReasonEnforcing, TypeOK
      <3> QED
        BY <3>1, <1>1 DEF ReasonEnforcing, Stores, InStep
    <2> QED
      BY <1>4, <2>1, <2>2, <1>1 DEF Loader, ReasonKeysClear, StartSystem, disk
  <1>5. \E ok \in BOOLEAN : SetValue(ok) \/ UndoValue(ok)
    BY <1>1, <1>3, <1>4, Zenon
    DEF Next, vars, PowerCut, PowerUp, ReadDeviceInfo, ReadKeysAndReason,
        ReadKeysFails, KeyTurnsOff, ReasonOther, StartFastboot, LoadFails, TurnOffAndOn, CmdFlashFrp,
        SetDeviceUnlockMenu, SetDeviceUnlockNow, CmdReboot, CmdRebootBootloader,
        CmdContinue, Restart, RebootToRecovery, OsRuns, OsRestarts, RecoveryRuns,
        SetDeviceUnlockValue, ResetDeviceUnlockStatus, ResetState, WriteWipe,
        Leaves, disk
  <1>6. PICK ok \in BOOLEAN : SetValue(ok) \/ UndoValue(ok)
    BY <1>5
  <1>7. pc \in {"setValue", "undo"}
    BY <1>6 DEF SetValue, UndoValue
  <1>8. change = menu /\ menu.type \in LockBits /\ change \in Change
    BY <1>7 DEF Changing, TypeOK, NoChange, LockBits
  <1>9. PICK c \in Change : SetsBit(c, ok) /\ c.type = menu.type
    BY <1>6, <1>8, OppositeChange DEF SetValue, UndoValue
  <1>10. ASSUME NEW b \in LockBits \ {menu.type} PROVE stored'[b] = stored[b]
    <2>1. stored' = dev'
      BY <1>1, <1>9 DEF SetsBit, Stores
    <2>2. dev'[b] = dev[b]
      BY <1>9 DEF SetsBit, TypeOK, DeviceInfo, LockBits
    <2>3. dev[b] = stored[b]
      BY <1>7 DEF InStep, Lock
    <2> QED
      BY <2>1, <2>2, <2>3
  <1> QED
    BY <1>7, <1>8, <1>10 DEF LockBits

\* On a device with a menu the stored lock state changes only as the user has
\* confirmed it, or back, and one bit at a time.
THEOREM ChangesConfirmed == Spec => OnlyConfirmedChanges
  <1>1. IInv /\ [Next]_vars =>
          [~avbLe /\ stored.magic /\ Lock(stored') # Lock(stored)
             => /\ pc \in {"setValue", "undo"}
                /\ change = menu /\ menu.type # "none"
                /\ \A b \in LockBits \ {menu.type} : stored'[b] = stored[b]]_vars
    BY ConfirmedStep
  <1>2. Spec => []IInv
    BY Invariant
  <1> QED
    BY <1>1, <1>2, PTL DEF Spec, OnlyConfirmedChanges

-----------------------------------------------------------------------------
(* What is used under a lock state follows it                              *)

Idle == {"off", "init", "exit"}

\* A record without the magic is one under which nothing was used.  A change
\* is of a bit that has the other value, until SetUnlockValue gives it the new
\* one.
ChangeInv ==
  /\ IInv
  /\ pc \notin Idle => dev.magic
  /\ pc \notin Idle \cup {"default"} => stored.magic
  /\ ~stored.magic => keys = "none" /\ data = "none"
  /\ pc \in {"off", "init", "default", "keys", "reason", "mode"} => menu = NoChange
  /\ ~avbLe =>
       /\ pc = "fastboot" /\ menu # NoChange => dev[menu.type] # menu.state
       /\ pc = "setValue" => dev[change.type] # change.state
       /\ pc \in {"reset", "undo"} => stored[change.type] = change.state

\* The bit "unlocked" as it was before the change in progress
Before == IF change.type = "unlocked" THEN ~change.state ELSE stored.unlocked

KeysAgree ==
  (~avbLe /\ faults <= 1 /\ cuts = 0) =>
    /\ pc \notin {"reset", "undo"} => keys \in {"none", Name(stored.unlocked)}
    /\ pc \in {"reset", "undo"} => keys \in {"none", Name(Before)}
    /\ pc = "undo" => faults = 1

KeysInv == ChangeInv /\ KeysAgree

\* A write that touches no lock bit keeps the magic and every lock bit.
LEMMA OtherFieldKeeps ==
  ASSUME NEW rec \in DeviceInfo, NEW b \in BOOLEAN
  PROVE  /\ [rec EXCEPT !.verity = b].magic = rec.magic
         /\ [rec EXCEPT !.charger = b].magic = rec.magic
         /\ [rec EXCEPT !.userKey = b].magic = rec.magic
         /\ \A c \in LockBits : /\ [rec EXCEPT !.verity = b][c] = rec[c]
                                /\ [rec EXCEPT !.charger = b][c] = rec[c]
                                /\ [rec EXCEPT !.userKey = b][c] = rec[c]
BY DEF DeviceInfo, LockBits

LEMMA LockBitKeeps ==
  ASSUME NEW rec \in DeviceInfo, NEW c \in LockBits, NEW b \in BOOLEAN
  PROVE  /\ [rec EXCEPT ![c] = b].magic = rec.magic
         /\ [rec EXCEPT ![c] = b][c] = b
         /\ c # "unlocked" => [rec EXCEPT ![c] = b].unlocked = rec.unlocked
BY DEF DeviceInfo, LockBits

\* Steps of fastboot that write the record keep its lock bits, in RAM ...
LEMMA FastbootWrites ==
  ASSUME dev \in DeviceInfo, NEW ok \in BOOLEAN, Fastboot(ok)
  PROVE  /\ dev'.magic = dev.magic /\ \A c \in LockBits : dev'[c] = dev[c]
         /\ InFastboot /\ Answered /\ Stores(ok, dev')
<1>1. ASSUME NEW b \in BOOLEAN, CmdOemChargerScreen(b, ok)
      PROVE  dev'.magic = dev.magic /\ \A c \in LockBits : dev'[c] = dev[c]
  BY <1>1, OtherFieldKeeps DEF CmdOemChargerScreen
<1>2. ASSUME NEW b \in BOOLEAN, CmdUserKey(b, ok)
      PROVE  dev'.magic = dev.magic /\ \A c \in LockBits : dev'[c] = dev[c]
  BY <1>2, OtherFieldKeeps DEF CmdUserKey
<1>3. ASSUME CmdFlashSystem(ok)
      PROVE  dev'.magic = dev.magic /\ \A c \in LockBits : dev'[c] = dev[c]
  BY <1>3, OtherFieldKeeps DEF CmdFlashSystem
<1>4. InFastboot /\ Answered /\ Stores(ok, dev')
  BY DEF Fastboot, CmdOemChargerScreen, CmdUserKey, CmdFlashSystem
<1> QED
  BY <1>1, <1>2, <1>3, <1>4 DEF Fastboot

\* ... and on the storage.
LEMMA FastbootKeeps ==
  ASSUME dev \in DeviceInfo, NEW ok \in BOOLEAN, Fastboot(ok), Lock(dev) = Lock(stored)
  PROVE  /\ \A c \in LockBits : stored'[c] = stored[c] /\ dev'[c] = dev[c]
         /\ InFastboot /\ Answered /\ faults' \in {faults, faults + 1}
<1>1. /\ \A c \in LockBits : dev'[c] = dev[c]
      /\ InFastboot /\ Answered /\ Stores(ok, dev')
  BY FastbootWrites
<1>2. \A c \in LockBits : dev[c] = stored[c]
  BY DEF Lock
<1> QED
  BY <1>1, <1>2 DEF Stores, Fault

LEMMA ChangeInvInit == Init => ChangeInv
<1> SUFFICES ASSUME Init
             PROVE  ChangeInv
  OBVIOUS
<1>1. /\ pc = "off" /\ keys = "none" /\ data = "none" /\ menu = NoChange
  BY Zenon DEF Init
<1> QED
  BY <1>1, InvInit DEF ChangeInv, Idle

LEMMA ChangeInvNext == ChangeInv /\ [Next]_vars => ChangeInv'
<1> SUFFICES ASSUME ChangeInv, [Next]_vars
             PROVE  ChangeInv'
  OBVIOUS
<1>1. IInv /\ IInv' /\ TypeOK /\ TypeOK' /\ dev \in DeviceInfo /\ stored \in DeviceInfo
  BY InvNext DEF ChangeInv, IInv, TypeOK
<1> USE DEF ChangeInv, Idle
<1>2. CASE UNCHANGED vars
  BY <1>1, <1>2 DEF vars
<1>3. ASSUME NEW r \in Reasons, Reset(r), stored' = stored, keys' \in {keys, "none"},
             data' \in {data, "none"}
      PROVE  ChangeInv'
  BY <1>1, <1>3 DEF Reset
<1>4. CASE PowerCut
  BY <1>3, <1>4 DEF PowerCut, disk, Reasons
<1>5. CASE PowerUp
  BY <1>1, <1>5 DEF PowerUp, disk, session
<1>6. CASE ReadDeviceInfo
  BY <1>1, <1>6 DEF ReadDeviceInfo, disk, session, Defaults
<1>7. ASSUME NEW ok \in BOOLEAN, WriteDefaults(ok) PROVE ChangeInv'
  BY <1>1, <1>7 DEF WriteDefaults, Stores, session
<1>8. ASSUME NEW key \in Keys, ReadKeysAndReason(key) PROVE ChangeInv'
  BY <1>1, <1>8 DEF ReadKeysAndReason, disk, session
<1>k. CASE ReadKeysFails
  BY <1>1, <1>k DEF ReadKeysFails, disk, session
<1>9. ASSUME NEW ok \in BOOLEAN, ReasonEnforcing(ok) PROVE ChangeInv'
  <2>1. dev'.magic
    BY <1>1, <1>9, OtherFieldKeeps DEF ReasonEnforcing
  <2>2. stored'.magic /\ pc' \in {"mode", "exit"} /\ menu' = NoChange
    BY <1>9, <2>1 DEF ReasonEnforcing, Stores, session
  <2> QED
    BY <1>1, <2>1, <2>2
<1>10. ASSUME NEW ok \in BOOLEAN, ReasonKeysClear(ok) PROVE ChangeInv'
  BY <1>1, <1>10 DEF ReasonKeysClear, session
<1>11. CASE ReasonOther
  BY <1>1, <1>11 DEF ReasonOther, disk, session
<1>12. CASE StartFastboot
  BY <1>1, <1>12 DEF StartFastboot, disk
<1>13. ASSUME NEW ok \in BOOLEAN, StartSystem(ok) PROVE ChangeInv'
  BY <1>1, <1>13 DEF StartSystem, disk, session
<1>14. CASE LoadFails \/ TurnOffAndOn \/ CmdReboot \/ CmdRebootBootloader
            \/ Restart \/ RebootToRecovery \/ KeyTurnsOff
  BY <1>3, <1>14 DEF LoadFails, TurnOffAndOn, CmdReboot, CmdRebootBootloader,
     Restart, RebootToRecovery, KeyTurnsOff, Reasons, Leaves, disk
<1>15. ASSUME NEW ok \in BOOLEAN, Fastboot(ok) PROVE ChangeInv'
  <2>1. /\ dev'.magic = dev.magic /\ \A c \in LockBits : dev'[c] = dev[c]
        /\ InFastboot /\ Answered /\ Stores(ok, dev')
    BY <1>1, <1>15, FastbootWrites
  <2>2. menu # NoChange => menu.type \in LockBits
    BY <1>1 DEF TypeOK, Change
  <2> QED
    BY <1>1, <2>1, <2>2 DEF InFastboot, Answered, Stores, session
<1>16. ASSUME NEW b \in BOOLEAN, CmdFlashFrp(b) PROVE ChangeInv'
  BY <1>1, <1>16 DEF CmdFlashFrp, InFastboot, session
<1>17. ASSUME NEW c \in Change, SetDeviceUnlockMenu(c) PROVE ChangeInv'
  BY <1>1, <1>17 DEF SetDeviceUnlockMenu, MayChange, InFastboot, disk
<1>18. ASSUME NEW c \in Change, SetDeviceUnlockNow(c) PROVE ChangeInv'
  BY <1>1, <1>18 DEF SetDeviceUnlockNow, MayChange, InFastboot, disk
<1>19. CASE CmdContinue
  BY <1>1, <1>19 DEF CmdContinue, InFastboot, disk
<1>20. ASSUME NEW ok \in BOOLEAN, ResetDeviceUnlockStatus(ok) PROVE ChangeInv'
  BY <1>1, <1>20 DEF ResetDeviceUnlockStatus, InFastboot, disk
<1>21. ASSUME pc \in Changing PROVE change \in Change /\ change.type \in LockBits
  BY <1>1, <1>21 DEF IInv, TypeOK, NoChange, LockBits, Change
<1>22. ASSUME NEW ok \in BOOLEAN, SetValue(ok) PROVE ChangeInv'
  <2>1. change \in Change /\ change.type \in LockBits /\ change.state \in BOOLEAN
    BY <1>21, <1>22 DEF SetValue, Changing, Change
  <2>2. dev'.magic /\ dev'[change.type] = change.state
    BY <1>1, <1>22, <2>1, LockBitKeeps DEF SetValue, SetsBit
  <2>3. stored' \in {stored, dev'} /\ stored'.magic
    BY <1>22, <2>2 DEF SetValue, SetsBit, Stores
  <2>4. ok /\ ~avbLe => stored' = dev'
    BY <1>22 DEF SetValue, SetsBit, Stores
  <2>5. menu' = menu /\ pc' \in {"reset", "leave", "fastboot"} /\ avbLe' = avbLe
        /\ (ok => pc' = "reset" /\ change' = change)
        /\ (~ok /\ ~avbLe => pc' = "leave")
    BY <1>22 DEF SetValue, Ends
  <2> QED
    BY <1>1, <2>2, <2>3, <2>4, <2>5
<1>23. ASSUME NEW ok \in BOOLEAN, ResetState(ok) PROVE ChangeInv'
  BY <1>1, <1>23 DEF ResetState, session
<1>24. ASSUME NEW ok \in BOOLEAN, UndoValue(ok) PROVE ChangeInv'
  <2>1. Opposite(change) \in Change /\ Opposite(change).type \in LockBits
        /\ Opposite(change).state \in BOOLEAN
    BY <1>21, <1>24, OppositeChange DEF UndoValue, Changing, Change
  <2>2. dev'.magic
    BY <1>1, <1>24, <2>1, LockBitKeeps DEF UndoValue, SetsBit
  <2>3. stored'.magic
    BY <1>24, <2>2 DEF UndoValue, SetsBit, Stores
  <2>4. avbLe' = avbLe /\ pc' \in {"leave", "fastboot"} /\ (~avbLe => pc' = "leave")
    BY <1>24 DEF UndoValue, Ends
  <2> QED
    BY <1>1, <2>2, <2>3, <2>4
<1>25. ASSUME NEW ok \in BOOLEAN, WriteWipe(ok) PROVE ChangeInv'
  BY <1>1, <1>25 DEF WriteWipe, Ends
<1>26. CASE OsRuns
  BY <1>1, <1>26 DEF OsRuns, session
<1>27. ASSUME NEW r \in Reasons, OsRestarts(r) PROVE ChangeInv'
  BY <1>3, <1>27 DEF OsRestarts
<1>28. CASE RecoveryRuns
  BY <1>3, <1>28 DEF RecoveryRuns, Reasons
<1>29. ASSUME NEW ok \in BOOLEAN, Loader(ok) PROVE ChangeInv'
  BY <1>29, <1>7, <1>9, <1>10, <1>13 DEF Loader
<1>30. ASSUME NEW ok \in BOOLEAN, SetDeviceUnlockValue(ok) PROVE ChangeInv'
  BY <1>30, <1>20, <1>22, <1>23, <1>24, <1>25 DEF SetDeviceUnlockValue
<1> QED
  BY <1>2, <1>4, <1>5, <1>6, <1>8, <1>k, <1>11, <1>12, <1>14, <1>15, <1>16, <1>17,
     <1>18, <1>19, <1>26, <1>27, <1>28, <1>29, <1>30 DEF Next

\* Once the change is stored, Before is the bit as it was ...
LEMMA SetBefore ==
  ASSUME dev \in DeviceInfo, stored \in DeviceInfo, Lock(dev) = Lock(stored),
         change.type \in LockBits, change.state \in BOOLEAN,
         dev[change.type] # change.state, change' = change,
         stored' = [dev EXCEPT ![change.type] = change.state]
  PROVE  Before' = stored.unlocked
<1>1. dev.unlocked = stored.unlocked /\ dev.unlocked \in BOOLEAN
  BY DEF Lock, LockBits, DeviceInfo
<1>2. CASE change.type = "unlocked"
  BY <1>1, <1>2 DEF Before
<1>3. CASE change.type # "unlocked"
  BY <1>1, <1>3, LockBitKeeps DEF Before
<1> QED
  BY <1>2, <1>3

\* ... and it is the bit again once the change is taken back.
LEMMA UndoBefore ==
  ASSUME dev \in DeviceInfo, Lock(dev) = Lock(stored),
         change.type \in LockBits, change.state \in BOOLEAN,
         stored' = [dev EXCEPT ![change.type] = ~change.state]
  PROVE  stored'.unlocked = Before
<1>1. CASE change.type = "unlocked"
  <2>1. stored'[change.type] = ~change.state
    <3>1. \A b \in BOOLEAN : [dev EXCEPT ![change.type] = b][change.type] = b
      BY LockBitKeeps
    <3>2. (~change.state) \in BOOLEAN
      OBVIOUS
    <3> QED
      BY <3>1, <3>2, Zenon
  <2> QED
    BY <1>1, <2>1 DEF Before
<1>2. CASE change.type # "unlocked"
  <2>1. dev.unlocked = stored.unlocked
    BY DEF Lock, LockBits
  <2> QED
    BY <1>2, <2>1, LockBitKeeps DEF Before
<1> QED
  BY <1>1, <1>2

LEMMA KeysInvInit == Init => KeysInv
<1> SUFFICES ASSUME Init
             PROVE  KeysAgree
  BY ChangeInvInit DEF KeysInv
<1>1. pc = "off" /\ keys = "none"
  BY Zenon DEF Init
<1> QED
  BY <1>1 DEF KeysAgree

LEMMA KeysInvNext == KeysInv /\ [Next]_vars => KeysInv'
<1> SUFFICES ASSUME KeysInv, [Next]_vars, ~avbLe', faults' <= 1, cuts' = 0
             PROVE  KeysAgree'
  BY ChangeInvNext DEF KeysInv, KeysAgree
<1>1. /\ IInv /\ IInv' /\ TypeOK /\ dev \in DeviceInfo /\ stored \in DeviceInfo
      /\ faults \in Nat /\ cuts \in Nat /\ faults' \in Nat
  BY InvNext, DeviceAssumption DEF KeysInv, ChangeInv, IInv, TypeOK
<1> USE DEF KeysInv
\* Steps that leave the lock state and the keys alone, outside of a change
<1>2. ASSUME UNCHANGED <<avbLe, keys>>, cuts' = cuts, faults' \in {faults, faults + 1},
             stored'.unlocked = stored.unlocked,
             pc \notin {"reset", "undo"}, pc' \notin {"reset", "undo"}
      PROVE  KeysAgree'
  BY <1>1, <1>2 DEF KeysAgree
<1>3. ASSUME NEW r \in Reasons, Reset(r), UNCHANGED <<avbLe, stored, keys, faults, cuts>>,
             pc \notin {"reset", "undo"}
      PROVE  KeysAgree'
  BY <1>2, <1>3 DEF Reset
<1>4. CASE UNCHANGED vars
  BY <1>4 DEF vars, KeysAgree, Before
<1>5. CASE PowerCut
  BY <1>1, <1>5 DEF PowerCut
<1>6. CASE PowerUp
  BY <1>2, <1>6 DEF PowerUp, disk
<1>7. CASE ReadDeviceInfo
  BY <1>2, <1>7 DEF ReadDeviceInfo, disk, Fault
<1>8. ASSUME NEW ok \in BOOLEAN, WriteDefaults(ok) PROVE KeysAgree'
  <2>1. keys' = "none" /\ pc' \in {"keys", "exit"}
    BY <1>1, <1>8 DEF WriteDefaults, ChangeInv, IInv
  <2> QED
    BY <2>1 DEF KeysAgree
<1>9. ASSUME NEW key \in Keys, ReadKeysAndReason(key) PROVE KeysAgree'
  BY <1>2, <1>9 DEF ReadKeysAndReason, disk
<1>k. CASE ReadKeysFails
  BY <1>2, <1>k DEF ReadKeysFails, disk, Fault
<1>10. ASSUME NEW ok \in BOOLEAN, ReasonEnforcing(ok) PROVE KeysAgree'
  <2>1. dev'.unlocked = dev.unlocked /\ dev.unlocked = stored.unlocked
    BY <1>1, <1>10, OtherFieldKeeps DEF ReasonEnforcing, IInv, InStep, Lock, LockBits
  <2> QED
    BY <1>2, <1>10, <2>1 DEF ReasonEnforcing, Stores, Fault
<1>11. ASSUME NEW ok \in BOOLEAN, ReasonKeysClear(ok) PROVE KeysAgree'
  <2>1. CASE keys' = keys
    BY <1>2, <1>11, <2>1 DEF ReasonKeysClear, Resets, Fault
  <2>2. CASE keys' = "none"
    BY <1>11, <2>2 DEF ReasonKeysClear, KeysAgree
  <2> QED
    BY <1>11, <2>1, <2>2 DEF ReasonKeysClear, Resets
<1>12. CASE ReasonOther \/ StartFastboot
  BY <1>2, <1>12 DEF ReasonOther, StartFastboot, disk
<1>13. ASSUME NEW ok \in BOOLEAN, StartSystem(ok) PROVE KeysAgree'
  BY <1>2, <1>13 DEF StartSystem, disk, Fault
<1>14. CASE LoadFails \/ TurnOffAndOn \/ CmdReboot \/ CmdRebootBootloader
            \/ Restart \/ RebootToRecovery \/ KeyTurnsOff
  BY <1>3, <1>14 DEF LoadFails, TurnOffAndOn, CmdReboot, CmdRebootBootloader,
     Restart, RebootToRecovery, KeyTurnsOff, Reasons, Leaves, disk, InFastboot
<1>15. ASSUME NEW ok \in BOOLEAN, Fastboot(ok) PROVE KeysAgree'
  <2>1. pc = "fastboot" /\ avbLe' = avbLe
    BY <1>15 DEF Fastboot, CmdOemChargerScreen, CmdUserKey, CmdFlashSystem, InFastboot,
                 Answered
  <2>2. Lock(dev) = Lock(stored)
    BY <1>1, <2>1 DEF IInv, InStep
  <2>3. /\ stored'.unlocked = stored.unlocked
        /\ Answered /\ faults' \in {faults, faults + 1}
    BY <1>1, <1>15, <2>1, <2>2, FastbootKeeps DEF LockBits
  <2> QED
    BY <1>2, <2>1, <2>3 DEF Answered
<1>16. ASSUME NEW b \in BOOLEAN, CmdFlashFrp(b) PROVE KeysAgree'
  BY <1>2, <1>16 DEF CmdFlashFrp, InFastboot
<1>17. ASSUME NEW c \in Change, SetDeviceUnlockMenu(c) \/ SetDeviceUnlockNow(c)
       PROVE  KeysAgree'
  BY <1>2, <1>17 DEF SetDeviceUnlockMenu, SetDeviceUnlockNow, MayChange, InFastboot, disk
<1>18. CASE CmdContinue
  BY <1>2, <1>18 DEF CmdContinue, InFastboot, disk
<1>19. ASSUME NEW ok \in BOOLEAN, ResetDeviceUnlockStatus(ok) PROVE KeysAgree'
  BY <1>2, <1>19 DEF ResetDeviceUnlockStatus, InFastboot, disk, Fault
<1>20. ASSUME pc \in Changing
       PROVE  /\ change.type \in LockBits /\ change.state \in BOOLEAN
              /\ Opposite(change).type = change.type
              /\ Opposite(change).state = ~change.state
  <2>1. change \in Change
    BY <1>1, <1>20 DEF IInv, TypeOK, NoChange, LockBits
  <2> QED
    BY <2>1 DEF Change, Opposite
<1>21. ASSUME NEW ok \in BOOLEAN, SetValue(ok) PROVE KeysAgree'
  <2>1. /\ pc = "setValue" /\ UNCHANGED <<avbLe, keys, cuts>> /\ ~avbLe
        /\ faults' \in {faults, faults + 1}
    BY <1>21 DEF SetValue, SetsBit, Stores, Fault
  <2>2. /\ change.type \in LockBits /\ change.state \in BOOLEAN
        /\ dev[change.type] # change.state /\ Lock(dev) = Lock(stored)
    BY <1>1, <1>20, <2>1 DEF Changing, ChangeInv, IInv, InStep
  <2>3. dev' = [dev EXCEPT ![change.type] = change.state]
    BY <1>21 DEF SetValue, SetsBit
  <2>4. CASE ~ok
    <3>1. stored' = stored /\ pc' = "leave"
      BY <1>21, <2>1, <2>2, <2>4 DEF SetValue, SetsBit, Stores, Ends
    <3> QED
      BY <1>2, <2>1, <3>1
  <2>5. CASE ok
    <3>1. stored' = dev' /\ pc' = "reset" /\ change' = change
      BY <1>21, <2>2, <2>5 DEF SetValue, SetsBit, Stores
    <3>2. Before' = stored.unlocked
      BY <1>1, <2>2, <2>3, <3>1, SetBefore
    <3> QED
      BY <1>1, <2>1, <3>1, <3>2 DEF KeysAgree
  <2> QED
    BY <2>4, <2>5
<1>22. ASSUME NEW ok \in BOOLEAN, ResetState(ok) PROVE KeysAgree'
  <2>1. /\ pc = "reset" /\ ~avbLe /\ UNCHANGED <<stored, change, cuts>>
        /\ pc' = (IF ok THEN "wipe" ELSE "undo")
        /\ IF ok THEN keys' = "none" ELSE keys' = keys /\ faults' = faults + 1
    BY <1>22 DEF ResetState, Resets, Fault, session
  <2>2. CASE ok
    BY <2>1, <2>2 DEF KeysAgree
  <2>3. CASE ~ok
    <3>1. faults = 0 /\ faults' = 1
      BY <1>1, <2>1, <2>3
    <3>2. keys \in {"none", Name(Before)}
      BY <2>1, <3>1 DEF KeysAgree
    <3> QED
      BY <2>1, <2>3, <3>1, <3>2 DEF KeysAgree, Before
  <2> QED
    BY <2>2, <2>3
<1>23. ASSUME NEW ok \in BOOLEAN, UndoValue(ok) PROVE KeysAgree'
  <2>1. /\ pc = "undo" /\ ~avbLe /\ UNCHANGED <<keys, cuts>>
        /\ SetsBit(Opposite(change), ok) /\ pc' = "leave"
    BY <1>23 DEF UndoValue, Ends
  <2>2. /\ change.type \in LockBits /\ change.state \in BOOLEAN
        /\ Opposite(change).type = change.type
        /\ Opposite(change).state = ~change.state
        /\ stored[change.type] = change.state /\ Lock(dev) = Lock(stored)
    BY <1>1, <1>20, <2>1 DEF Changing, ChangeInv, IInv, InStep
  <2>3. dev[change.type] = stored[change.type] /\ dev.unlocked = stored.unlocked
    BY <2>2 DEF Lock, LockBits
  <2>4. faults' \in {faults, faults + 1} /\ (~ok => faults' = faults + 1)
    BY <2>1, <2>2, <2>3 DEF SetsBit, Stores, Fault
  <2>5. faults = 1 /\ ok /\ keys \in {"none", Name(Before)}
    BY <1>1, <2>1, <2>4 DEF KeysAgree
  <2>6. stored' = [dev EXCEPT ![change.type] = ~change.state]
    BY <2>1, <2>2, <2>3, <2>5 DEF SetsBit, Stores
  <2>7. stored'.unlocked = Before
    BY <1>1, <2>2, <2>6, UndoBefore
  <2> QED
    BY <2>1, <2>5, <2>7 DEF KeysAgree
<1>24. ASSUME NEW ok \in BOOLEAN, WriteWipe(ok) PROVE KeysAgree'
  BY <1>2, <1>24 DEF WriteWipe, Ends, Fault
<1>25. CASE OsRuns
  <2>1. pc' = "os" /\ keys' = Name(dev.unlocked) /\ stored' = stored /\ ~avbLe /\ pc = "os"
    BY <1>25 DEF OsRuns
  <2>2. dev.unlocked = stored.unlocked
    BY <1>1, <2>1 DEF IInv, InStep, Lock, LockBits
  <2> QED
    BY <2>1, <2>2 DEF KeysAgree
<1>26. ASSUME NEW r \in Reasons, OsRestarts(r) PROVE KeysAgree'
  BY <1>3, <1>26 DEF OsRestarts
<1>27. CASE RecoveryRuns
  BY <1>3, <1>27 DEF RecoveryRuns, Reasons
<1>28. ASSUME NEW ok \in BOOLEAN, Loader(ok) PROVE KeysAgree'
  BY <1>28, <1>8, <1>10, <1>11, <1>13 DEF Loader
<1>29. ASSUME NEW ok \in BOOLEAN, SetDeviceUnlockValue(ok) PROVE KeysAgree'
  BY <1>29, <1>19, <1>21, <1>22, <1>23, <1>24 DEF SetDeviceUnlockValue
<1> QED
  BY <1>4, <1>5, <1>6, <1>7, <1>9, <1>k, <1>12, <1>14, <1>15, <1>16, <1>17,
     <1>18, <1>25, <1>26, <1>27, <1>28, <1>29 DEF Next

\* On a device with a menu, while at most one request fails and the power stays,
\* a system is started only with keys of its own lock state.
THEOREM KeysFollow == Spec => []KeysFollowLock
<1>1. Spec => []KeysInv
  BY KeysInvInit, ChangeInvNext, KeysInvNext, PTL DEF Spec
<1>2. KeysInv => KeysFollowLock
  BY DEF KeysInv, KeysAgree, KeysFollowLock, ChangeInv, IInv, InStep, Lock, LockBits
<1> QED
  BY <1>1, <1>2, PTL

-----------------------------------------------------------------------------
(* The user's data                                                         *)

\* The data was written under this value of the bit, or not at all, or the
\* message to wipe it is in misc.
DataUnder(unlocked) == data \in {"none", Name(unlocked)} \/ misc = "wipe"

\* Unless a change has been left without its message: outside of a change the
\* data fits the stored record, inside it the record before the change, and
\* nothing is asked of it between the reset of the key store and the message.
DataAgree ==
  (~avbLe /\ ~unasked) =>
    /\ pc \notin {"reset", "undo", "wipe"} => DataUnder(stored.unlocked)
    /\ pc \in {"reset", "undo"} => DataUnder(Before)

DataInv == ChangeInv /\ DataAgree

LEMMA DataInvInit == Init => DataInv
<1> SUFFICES ASSUME Init
             PROVE  DataAgree
  BY ChangeInvInit DEF DataInv
<1>1. pc = "off" /\ data = "none"
  BY Zenon DEF Init
<1> QED
  BY <1>1 DEF DataAgree, DataUnder

LEMMA DataInvNext == DataInv /\ [Next]_vars => DataInv'
<1> SUFFICES ASSUME DataInv, [Next]_vars, ~avbLe', ~unasked'
             PROVE  DataAgree'
  BY ChangeInvNext DEF DataInv, DataAgree
<1>1. /\ IInv /\ IInv' /\ TypeOK /\ dev \in DeviceInfo /\ stored \in DeviceInfo
  BY InvNext DEF DataInv, ChangeInv, IInv, TypeOK
<1> USE DEF DataInv
\* Steps that leave the lock state, the data and the message alone, outside of
\* a change
<1>2. ASSUME UNCHANGED <<avbLe, data, misc>>, ~unasked,
             stored'.unlocked = stored.unlocked,
             pc \notin {"reset", "undo", "wipe"}, pc' \notin {"reset", "undo", "wipe"}
      PROVE  DataAgree'
  BY <1>2 DEF DataAgree, DataUnder
<1>3. ASSUME NEW r \in Reasons, Reset(r), UNCHANGED <<avbLe, stored, data, misc>>,
             ~unasked, pc \notin {"reset", "undo", "wipe"}
      PROVE  DataAgree'
  BY <1>2, <1>3 DEF Reset
<1>4. CASE UNCHANGED vars
  BY <1>4 DEF vars, DataAgree, DataUnder, Before
<1>5. CASE PowerCut
  BY <1>3, <1>5 DEF PowerCut, Reasons
<1>6. CASE PowerUp
  BY <1>2, <1>6 DEF PowerUp, disk
<1>7. CASE ReadDeviceInfo
  BY <1>2, <1>7 DEF ReadDeviceInfo, disk
<1>8. ASSUME NEW ok \in BOOLEAN, WriteDefaults(ok) PROVE DataAgree'
  <2>1. data' = "none" /\ pc' \in {"keys", "exit"}
    BY <1>1, <1>8 DEF WriteDefaults, ChangeInv, IInv
  <2> QED
    BY <2>1 DEF DataAgree, DataUnder
<1>9. ASSUME NEW key \in Keys, ReadKeysAndReason(key) PROVE DataAgree'
  BY <1>2, <1>9 DEF ReadKeysAndReason, disk
<1>k. CASE ReadKeysFails
  BY <1>2, <1>k DEF ReadKeysFails, disk
<1>10. ASSUME NEW ok \in BOOLEAN, ReasonEnforcing(ok) PROVE DataAgree'
  <2>1. dev'.unlocked = dev.unlocked /\ dev.unlocked = stored.unlocked
    BY <1>1, <1>10, OtherFieldKeeps DEF ReasonEnforcing, IInv, InStep, Lock, LockBits
  <2> QED
    BY <1>2, <1>10, <2>1 DEF ReasonEnforcing, Stores
<1>11. ASSUME NEW ok \in BOOLEAN, ReasonKeysClear(ok) PROVE DataAgree'
  BY <1>2, <1>11 DEF ReasonKeysClear
<1>12. CASE ReasonOther \/ StartFastboot
  BY <1>2, <1>12 DEF ReasonOther, StartFastboot, disk
<1>13. ASSUME NEW ok \in BOOLEAN, StartSystem(ok) PROVE DataAgree'
  BY <1>2, <1>13 DEF StartSystem, disk
<1>14. CASE LoadFails \/ TurnOffAndOn \/ CmdReboot \/ CmdRebootBootloader
            \/ Restart \/ RebootToRecovery \/ KeyTurnsOff
  BY <1>3, <1>14 DEF LoadFails, TurnOffAndOn, CmdReboot, CmdRebootBootloader,
     Restart, RebootToRecovery, KeyTurnsOff, Reasons, Leaves, disk, InFastboot
<1>15. ASSUME NEW ok \in BOOLEAN, Fastboot(ok) PROVE DataAgree'
  <2>1. pc = "fastboot" /\ avbLe' = avbLe
    BY <1>15 DEF Fastboot, CmdOemChargerScreen, CmdUserKey, CmdFlashSystem, InFastboot,
                 Answered
  <2>2. Lock(dev) = Lock(stored)
    BY <1>1, <2>1 DEF IInv, InStep
  <2>3. stored'.unlocked = stored.unlocked /\ Answered
    BY <1>1, <1>15, <2>1, <2>2, FastbootKeeps DEF LockBits
  <2> QED
    BY <1>2, <2>1, <2>3 DEF Answered
<1>16. ASSUME NEW b \in BOOLEAN, CmdFlashFrp(b) PROVE DataAgree'
  BY <1>2, <1>16 DEF CmdFlashFrp, InFastboot
<1>17. ASSUME NEW c \in Change, SetDeviceUnlockMenu(c) \/ SetDeviceUnlockNow(c)
       PROVE  DataAgree'
  BY <1>2, <1>17 DEF SetDeviceUnlockMenu, SetDeviceUnlockNow, MayChange, InFastboot, disk
<1>18. CASE CmdContinue
  BY <1>2, <1>18 DEF CmdContinue, InFastboot, disk
<1>19. ASSUME NEW ok \in BOOLEAN, ResetDeviceUnlockStatus(ok) PROVE DataAgree'
  BY <1>2, <1>19 DEF ResetDeviceUnlockStatus, InFastboot, disk
<1>20. ASSUME pc \in Changing
       PROVE  /\ change.type \in LockBits /\ change.state \in BOOLEAN
              /\ Opposite(change).type = change.type
              /\ Opposite(change).state = ~change.state
  <2>1. change \in Change
    BY <1>1, <1>20 DEF IInv, TypeOK, NoChange, LockBits
  <2> QED
    BY <2>1 DEF Change, Opposite
<1>21. ASSUME NEW ok \in BOOLEAN, SetValue(ok) PROVE DataAgree'
  <2>1. pc = "setValue" /\ UNCHANGED <<avbLe, data, misc, unasked>> /\ ~avbLe
    BY <1>21 DEF SetValue
  <2>2. /\ change.type \in LockBits /\ change.state \in BOOLEAN
        /\ dev[change.type] # change.state /\ Lock(dev) = Lock(stored)
    BY <1>1, <1>20, <2>1 DEF Changing, ChangeInv, IInv, InStep
  <2>3. CASE ~ok
    <3>1. stored' = stored /\ pc' = "leave"
      BY <1>21, <2>1, <2>2, <2>3 DEF SetValue, SetsBit, Stores, Ends
    <3> QED
      BY <1>2, <2>1, <3>1
  <2>4. CASE ok
    <3>1. /\ stored' = dev' /\ pc' = "reset" /\ change' = change
          /\ dev' = [dev EXCEPT ![change.type] = change.state]
      BY <1>21, <2>2, <2>4 DEF SetValue, SetsBit, Stores
    <3>2. Before' = stored.unlocked
      BY <1>1, <2>2, <3>1, SetBefore
    <3> QED
      BY <2>1, <3>1, <3>2 DEF DataAgree, DataUnder
  <2> QED
    BY <2>3, <2>4
<1>22. ASSUME NEW ok \in BOOLEAN, ResetState(ok) PROVE DataAgree'
  BY <1>22 DEF ResetState, session, DataAgree, DataUnder, Before
<1>23. ASSUME NEW ok \in BOOLEAN, UndoValue(ok) PROVE DataAgree'
  <2>1. /\ pc = "undo" /\ ~avbLe /\ UNCHANGED <<data, misc>> /\ ok /\ ~unasked
        /\ SetsBit(Opposite(change), ok) /\ pc' = "leave"
    BY <1>23 DEF UndoValue, Ends
  <2>2. /\ change.type \in LockBits /\ change.state \in BOOLEAN
        /\ Opposite(change).type = change.type
        /\ Opposite(change).state = ~change.state
        /\ stored[change.type] = change.state /\ Lock(dev) = Lock(stored)
    BY <1>1, <1>20, <2>1 DEF Changing, ChangeInv, IInv, InStep
  <2>3. stored' = [dev EXCEPT ![change.type] = ~change.state]
    <3>1. dev[change.type] = stored[change.type]
      BY <2>2 DEF Lock
    <3> QED
      BY <2>1, <2>2, <3>1 DEF SetsBit, Stores
  <2>4. stored'.unlocked = Before
    BY <1>1, <2>2, <2>3, UndoBefore
  <2> QED
    BY <2>1, <2>4 DEF DataAgree, DataUnder
<1>24. ASSUME NEW ok \in BOOLEAN, WriteWipe(ok) PROVE DataAgree'
  <2>1. misc' = "wipe" /\ pc' = "leave"
    BY <1>24 DEF WriteWipe, Ends
  <2> QED
    BY <2>1 DEF DataAgree, DataUnder
<1>25. CASE OsRuns
  <2>1. pc' = "os" /\ data' = Name(dev.unlocked) /\ stored' = stored /\ ~avbLe /\ pc = "os"
    BY <1>25 DEF OsRuns
  <2>2. dev.unlocked = stored.unlocked
    BY <1>1, <2>1 DEF IInv, InStep, Lock, LockBits
  <2> QED
    BY <2>1, <2>2 DEF DataAgree, DataUnder
<1>26. ASSUME NEW r \in Reasons, OsRestarts(r) PROVE DataAgree'
  <2>1. /\ pc = "os" /\ pc' = "off" /\ UNCHANGED <<avbLe, stored, data>> /\ ~unasked
        /\ misc' = misc \/ misc # "wipe"
    BY <1>26 DEF OsRestarts, Reset
  <2> QED
    BY <2>1 DEF DataAgree, DataUnder
<1>27. CASE RecoveryRuns
  <2>1. /\ pc = "recovery" /\ pc' = "off" /\ UNCHANGED <<avbLe, stored>>
        /\ IF misc = "wipe" THEN data' = "none" ELSE data' = data /\ ~unasked
    BY <1>27 DEF RecoveryRuns, Reset
  <2> QED
    BY <2>1 DEF DataAgree, DataUnder
<1>28. ASSUME NEW ok \in BOOLEAN, Loader(ok) PROVE DataAgree'
  BY <1>28, <1>8, <1>10, <1>11, <1>13 DEF Loader
<1>29. ASSUME NEW ok \in BOOLEAN, SetDeviceUnlockValue(ok) PROVE DataAgree'
  BY <1>29, <1>19, <1>21, <1>22, <1>23, <1>24 DEF SetDeviceUnlockValue
<1> QED
  BY <1>4, <1>5, <1>6, <1>7, <1>9, <1>k, <1>12, <1>14, <1>15, <1>16, <1>17,
     <1>18, <1>25, <1>26, <1>27, <1>28, <1>29 DEF Next

\* On a device with a menu, whatever fails, whenever the power goes and whatever
\* keys are held: a system that finds data of another lock state starts over
\* the message that asks recovery to wipe it, unless a change stopped before
\* its message or a system wrote over it.
THEOREM DataFollow == Spec => []DataFollowsLock
<1>1. Spec => []DataInv
  BY DataInvInit, DataInvNext, PTL DEF Spec
<1>2. DataInv => DataFollowsLock
  BY DEF DataInv, DataAgree, DataUnder, DataFollowsLock, ChangeInv, IInv, InStep,
         Lock, LockBits
<1> QED
  BY <1>1, <1>2, PTL

-----------------------------------------------------------------------------
(* What the host is told                                                   *)

\* Until a request fails the record in RAM is the stored one on every device,
\* and on AVB_LE the answer is given when the change is complete.
AnswerAgree ==
  faults = 0 =>
    /\ pc \in InStep => Lock(dev) = Lock(stored)
    /\ pc = "fastboot" => told = Lock(stored)
    /\ avbLe /\ pc = "setValue" => told = Lock(stored)
    /\ avbLe /\ pc \in {"reset", "wipe"} =>
         Lock(stored) = [told EXCEPT ![change.type] = change.state]
    /\ pc # "undo"

AnswerInv == IInv /\ AnswerAgree

LEMMA AnswerInvInit == Init => AnswerInv
<1> SUFFICES ASSUME Init
             PROVE  AnswerAgree
  BY InvInit DEF AnswerInv
<1>1. pc = "off"
  BY Zenon DEF Init
<1> QED
  BY <1>1 DEF AnswerAgree, InStep

LEMMA AnswerInvNext == AnswerInv /\ [Next]_vars => AnswerInv'
<1> SUFFICES ASSUME AnswerInv, [Next]_vars, faults' = 0
             PROVE  AnswerAgree'
  BY InvNext DEF AnswerInv, AnswerAgree
<1>1. /\ IInv /\ TypeOK /\ dev \in DeviceInfo /\ stored \in DeviceInfo
      /\ faults \in Nat
  BY DeviceAssumption DEF AnswerInv, IInv, TypeOK
<1> USE DEF AnswerInv
<1>2. ~Fault
  BY <1>1 DEF Fault
\* Steps outside of fastboot that keep the lock bits of both records
<1>3. ASSUME Lock(dev') = Lock(stored'),
             pc' \in {"keys", "reason", "mode", "recovery", "os", "exit"}
      PROVE  AnswerAgree'
  BY <1>3 DEF AnswerAgree
\* Steps inside of fastboot
<1>4. ASSUME Lock(dev') = Lock(stored'), Lock(stored') = Lock(stored),
             told' = told, faults' = faults, avbLe' = avbLe, pc = "fastboot",
             pc' \in {"fastboot", "setValue", "os"}
      PROVE  AnswerAgree'
  BY <1>4 DEF AnswerAgree
<1>5. ASSUME NEW r \in Reasons, Reset(r)
      PROVE  AnswerAgree'
  BY <1>5 DEF Reset, AnswerAgree, InStep
<1>6. ASSUME UNCHANGED vars PROVE AnswerAgree'
  BY <1>6 DEF vars, AnswerAgree, Lock
<1>7. CASE PowerCut \/ LoadFails \/ TurnOffAndOn \/ CmdReboot \/ CmdRebootBootloader
           \/ Restart \/ RebootToRecovery \/ KeyTurnsOff \/ RecoveryRuns
  BY <1>5, <1>7 DEF PowerCut, KeyTurnsOff, LoadFails, TurnOffAndOn, CmdReboot, CmdRebootBootloader,
     Restart, RebootToRecovery, RecoveryRuns, Reasons, Leaves
<1>8. CASE PowerUp
  BY <1>8 DEF PowerUp, AnswerAgree, InStep
<1>9. CASE ReadDeviceInfo
  <2>1. pc' \in {"keys", "default"} /\ stored' = stored
        /\ (pc' = "keys" => dev' = stored)
    BY <1>2, <1>9 DEF ReadDeviceInfo, disk
  <2> QED
    BY <1>3, <2>1 DEF AnswerAgree, InStep
<1>10. ASSUME NEW ok \in BOOLEAN, WriteDefaults(ok) PROVE AnswerAgree'
  <2>1. pc' = "keys" /\ stored' = dev /\ dev' = dev
    BY <1>2, <1>10 DEF WriteDefaults, Stores
  <2> QED
    BY <1>3, <2>1
<1>11. ASSUME UNCHANGED <<dev, stored, faults>>, pc \in InStep,
              pc' \in {"reason", "mode", "recovery", "os", "exit"}
       PROVE  AnswerAgree'
  BY <1>3, <1>11 DEF AnswerAgree, Lock
<1>12. ASSUME NEW key \in Keys, ReadKeysAndReason(key) PROVE AnswerAgree'
  BY <1>11, <1>12 DEF ReadKeysAndReason, disk, InStep
<1>k. CASE ReadKeysFails
  BY <1>2, <1>k DEF ReadKeysFails
<1>13. ASSUME NEW ok \in BOOLEAN, ReasonEnforcing(ok) PROVE AnswerAgree'
  <2>1. Lock(dev) = Lock(stored)
    BY <1>2, <1>13 DEF ReasonEnforcing, Stores, AnswerAgree, InStep
  <2>2. Lock(dev') = Lock(dev)
    BY <1>1, <1>13, OtherField DEF ReasonEnforcing
  <2>3. stored' \in {stored, dev'} /\ pc' \in {"mode", "exit"}
    BY <1>13 DEF ReasonEnforcing, Stores
  <2> QED
    BY <1>3, <2>1, <2>2, <2>3
<1>14. ASSUME NEW ok \in BOOLEAN, ReasonKeysClear(ok) PROVE AnswerAgree'
  BY <1>2, <1>11, <1>14 DEF ReasonKeysClear, Resets, InStep
<1>15. CASE ReasonOther
  BY <1>11, <1>15 DEF ReasonOther, disk, InStep
<1>16. CASE StartFastboot
  <2>1. /\ pc = "mode" /\ pc' = "fastboot" /\ told' = Lock(dev)
        /\ UNCHANGED <<dev, stored, faults>>
    BY <1>16 DEF StartFastboot, disk
  <2>2. Lock(dev) = Lock(stored)
    BY <2>1 DEF AnswerAgree, InStep
  <2> QED
    BY <2>1, <2>2 DEF AnswerAgree, Lock
<1>17. ASSUME NEW ok \in BOOLEAN, StartSystem(ok) PROVE AnswerAgree'
  <2>1. pc = "mode" /\ pc' \in {"recovery", "os"} /\ UNCHANGED <<dev, stored, faults>>
    BY <1>2, <1>17 DEF StartSystem, disk
  <2> QED
    BY <1>11, <2>1 DEF InStep
<1>18. ASSUME NEW ok \in BOOLEAN, Fastboot(ok) PROVE AnswerAgree'
  <2>1. pc = "fastboot"
    BY <1>18 DEF Fastboot, CmdOemChargerScreen, CmdUserKey, CmdFlashSystem, InFastboot
  <2>2. Stores(ok, dev')
    BY <1>1, <1>18, FastbootWrites
  <2>3. Lock(dev) = Lock(stored)
    BY <1>2, <2>1, <2>2 DEF AnswerAgree, InStep, Stores
  <2>4. /\ \A c \in LockBits : stored'[c] = stored[c] /\ dev'[c] = dev[c]
        /\ Answered /\ faults' \in {faults, faults + 1}
    BY <1>1, <1>18, <2>3, FastbootKeeps
  <2>5. Lock(dev') = Lock(dev) /\ Lock(stored') = Lock(stored)
    BY <2>4 DEF Lock
  <2>6. told' = told /\ avbLe' = avbLe /\ pc' = "fastboot" /\ faults' = faults
    BY <1>1, <2>1, <2>4 DEF Answered, session
  <2> QED
    BY <1>4, <2>1, <2>3, <2>5, <2>6
<1>19. ASSUME pc = "fastboot", UNCHANGED <<avbLe, dev, stored, told, faults>>,
              pc' \in {"fastboot", "setValue", "os"}
       PROVE  AnswerAgree'
  BY <1>4, <1>19 DEF AnswerAgree, InStep, Lock
<1>20. ASSUME NEW b \in BOOLEAN, CmdFlashFrp(b) PROVE AnswerAgree'
  BY <1>19, <1>20 DEF CmdFlashFrp, InFastboot, session
<1>21. ASSUME NEW c \in Change, SetDeviceUnlockMenu(c) \/ SetDeviceUnlockNow(c)
       PROVE  AnswerAgree'
  BY <1>19, <1>21 DEF SetDeviceUnlockMenu, SetDeviceUnlockNow, MayChange, InFastboot, disk
<1>22. CASE CmdContinue
  BY <1>19, <1>22 DEF CmdContinue, InFastboot, disk
<1>23. ASSUME NEW ok \in BOOLEAN, ResetDeviceUnlockStatus(ok) PROVE AnswerAgree'
  BY <1>2, <1>19, <1>23 DEF ResetDeviceUnlockStatus, InFastboot, disk
<1>24. ASSUME NEW ok \in BOOLEAN, SetValue(ok) PROVE AnswerAgree'
  <2>1. /\ pc = "setValue" /\ pc' = "reset" /\ UNCHANGED <<avbLe, told, change, faults>>
        /\ dev' = [dev EXCEPT ![change.type] = change.state]
        /\ (dev[change.type] = change.state /\ stored' = stored) \/ stored' = dev'
    BY <1>2, <1>24 DEF SetValue, SetsBit, Stores
  <2>2. change.type \in LockBits /\ change.state \in BOOLEAN
    BY <1>1, <2>1 DEF IInv, TypeOK, Changing, Change, NoChange, LockBits
  <2>3. Lock(dev) = Lock(stored) /\ (avbLe => told = Lock(stored))
    BY <2>1 DEF AnswerAgree, InStep
  <2>4. Lock(dev') = [Lock(dev) EXCEPT ![change.type] = change.state]
    BY <1>1, <2>1, <2>2 DEF Lock, LockBits, DeviceInfo
  <2>5. Lock(stored') = Lock(dev')
    <3>1. CASE stored' = dev'
      BY <3>1
    <3>2. CASE dev[change.type] = change.state /\ stored' = stored
      BY <2>2, <2>3, <2>4, <3>2 DEF Lock
    <3> QED
      BY <2>1, <3>1, <3>2
  <2> QED
    BY <2>1, <2>3, <2>4, <2>5 DEF AnswerAgree
<1>25. ASSUME NEW ok \in BOOLEAN, ResetState(ok) PROVE AnswerAgree'
  <2>1. /\ pc = "reset" /\ pc' = "wipe"
        /\ UNCHANGED <<avbLe, dev, stored, told, change, faults>>
    BY <1>2, <1>25 DEF ResetState, Resets, session
  <2> QED
    BY <2>1 DEF AnswerAgree, InStep, Lock
<1>26. ASSUME NEW ok \in BOOLEAN, UndoValue(ok) PROVE AnswerAgree'
  <2>1. pc = "undo" /\ faults' = faults
    BY <1>2, <1>26 DEF UndoValue, SetsBit, Stores
  <2> QED
    BY <2>1 DEF AnswerAgree
<1>27. ASSUME NEW ok \in BOOLEAN, WriteWipe(ok) PROVE AnswerAgree'
  <2>1. /\ ok /\ pc = "wipe" /\ UNCHANGED <<avbLe, dev, stored, faults>>
        /\ IF avbLe
           THEN /\ pc' = "fastboot"
                /\ told' = [told EXCEPT ![change.type] = change.state]
           ELSE pc' = "leave"
    BY <1>2, <1>27 DEF WriteWipe, Ends
  <2> QED
    BY <2>1 DEF AnswerAgree, InStep, Lock
<1>28. CASE OsRuns
  BY <1>11, <1>28 DEF OsRuns, InStep
<1>29. ASSUME NEW r \in Reasons, OsRestarts(r) PROVE AnswerAgree'
  BY <1>5, <1>29 DEF OsRestarts
<1>30. ASSUME NEW ok \in BOOLEAN, Loader(ok) PROVE AnswerAgree'
  BY <1>30, <1>10, <1>13, <1>14, <1>17 DEF Loader
<1>31. ASSUME NEW ok \in BOOLEAN, SetDeviceUnlockValue(ok) PROVE AnswerAgree'
  BY <1>31, <1>23, <1>24, <1>25, <1>26, <1>27 DEF SetDeviceUnlockValue
<1> QED
  BY <1>6, <1>7, <1>8, <1>9, <1>12, <1>k, <1>15, <1>16, <1>18, <1>20, <1>21,
     <1>22, <1>28, <1>29, <1>30, <1>31 DEF Next

\* Until a request fails the host knows the stored lock state from the answers,
\* through any number of changes, reboots and power cuts.
THEOREM AnswersAreTrue == Spec => []AnswersTrue
<1>1. Spec => []AnswerInv
  BY AnswerInvInit, AnswerInvNext, PTL DEF Spec
<1>2. AnswerInv => AnswersTrue
  BY DEF AnswerInv, AnswerAgree, AnswersTrue
<1> QED
  BY <1>1, <1>2, PTL

=============================================================================
