----------------------------- MODULE SlotVerify -----------------------------
(***************************************************************************)
(* Verified boot of a device with two boot slots, AVB 2 and a user build:  *)
(* LoadImageAndAuth and LoadImageAndAuthVB2 (VerifiedBoot.c),              *)
(* avb_slot_verify and load_and_verify_vbmeta (avb_slot_verify.c), the     *)
(* rollback indexes of avb_ops.c and DeviceInfo.c, and how they meet the   *)
(* attributes of the slots.  BootFlow reduces all of this to one bit per   *)
(* slot; here the bit is computed, one check of a slot after the other.    *)
(*                                                                         *)
(* The images of a slot are a record: who signed the main vbmeta and the   *)
(* chained one, their rollback indexes, and whether the two partitions the *)
(* loader asks for match their hash descriptors.  The descriptors come in  *)
(* the order avbtool writes them, the chained ones first.  The results of  *)
(* libavb fall into the three kinds its callers tell apart.                *)
(*                                                                         *)
(* Left to SlotManager: how the attributes reach the storage, the type     *)
(* GUIDs and the UFS boot unit.  A change of the table is one step here.   *)
(***************************************************************************)
EXTENDS SlotTable

CONSTANTS
  Images,        \* what the partitions of a slot may hold
  InitTable,     \* the table of a device that has been started before
  MaxIndex,      \* bound: rollback indexes go from 0 to MaxIndex
  MaxInstalls,   \* bound: updates and flashed images
  MaxMishaps     \* bound: power cuts and failing calls

Locations == {0, 1}   \* of the main vbmeta and of the chained one
Requested == {"boot", "dtbo"}

Image == [key : {"oem", "user", "other", "none", "broken"},
          index : 0 .. MaxIndex,
          disabled : BOOLEAN,       \* AVB_VBMETA_IMAGE_FLAGS_VERIFICATION_DISABLED
          chainKey : {"oem", "other", "none", "broken"},
          chainIndex : 0 .. MaxIndex,
          boot : {"good", "bad"},
          dtbo : {"good", "bad", "absent"}]   \* absent: no descriptor

ASSUME VerifyAssumption ==
  /\ Images \subseteq Image
  /\ InitTable \in Table
  /\ \E s \in Slots : InitTable["boot"][s].act /\ InitTable["boot"][s].pri = MaxPriority
  /\ {MaxIndex, MaxInstalls, MaxMishaps} \subseteq Nat

\* Its active slot has proved itself.
ASSUME InUseAssumption == Proven(InitTable["boot"][ActiveOf(InitTable)])

VARIABLES
  table,      \* the attributes of the slots, in RAM and on the storage
  images,     \* images[s]: what the partitions of slot s hold
  unlocked,   \* IsUnlocked ()
  stored,     \* rollback_index of DeviceInfo on the storage
  mem,        \* DevInfo.rollback_index
  pc,         \* where the device is
  slot,       \* the slot FindBootableSlot returned, or that runs
  check,      \* what load_and_verify_vbmeta looks at next
  ret,        \* its result so far
  loaded,     \* SlotData->loaded_partitions
  installs, mishaps,   \* counted for the bounds
  pristine    \* history: never unlocked, and no call has failed

vars == <<table, images, unlocked, stored, mem, pc, slot, check, ret, loaded,
          installs, mishaps, pristine>>
device == <<table, images, unlocked>>
indexes == <<stored, mem>>
verdict == <<slot, check, ret, loaded>>
counts == <<installs, mishaps, pristine>>

Checks == {"main", "load", "chain", "boot", "dtbo", "done"}
Results == {"ok",
            "error",   \* ERROR_VERIFICATION, _ROLLBACK_INDEX, _PUBLIC_KEY_REJECTED
            "fatal"}   \* ERROR_IO, _OOM, _INVALID_METADATA

TypeOK ==
  /\ table \in Table
  /\ images \in [Slots -> Image]
  /\ unlocked \in BOOLEAN
  /\ stored \in [Locations -> 0 .. MaxIndex]
  /\ mem \in [Locations -> 0 .. MaxIndex]
  /\ pc \in {"off", "find", "verify", "os", "fastboot"}
  /\ slot \in Slots \cup {NoSlot}
  /\ check \in Checks
  /\ ret \in Results
  /\ loaded \subseteq Requested
  /\ installs \in 0 .. MaxInstalls
  /\ mishaps \in 0 .. MaxMishaps
  /\ pristine \in BOOLEAN

-----------------------------------------------------------------------------
(* What is sound, in the terms of the release and not of the code          *)

HashesMatch(i) == i.boot = "good" /\ i.dtbo = "good"

\* Signed by the maker or by the owner's key, and whole.  A signed vbmeta may
\* switch verification off.
Sound(i) ==
  /\ i.key \in {"oem", "user"}
  /\ i.disabled \/ (i.chainKey = "oem" /\ HashesMatch(i))

NotOlder(i, idx) ==
  /\ i.index >= idx[0]
  /\ i.disabled \/ i.chainIndex >= idx[1]

Init ==
  /\ table = InitTable
  /\ images \in [Slots -> {i \in Images : Sound(i) /\ i.index = 0 /\ i.chainIndex = 0}]
  /\ unlocked = FALSE
  /\ stored = [l \in Locations |-> 0] /\ mem = stored
  /\ pc = "off" /\ slot = NoSlot
  /\ check = "done" /\ ret = "ok" /\ loaded = {}
  /\ installs = 0 /\ mishaps = 0 /\ pristine = TRUE

\* A call that fails without the code's doing
Mishap ==
  /\ mishaps < MaxMishaps /\ mishaps' = mishaps + 1
  /\ pristine' = FALSE
  /\ UNCHANGED installs

-----------------------------------------------------------------------------
(* From power on to avb_slot_verify                                        *)

\* DeviceInfoInit reads the indexes into RAM.
PowerOn ==
  /\ pc = "off"
  /\ pc' = "find"
  /\ mem' = stored
  /\ UNCHANGED <<device, stored, verdict, counts>>

StartVerify(s) ==
  /\ pc' = "verify" /\ slot' = s
  /\ check' = "main" /\ ret' = "ok" /\ loaded' = {}

\* Mutant of Condemned: the alternate slot is not switched to.
CondemnedStays(t, s) == WithUnbootable(t, s)

\* HandleActiveSlotUnbootable: the table it leaves behind.
Condemned(t, s) ==
  LET marked == WithUnbootable(t, s)
  IN  IF Proven(t["boot"][OtherSlot(s)])
      THEN WithActive(marked, OtherSlot(s), FALSE)
      ELSE marked

\* Whether it resets the device to start the other slot or returns, the
\* caller goes down: to recovery when locked, after the red screen if not.
HandleActiveSlotUnbootable ==
  /\ table' = Condemned(table, ActiveOf(table))
  /\ pc' = "off"
  /\ UNCHANGED <<images, unlocked, indexes>>

FindBootableSlot ==
  /\ pc = "find"
  /\ LET a == ActiveOf(table)
         e == table["boot"][a]
     IN \/ /\ Proven(e)
           /\ StartVerify(a)
           /\ UNCHANGED <<device, indexes>>
        \/ /\ OnTrial(e)
           /\ table' = WithTryUsed(table, a)
           /\ StartVerify(a)
           /\ UNCHANGED <<images, unlocked, indexes>>
        \/ /\ ~Proven(e) /\ ~OnTrial(e)
           /\ HandleActiveSlotUnbootable
           /\ UNCHANGED verdict
  /\ UNCHANGED counts

-----------------------------------------------------------------------------
(* load_and_verify_vbmeta                                                  *)

Verifying(c) == pc = "verify" /\ check = c
Examined == images[slot]

\* Mutant of After: the result of the last check is the result.
AfterLast(r) == r

\* The result once a check has returned r: a later success does not undo an
\* earlier failure.
After(r) == IF r = "ok" THEN ret ELSE r

\* The check returned r, and c is the next one; "done" leaves the function.
Goto(r, c) ==
  /\ ret' = After(r) /\ check' = c
  /\ UNCHANGED <<slot, loaded>>

Newer(l, index) == mem[l] < index

\* Mutant of IsCurrentSlotBootable: a slot on trial counts.
SlotNotUnbootable == ~table["boot"][ActiveOf(table)].unb

IsCurrentSlotBootable == Proven(table["boot"][ActiveOf(table)])

\* The rest of the checks of one vbmeta struct once its rollback index has
\* been compared: a newer index is stored at once, for a slot that is known
\* to work, whatever r says; then comes the check c.  WriteRollbackIndex
\* changes DevInfo before it writes, so that a failing write leaves the new
\* index in RAM.
StoreIndex(l, index, r, c) ==
  \/ /\ Newer(l, index) /\ IsCurrentSlotBootable
     /\ mem' = [mem EXCEPT ![l] = index]
     /\ \/ stored' = mem' /\ Goto(r, c) /\ UNCHANGED counts
        \/ Goto("fatal", "done") /\ Mishap /\ UNCHANGED stored
  \/ /\ ~(Newer(l, index) /\ IsCurrentSlotBootable)
     /\ Goto(r, c)
     /\ UNCHANGED <<indexes, counts>>

\* A vbmeta struct at location l: signature and key, then the rollback index.
\* A locked device goes to the check c1 at the first failure, an unlocked one
\* carries on.
VerifyHead(key, trusted, l, index, c1, c) ==
  LET ok == key \in trusted /\ index >= mem[l]
  IN  \/ /\ key = "broken"
         /\ Goto("fatal", "done")
         /\ UNCHANGED <<indexes, counts>>
      \/ /\ key # "broken" /\ ~ok /\ ~unlocked
         /\ Goto("error", c1)
         /\ UNCHANGED <<indexes, counts>>
      \/ /\ key # "broken" /\ (ok \/ unlocked)
         /\ StoreIndex(l, index, IF ok THEN "ok" ELSE "error", c)

VerifyMain ==
  /\ Verifying("main") /\ ~Examined.disabled
  /\ VerifyHead(Examined.key, {"oem", "user"}, 0, Examined.index, "done", "chain")
  /\ UNCHANGED <<device, pc>>

\* Verification switched off: load_requested_partitions, and no descriptor.
VerifyDisabled ==
  /\ Verifying("main") /\ Examined.disabled
  /\ VerifyHead(Examined.key, {"oem", "user"}, 0, Examined.index, "done", "load")
  /\ UNCHANGED <<device, pc>>

\* The chained vbmeta struct.  Its failure ends its own checks; unless it is
\* fatal, the main struct goes on with its next descriptor, locked or not.
VerifyChain ==
  /\ Verifying("chain")
  /\ VerifyHead(Examined.chainKey, {"oem"}, 1, Examined.chainIndex, "boot", "boot")
  /\ UNCHANGED <<device, pc>>

\* load_and_verify_hash_partition
VerifyHash(p, c) ==
  /\ Verifying(p)
  /\ LET h == Examined[p]
     IN  /\ loaded' = IF h = "absent" THEN loaded ELSE loaded \cup {p}
         /\ ret' = After(IF h = "bad" THEN "error" ELSE "ok")
         /\ check' = IF h = "bad" /\ ~unlocked THEN "done" ELSE c
  /\ UNCHANGED <<device, indexes, pc, slot, counts>>

LoadRequestedPartitions ==
  /\ Verifying("load")
  /\ loaded' = Requested /\ check' = "done"
  /\ UNCHANGED <<device, indexes, pc, slot, ret, counts>>

ReadFails ==
  /\ pc = "verify" /\ check # "done"
  /\ Goto("fatal", "done")
  /\ Mishap
  /\ UNCHANGED <<device, indexes, pc>>

-----------------------------------------------------------------------------
(* The rest of LoadImageAndAuthVB2                                         *)

\* ResultShouldContinue and the count of the loaded images
Accepted ==
  /\ ret = "ok" \/ (unlocked /\ ret # "fatal")
  /\ loaded = Requested

HandOver ==
  /\ Verifying("done") /\ Accepted
  /\ pc' = "os"
  /\ UNCHANGED <<device, indexes, verdict, counts>>

AuthFails ==
  /\ Verifying("done") /\ ~Accepted
  /\ HandleActiveSlotUnbootable
  /\ UNCHANGED <<verdict, counts>>

\* The key master does not take the root of trust.
KeyMasterFails ==
  /\ Verifying("done") /\ Accepted
  /\ HandleActiveSlotUnbootable
  /\ Mishap
  /\ UNCHANGED verdict

-----------------------------------------------------------------------------
(* The system, the host and the power supply                               *)

Install(s, i) ==
  /\ installs < MaxInstalls /\ installs' = installs + 1
  /\ images' = [images EXCEPT ![s] = i]
  /\ UNCHANGED mishaps

OsMarkSuccessful ==
  /\ pc = "os"
  /\ table' = UpdBoot(table, slot, [table["boot"][slot] EXCEPT !.suc = TRUE])
  /\ UNCHANGED <<images, unlocked, indexes, pc, verdict, counts>>

\* An update goes to the other slot, from a system that has proved itself.
OsUpdate(i) ==
  /\ pc = "os" /\ Proven(table["boot"][slot])
  /\ Install(OtherSlot(slot), i)
  /\ table' = WithActive(table, OtherSlot(slot), TRUE)
  /\ UNCHANGED <<unlocked, indexes, pc, verdict, pristine>>

OsReboots ==
  /\ pc = "os"
  /\ pc' = "off"
  /\ UNCHANGED <<device, indexes, verdict, counts>>

\* The fastboot key at power on
EnterFastboot ==
  /\ pc = "off"
  /\ pc' = "fastboot"
  /\ mem' = stored
  /\ UNCHANGED <<device, stored, verdict, counts>>

\* All partitions of a slot; that of boot_x also resets its attributes.
CmdFlash(s, i) ==
  /\ pc = "fastboot" /\ unlocked
  /\ Install(s, i)
  /\ table' = WithFlashedAttr(table, s)
  /\ UNCHANGED <<unlocked, indexes, pc, verdict, pristine>>

CmdSetActive(s) ==
  /\ pc = "fastboot" /\ unlocked
  /\ table' = WithActive(table, s, TRUE)
  /\ UNCHANGED <<images, unlocked, indexes, pc, verdict, counts>>

CmdFlashingLock ==
  /\ pc = "fastboot"
  /\ unlocked' = ~unlocked /\ pristine' = FALSE
  /\ pc' = "off"
  /\ UNCHANGED <<table, images, indexes, verdict, installs, mishaps>>

CmdReboot ==
  /\ pc = "fastboot"
  /\ pc' = "off"
  /\ UNCHANGED <<device, indexes, verdict, counts>>

PowerCut ==
  /\ pc # "off" /\ mishaps < MaxMishaps
  /\ pc' = "off" /\ mishaps' = mishaps + 1
  /\ UNCHANGED <<device, indexes, verdict, installs, pristine>>

-----------------------------------------------------------------------------

Loader ==
  \/ PowerOn \/ FindBootableSlot
  \/ VerifyMain \/ VerifyDisabled \/ VerifyChain
  \/ VerifyHash("boot", "dtbo") \/ VerifyHash("dtbo", "done")
  \/ LoadRequestedPartitions \/ ReadFails
  \/ HandOver \/ AuthFails \/ KeyMasterFails

Others ==
  \/ OsMarkSuccessful \/ OsReboots
  \/ \E i \in Images : OsUpdate(i)
  \/ EnterFastboot \/ CmdFlashingLock \/ CmdReboot
  \/ \E s \in Slots : CmdSetActive(s) \/ (\E i \in Images : CmdFlash(s, i))
  \/ PowerCut

Next == Loader \/ Others

Spec == Init /\ [][Next]_vars

\* The loader is one thread that never waits, and a device that was reset
\* comes up again.
FairSpec == Spec /\ WF_vars(Loader)

-----------------------------------------------------------------------------
(* Properties                                                              *)

\* A system that a locked device runs was verified as a whole, and neither
\* its main vbmeta nor the chained one is older than what the device has
\* stored: although a chained struct that fails does not stop the checks,
\* and although the indexes change while they go on.
LockedRunsVerified ==
  (pc = "os" /\ ~unlocked) => Sound(images[slot]) /\ NotOlder(images[slot], stored)

\* As long as nothing fails and the device stays locked, there is a slot to
\* fall back to: one that was successful, whose images verify and are new
\* enough.  The indexes rise only with a slot that has proved itself.
FallbackVerifies ==
  pristine =>
    \E s \in Slots : /\ Proven(table["boot"][s])
                     /\ Sound(images[s]) /\ NotOlder(images[s], stored)

\* No step takes a stored rollback index back, on a locked device or not,
\* with failing writes or without.
IndexMonotone == [][\A l \in Locations : stored'[l] >= stored[l]]_vars

\* A locked device on which no call fails gets to a system again, whatever
\* update it was given and wherever the power was cut, unless somebody takes
\* it to fastboot.
AlwaysBoots ==
  (pc = "off" /\ pristine) ~> (pc \in {"os", "fastboot"} \/ ~pristine)

\* avb_slot_verify.h: "avb_slot_verify() will NEVER modify
\* stored_rollback_index[n] locations".
VerifyLeavesIndexes == [][pc = "verify" => UNCHANGED <<stored, mem>>]_vars
=============================================================================
