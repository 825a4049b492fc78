-------------------------- MODULE SlotManagerProofs --------------------------
(***************************************************************************)
(* Theorems about the slot manager, for every set of partitions, every     *)
(* layout of logical units and any number of faults, and their refinement  *)
(* of TableStore under one fault.                                          *)
(***************************************************************************)
EXTENDS SlotStore, TLAPS

Running == pc \notin {"off", "firmware"}

\* Labels at which the call in progress works on a slot
SlotLabels == {"validate", "markFound", "found", "fallback", "setActive",
               "setLun", "markSet", "setDone", "trail", "flashAttr", "os"}

\* ... and at which that slot is marked active in RAM
ActiveLabels == {"validate", "markFound", "setLun", "markSet"}

Ahead(S) == pc \in S \/ (pc = "flush" /\ ret \in S)

SlotKnown == Ahead(SlotLabels) => slot \in Slots

SlotActive == Ahead(ActiveLabels) => ram["boot"][slot].act

TornBudget ==
  /\ faults = 0 => torn = {}
  /\ faults = 1 => /\ \A x, y \in torn : x = y
                   /\ Running => torn = {} \/ "table" \in failed
  /\ (faults = 2 /\ "table" \notin failed) => \A l \in Luns : Readable(l)

SameOn(l, t, u) == \A p \in Ptns, s \in Slots : LunOf[p][s] = l => t[p][s] = u[p][s]

Mirrored ==
  faults = 0 =>
    \A l \in Luns :
      IF pc = "flush" /\ at = [lun |-> l, iter |-> Backup]
      THEN SameOn(l, gpt[Primary], ram)
      ELSE SameOn(l, gpt[Primary], gpt[Backup])

-----------------------------------------------------------------------------
(* The functions of SlotTable map tables to tables.                        *)

LEMMA Ranges ==
  /\ MaxPriority \in 0 .. MaxPriority
  /\ MaxPriority - 1 \in 0 .. MaxPriority
  /\ MaxRetry \in 0 .. MaxRetry
BY TableAssumption DEF MaxPriority

LEMMA ZeroCounts == 0 \in TryCounts
BY TableAssumption DEF TryCounts

LEMMA BootIsPtn == "boot" \in Ptns
BY TableAssumption

LEMMA OtherSlotType == \A s : OtherSlot(s) \in Slots
BY DEF OtherSlot, Slots

LEMMA TableApply ==
  ASSUME NEW t \in Table, NEW p \in Ptns, NEW s \in Slots
  PROVE  t[p][s] \in Entry
BY DEF Table

LEMMA BootEntryType ==
  ASSUME NEW t \in Table, NEW s \in Slots
  PROVE  t["boot"][s] \in Entry
BY TableApply, BootIsPtn

LEMMA UpdBootType ==
  ASSUME NEW t \in Table, NEW s, NEW e, s \in Slots => e \in Entry
  PROVE  UpdBoot(t, s, e) \in Table
BY BootIsPtn DEF UpdBoot, Table

LEMMA ActiveOfType == \A t : ActiveOf(t) \in Slots \cup {NoSlot}
BY DEF ActiveOf, Slots

LEMMA WithDefaultType ==
  ASSUME NEW t \in Table
  PROVE  WithDefault(t) \in Table
<1>1. t["boot"]["_a"] \in Entry
  BY BootEntryType DEF Slots
<1>2. [t["boot"]["_a"] EXCEPT !.pri = MaxPriority, !.act = TRUE,
         !.ret = MaxRetry, !.suc = FALSE, !.unb = FALSE] \in Entry
  BY <1>1, Ranges, Zenon DEF Entry
<1> QED
  BY <1>2, UpdBootType DEF WithDefault

LEMMA WithActiveType ==
  ASSUME NEW t \in Table, NEW s \in Slots, NEW r \in BOOLEAN
  PROVE  WithActive(t, s, r) \in Table
<1>1. OtherSlot(s) \in Slots
  BY OtherSlotType
<1>2. t["boot"][s] \in Entry /\ t["boot"][OtherSlot(s)] \in Entry
  BY <1>1, BootEntryType
<1> DEFINE new == [t["boot"][s] EXCEPT
                     !.pri = MaxPriority, !.act = TRUE, !.ret = MaxRetry,
                     !.unb = FALSE, !.suc = @ /\ ~r]
           old == [t["boot"][OtherSlot(s)] EXCEPT
                     !.pri = MaxPriority - 1, !.act = FALSE]
<1>3. new \in Entry
  <2>1. ASSUME NEW b \in BOOLEAN
        PROVE  [t["boot"][s] EXCEPT
                  !.pri = MaxPriority, !.act = TRUE, !.ret = MaxRetry,
                  !.unb = FALSE, !.suc = b] \in Entry
    BY <1>2, Ranges, Zenon DEF Entry
  <2>2. (t["boot"][s].suc /\ ~r) \in BOOLEAN
    OBVIOUS
  <2> QED
    BY <2>1, <2>2, Zenon
<1>4. old \in Entry
  BY <1>2, Ranges, Zenon DEF Entry
<1> HIDE DEF new, old
<1>5. UpdBoot(t, s, new) \in Table
  BY <1>3, UpdBootType
<1>6. UpdBoot(UpdBoot(t, s, new), OtherSlot(s), old) \in Table
  BY <1>1, <1>4, <1>5, UpdBootType
<1> QED
  BY <1>6 DEF WithActive, new, old

LEMMA WithTypesSwappedType ==
  ASSUME NEW t \in Table
  PROVE  WithTypesSwapped(t) \in Table
<1>1. ASSUME NEW p \in Ptns, NEW s \in Slots
      PROVE  [t[p][s] EXCEPT !.type = t[p][OtherSlot(s)].type] \in Entry
  <2>1. t[p][s] \in Entry /\ t[p][OtherSlot(s)] \in Entry
    BY OtherSlotType, TableApply
  <2> QED
    BY <2>1 DEF Entry
<1> QED
  BY <1>1 DEF WithTypesSwapped, Table

LEMMA WithActiveBitsType ==
  ASSUME NEW t \in Table, NEW s
  PROVE  WithActiveBits(t, s) \in Table
<1>1. ASSUME NEW p \in Ptns, NEW x \in Slots
      PROVE  [t[p][x] EXCEPT !.act = (x = s)] \in Entry
  <2>1. t[p][x] \in Entry
    BY TableApply
  <2>2. \A b \in BOOLEAN : [t[p][x] EXCEPT !.act = b] \in Entry
    BY <2>1, Zenon DEF Entry
  <2>3. (x = s) \in BOOLEAN
    OBVIOUS
  <2> QED
    BY <2>2, <2>3, Zenon
<1> QED
  BY <1>1 DEF WithActiveBits, Table

LEMMA WithTryUsedType ==
  ASSUME NEW t \in Table, NEW s \in Slots, OnTrial(t["boot"][s])
  PROVE  WithTryUsed(t, s) \in Table
<1>1. t["boot"][s] \in Entry
  BY BootEntryType
<1>2. t["boot"][s].ret - 1 \in 0 .. MaxRetry
  BY <1>1, TableAssumption DEF Entry, OnTrial
<1>3. [t["boot"][s] EXCEPT !.ret = @ - 1] \in Entry
  BY <1>1, <1>2, Zenon DEF Entry
<1> QED
  BY <1>3, UpdBootType DEF WithTryUsed

LEMMA WithUnbootableType ==
  ASSUME NEW t \in Table, NEW s \in Slots
  PROVE  /\ WithUnbootable(t, s) \in Table
         /\ WithUnbootableCleared(t, s) \in Table
<1>1. t["boot"][s] \in Entry
  BY BootEntryType
<1>2. /\ [t["boot"][s] EXCEPT !.unb = TRUE] \in Entry
      /\ [t["boot"][s] EXCEPT !.unb = FALSE] \in Entry
  BY <1>1, Zenon DEF Entry
<1> QED
  BY <1>2, UpdBootType DEF WithUnbootable, WithUnbootableCleared

LEMMA WithFlashedAttrType ==
  ASSUME NEW t \in Table, NEW s \in Slots
  PROVE  WithFlashedAttr(t, s) \in Table
<1>1. t["boot"][s] \in Entry
  BY BootEntryType
<1>2. [t["boot"][s] EXCEPT !.suc = FALSE, !.unb = FALSE,
         !.pri = MaxPriority, !.ret = MaxRetry] \in Entry
  BY <1>1, Ranges, Zenon DEF Entry
<1> QED
  BY <1>2, UpdBootType DEF WithFlashedAttr

LEMMA WithSuccessType ==
  ASSUME NEW t \in Table, NEW s \in Slots
  PROVE  UpdBoot(t, s, [t["boot"][s] EXCEPT !.suc = TRUE]) \in Table
<1>1. [t["boot"][s] EXCEPT !.suc = TRUE] \in Entry
  BY BootEntryType, Zenon DEF Entry
<1> QED
  BY <1>1, UpdBootType

LEMMA WithLunType ==
  ASSUME NEW t \in Table, NEW u \in Table, NEW l
  PROVE  WithLun(t, l, u) \in Table
BY DEF WithLun, Table

LEMMA ViewType == TypeOK => View \in Table
BY DEF TypeOK, View, Presented, Table, Copies, Primary, Backup

-----------------------------------------------------------------------------
(* What the requests to the boot unit may do to the rest                   *)

LEMMA LunOutcomes ==
  ASSUME SetActiveSame \/ SetBootLun \/ ValidateSlotGuids
  PROVE  /\ UNCHANGED <<gpt, torn>>
         /\ faults' = faults \/ Fault
         /\ \/ failed' = failed
            \/ failed' = failed \ {"lun"}
            \/ failed' = failed \cup {"lun"}
BY DEF SetActiveSame, RepairBootLun, SetBootLun, LunSwitched, LunRequestFails,
       ValidateSlotGuids, storage

LEMMA LunValues ==
  ASSUME bootLun \in {0, 1, 2}, SetActiveSame \/ SetBootLun \/ ValidateSlotGuids
  PROVE  bootLun' \in {0, 1, 2}
BY DEF SetActiveSame, RepairBootLun, SetBootLun, LunSwitched, LunRequestFails,
       SwitchedLun, LunFor, ValidateSlotGuids, storage

-----------------------------------------------------------------------------
(* Type correctness, with the slot that the call in progress works on      *)

TypeInv == TypeOK /\ SlotKnown

LEMMA TypeInvInit == Init => TypeInv
<1> SUFFICES ASSUME Init
             PROVE  TypeInv
  OBVIOUS
<1> USE ManagerAssumption DEF Init
<1>1. PICK t \in InitTables : ram = t /\ gpt = [c \in Copies |-> t]
                              /\ bootLun = LunFor(StartSlot(t))
  OBVIOUS
<1>2. t \in Table
  BY <1>1
<1>3. Start \in [lun : Luns, iter : Copies]
  BY TableAssumption DEF Start, Luns, Copies, Primary, Backup
<1>4. 0 \in 0 .. MaxFaults
  OBVIOUS
<1>5. gpt \in [Copies -> Table] /\ bootLun \in {0, 1, 2}
  BY <1>1, <1>2 DEF LunFor
<1>6. tries \in [Slots -> TryCounts]
  BY ZeroCounts
<1>7. TypeOK
  BY <1>1, <1>2, <1>3, <1>4, <1>5, <1>6 DEF TypeOK, Labels, EntryPoints
<1>8. SlotKnown
  BY DEF SlotKnown, Ahead, SlotLabels
<1> QED
  BY <1>7, <1>8 DEF TypeInv

LEMMA TypeInvNext == TypeInv /\ [Next]_vars => TypeInv'
<1> SUFFICES ASSUME TypeInv, [Next]_vars
             PROVE  TypeInv'
  OBVIOUS
<1> USE DEF TypeInv, TypeOK, SlotKnown, Ahead, SlotLabels, Labels, EntryPoints,
            storage
<1>1. Start \in [lun : Luns, iter : Copies]
  BY TableAssumption DEF Start, Luns, Copies, Primary, Backup
<1>2. ActiveOf(ram) \in Slots \cup {NoSlot}
  BY ActiveOfType
<1>3. NoSlot \notin Slots /\ "_a" \in Slots
  BY DEF NoSlot, Slots
<1>4. View \in Table
  BY ViewType
<1>41. \A s \in Slots : [tries EXCEPT ![s] = 0] \in [Slots -> TryCounts]
  BY ZeroCounts
<1>42. Fault => faults' \in 0 .. MaxFaults
  BY ManagerAssumption DEF Fault
<1>43. ASSUME SetActiveSame \/ SetBootLun \/ ValidateSlotGuids
       PROVE  /\ bootLun' \in {0, 1, 2} /\ faults' \in 0 .. MaxFaults
              /\ failed' \subseteq {"table", "lun"}
  BY <1>42, <1>43, LunOutcomes, LunValues
<1>5. ASSUME vars' = vars
      PROVE  TypeInv'
  BY <1>5 DEF vars
<1>6. CASE PowerUp
  BY <1>6 DEF PowerUp
<1>7. CASE RestoreCopy
  <2>1. PICK l \in Luns, c \in Copies :
          /\ gpt' = [gpt EXCEPT ![c] = WithLun(@, l, gpt[1 - c])]
          /\ torn' = torn \ {<<l, c>>}
    BY <1>7 DEF RestoreCopy
  <2>2. 1 - c \in Copies
    BY DEF Copies, Primary, Backup
  <2>3. WithLun(gpt[c], l, gpt[1 - c]) \in Table
    BY <2>2, WithLunType
  <2>4. gpt' \in [Copies -> Table]
    BY <2>1, <2>3
  <2>5. torn' \subseteq Luns \X Copies
    BY <2>1
  <2> QED
    BY <1>7, <2>4, <2>5 DEF RestoreCopy
<1>8. CASE Present
  <2>1. faults' \in 0 .. MaxFaults
    BY <1>8, ManagerAssumption DEF Present, Fault
  <2>2. TypeOK'
    BY <1>1, <1>4, <1>8, <2>1 DEF Present, Fault
  <2>3. SlotKnown'
    BY <1>8 DEF Present, Fault
  <2> QED
    BY <2>2, <2>3
<1>9. CASE WriteCopy
  <2>1. at.iter \in Copies /\ at.lun \in Luns
    OBVIOUS
  <2>2. gpt' \in [Copies -> Table]
    BY <1>9, <2>1, WithLunType DEF WriteCopy
  <2>3. torn' \subseteq Luns \X Copies
    BY <1>9 DEF WriteCopy
  <2>4. at' \in [lun : Luns, iter : Copies]
    <3>1. CASE at.iter = Primary
      BY <1>9, <3>1 DEF WriteCopy, Copies
    <3>2. CASE at.iter # Primary /\ at.lun + 1 < MaxLuns
      BY <1>9, <2>1, <3>2, TableAssumption
         DEF WriteCopy, Copies, Luns
    <3>3. CASE at.iter # Primary /\ ~(at.lun + 1 < MaxLuns)
      BY <1>1, <1>9, <3>3 DEF WriteCopy
    <3> QED
      BY <3>1, <3>2, <3>3
  <2>5. pc' = pc \/ pc' = ret
    BY <1>9 DEF WriteCopy
  <2> QED
    BY <1>9, <2>2, <2>3, <2>4, <2>5 DEF WriteCopy
<1>10. CASE IoError
  <2>1. torn' \subseteq Luns \X Copies
    BY <1>10 DEF IoError, HalfWritten
  <2>2. failed' \subseteq {"table", "lun"}
    BY <1>10 DEF IoError
  <2> QED
    BY <1>1, <1>10, <1>42, <2>1, <2>2 DEF IoError
<1>11. CASE DefaultSlot
  BY <1>41, <1>1, <1>3, <1>11, WithDefaultType
     DEF DefaultSlot, FlushThen, NeedsActive
<1>12. CASE NoActiveSlot
  BY <1>12 DEF NoActiveSlot, Fail, NeedsActive
<1>13. CASE Query
  BY <1>13 DEF Query
<1>14. CASE FindProven
  BY <1>2, <1>14 DEF FindProven
<1>15. CASE FindOnTrial
  BY <1>1, <1>2, <1>15, WithTryUsedType DEF FindOnTrial, FlushThen
<1>16. CASE FindUnbootable
  BY <1>16 DEF FindUnbootable
<1>17. CASE ValidateSlotGuids
  BY <1>17, <1>43 DEF ValidateSlotGuids, Fail
<1>18. CASE MarkPtnActive
  BY <1>1, <1>18, WithActiveBitsType DEF MarkPtnActive, FlushThen
<1>19. CASE MarkUnbootable
  BY <1>1, <1>2, <1>19, WithUnbootableType, OtherSlotType
     DEF MarkUnbootable, FlushThen
<1>20. CASE Fallback
  BY <1>20 DEF Fallback, Fail
<1>21. CASE ResetSystem
  BY <1>21 DEF ResetSystem
<1>22. CASE SetActiveSame
  BY <1>41, <1>43, <1>22, WithActiveType DEF SetActiveSame
<1>23. CASE SetActiveOther
  BY <1>41, <1>23, WithActiveType, WithTypesSwappedType DEF SetActiveOther
<1>24. CASE SetBootLun
  BY <1>24, <1>43 DEF SetBootLun
<1>25. CASE FinishSetActive
  BY <1>1, <1>25 DEF FinishSetActive, FlushThen
<1>26. CASE ClearUnbootable
  BY <1>1, <1>2, <1>26, WithUnbootableType DEF ClearUnbootable, FlushThen
<1>27. CASE FastbootUpdateAttr
  BY <1>41, <1>1, <1>27, WithFlashedAttrType DEF FastbootUpdateAttr, FlushThen
<1>28. CASE Call
  BY <1>28 DEF Call, Enter
<1>29. CASE VerifyFails
  BY <1>29 DEF VerifyFails
<1>30. CASE BootOs
  <2>1. tries' \in [Slots -> TryCounts]
    BY <1>30, TableAssumption DEF BootOs, TryCounts
  <2> QED
    BY <1>30, <2>1 DEF BootOs
<1>31. CASE BootLinuxReturns
  BY <1>31 DEF BootLinuxReturns
<1>32. CASE OsMarkSuccessful
  BY <1>41, <1>32, WithSuccessType DEF OsMarkSuccessful
<1>33. CASE Reboot
  BY <1>33 DEF Reboot
<1>34. CASE PowerCut
  <2>1. torn' \subseteq Luns \X Copies
    BY <1>34 DEF PowerCut, Fault, HalfWritten
  <2> QED
    BY <1>1, <1>34, <2>1, ManagerAssumption DEF PowerCut, Fault, HalfWritten
<1> QED
  BY <1>5, <1>6, <1>7, <1>8, <1>9, <1>10, <1>11, <1>12, <1>13, <1>14, <1>15,
     <1>16, <1>17, <1>18, <1>19, <1>20, <1>21, <1>22, <1>23, <1>24, <1>25,
     <1>26, <1>27, <1>28, <1>29, <1>30, <1>31, <1>32, <1>33, <1>34
  DEF Next, Loader, Environment, Flush

\* Every variable of the slot manager keeps the shape its comment gives it:
\* the attribute fields stay within the bits the GPT entry has for them (no
\* retry count is decremented below 0), and no entry point works on a slot
\* that does not exist.
THEOREM TypeInvariance == Spec => []TypeOK
<1>1. Spec => []TypeInv
  BY TypeInvInit, TypeInvNext, PTL DEF Spec
<1>2. TypeInv => TypeOK
  BY DEF TypeInv
<1> QED
  BY <1>1, <1>2, PTL

-----------------------------------------------------------------------------
(* At most one active slot                                                 *)

LEMMA UpdBootApply ==
  ASSUME NEW t \in Table, NEW s \in Slots, NEW e
  PROVE  \A x \in Slots :
           UpdBoot(t, s, e)["boot"][x] = IF x = s THEN e ELSE t["boot"][x]
BY BootIsPtn DEF UpdBoot, Table

LEMMA ActiveOfActs ==
  ASSUME NEW t \in Table, ActiveOf(t) # NoSlot
  PROVE  t["boot"][ActiveOf(t)].act
<1>1. \A s \in Slots : t["boot"][s].pri \in 0 .. MaxPriority
  BY BootEntryType DEF Entry
<1>2. \A s \in Slots : Rank(t, s) >= 0 /\ (Rank(t, s) > 0 => t["boot"][s].act)
  BY <1>1 DEF Rank, MaxPriority
<1>3. Rank(t, "_a") >= 0 /\ "_a" \in Slots /\ "_b" \in Slots
  BY <1>2 DEF Slots
<1>4. ActiveOf(t) \in Slots /\ Rank(t, ActiveOf(t)) > 0
  <2>1. Rank(t, "_a") \in Int /\ Rank(t, "_b") \in Int
    BY <1>1, <1>3 DEF Rank, MaxPriority
  <2> QED
    BY <1>3, <2>1 DEF ActiveOf
<1> QED
  BY <1>2, <1>4

LEMMA OneActiveDefault ==
  ASSUME NEW t \in Table, OneActive(t), ActiveOf(t) = NoSlot
  PROVE  OneActive(WithDefault(t))
<1>1. "_a" \in Slots /\ "_b" \in Slots
  BY DEF Slots
<1>2. ~t["boot"]["_b"].act
  <2>1. t["boot"]["_a"] \in Entry
    BY <1>1, BootEntryType
  <2> QED
    BY <1>1, <2>1 DEF OneActive, ActiveOf, Rank, NoSlot, MaxPriority, Entry
<1> DEFINE e == [t["boot"]["_a"] EXCEPT
                   !.pri = MaxPriority, !.act = TRUE, !.ret = MaxRetry,
                   !.suc = FALSE, !.unb = FALSE]
<1>3. e.pri = MaxPriority
  <2>1. t["boot"]["_a"] \in Entry
    BY <1>1, BootEntryType
  <2> QED
    BY <2>1 DEF Entry
<1>4. WithDefault(t) = UpdBoot(t, "_a", e)
  BY DEF WithDefault
<1> HIDE DEF e
<1> QED
  BY <1>1, <1>2, <1>3, <1>4, UpdBootApply DEF OneActive, Slots

LEMMA OneActiveSet ==
  ASSUME NEW t \in Table, NEW s \in Slots, NEW r \in BOOLEAN
  PROVE  /\ OneActive(WithActive(t, s, r))
         /\ WithActive(t, s, r)["boot"][s].act
<1> DEFINE o == OtherSlot(s)
           new == [t["boot"][s] EXCEPT
                     !.pri = MaxPriority, !.act = TRUE, !.ret = MaxRetry,
                     !.unb = FALSE, !.suc = @ /\ ~r]
           old == [t["boot"][o] EXCEPT
                     !.pri = MaxPriority - 1, !.act = FALSE]
           w == WithActive(t, s, r)
<1>1. o \in Slots /\ o # s /\ Slots = {s, o}
  BY DEF OtherSlot, Slots
<1>2. t["boot"][s] \in Entry /\ t["boot"][o] \in Entry
  BY <1>1, BootEntryType
<1>3. new.act /\ new.pri = MaxPriority /\ ~old.act
  BY <1>2 DEF Entry
<1>4. w["boot"][s] = new /\ w["boot"][o] = old
  <2>1. w = [t EXCEPT !["boot"] = [[@ EXCEPT ![s] = new] EXCEPT ![o] = old]]
    BY BootIsPtn DEF WithActive, UpdBoot, Table
  <2> HIDE DEF new, old, w, o
  <2> QED
    BY <1>1, <2>1, BootIsPtn DEF Table
<1> HIDE DEF new, old, w, o
<1>5. OneActive(w) /\ w["boot"][s].act
  BY <1>1, <1>3, <1>4 DEF OneActive, Slots
<1> QED
  BY <1>5 DEF w

LEMMA OneActiveSwapped ==
  ASSUME NEW t \in Table
  PROVE  /\ OneActive(t) => OneActive(WithTypesSwapped(t))
         /\ \A x \in Slots :
              WithTypesSwapped(t)["boot"][x].act = t["boot"][x].act
<1>1. ASSUME NEW x \in Slots
      PROVE  LET e == WithTypesSwapped(t)["boot"][x] IN
               e.act = t["boot"][x].act /\ e.pri = t["boot"][x].pri
  <2>1. t["boot"][x] \in Entry
    BY BootEntryType
  <2>2. WithTypesSwapped(t)["boot"][x] =
          [t["boot"][x] EXCEPT !.type = t["boot"][OtherSlot(x)].type]
    BY BootIsPtn DEF WithTypesSwapped
  <2> QED
    BY <2>1, <2>2 DEF Entry
<1> QED
  BY <1>1 DEF OneActive, Slots

LEMMA OneActiveBits ==
  ASSUME NEW t \in Table, NEW s \in Slots, OneActive(t), t["boot"][s].act
  PROVE  OneActive(WithActiveBits(t, s))
<1>1. ASSUME NEW x \in Slots
      PROVE  LET e == WithActiveBits(t, s)["boot"][x] IN
               e.act = (x = s) /\ e.pri = t["boot"][x].pri
  <2>1. t["boot"][x] \in Entry
    BY BootEntryType
  <2>2. WithActiveBits(t, s)["boot"][x] =
          [t["boot"][x] EXCEPT !.act = (x = s)]
    BY BootIsPtn DEF WithActiveBits
  <2> QED
    BY <2>1, <2>2 DEF Entry
<1> QED
  BY <1>1 DEF OneActive, Slots

\* An entry that changes neither the active bit nor, unless to the top, the
\* priority
LEMMA OneActiveUpd ==
  ASSUME NEW t \in Table, NEW s \in Slots, NEW e, OneActive(t),
         e.act = t["boot"][s].act,
         e.pri = t["boot"][s].pri \/ e.pri = MaxPriority
  PROVE  /\ OneActive(UpdBoot(t, s, e))
         /\ \A x \in Slots : UpdBoot(t, s, e)["boot"][x].act = t["boot"][x].act
BY UpdBootApply DEF OneActive, Slots

LEMMA OneActiveEdits ==
  ASSUME NEW t \in Table, NEW s \in Slots, OneActive(t)
  PROVE  /\ OneActive(WithTryUsed(t, s))
         /\ \A x \in Slots : WithTryUsed(t, s)["boot"][x].act = t["boot"][x].act
         /\ OneActive(WithUnbootable(t, s))
         /\ OneActive(WithUnbootableCleared(t, s))
         /\ OneActive(WithFlashedAttr(t, s))
         /\ OneActive(UpdBoot(t, s, [t["boot"][s] EXCEPT !.suc = TRUE]))
<1> DEFINE b == t["boot"][s]
<1>1. b \in Entry
  BY BootEntryType
<1>2. LET e == [b EXCEPT !.ret = @ - 1] IN e.act = b.act /\ e.pri = b.pri
  BY <1>1 DEF Entry
<1>3. LET e == [b EXCEPT !.unb = TRUE] IN e.act = b.act /\ e.pri = b.pri
  BY <1>1 DEF Entry
<1>4. LET e == [b EXCEPT !.unb = FALSE] IN e.act = b.act /\ e.pri = b.pri
  BY <1>1 DEF Entry
<1>5. LET e == [b EXCEPT !.suc = FALSE, !.unb = FALSE, !.pri = MaxPriority,
                         !.ret = MaxRetry]
      IN  e.act = b.act /\ e.pri = MaxPriority
  BY <1>1 DEF Entry
<1>6. LET e == [b EXCEPT !.suc = TRUE] IN e.act = b.act /\ e.pri = b.pri
  BY <1>1 DEF Entry
<1>7. /\ OneActive(WithTryUsed(t, s))
      /\ \A x \in Slots : WithTryUsed(t, s)["boot"][x].act = t["boot"][x].act
  BY <1>2, OneActiveUpd DEF WithTryUsed
<1>8. OneActive(WithUnbootable(t, s))
  BY <1>3, OneActiveUpd DEF WithUnbootable
<1>9. OneActive(WithUnbootableCleared(t, s))
  BY <1>4, OneActiveUpd DEF WithUnbootableCleared
<1>10. OneActive(WithFlashedAttr(t, s))
  BY <1>5, OneActiveUpd DEF WithFlashedAttr
<1>11. OneActive(UpdBoot(t, s, [t["boot"][s] EXCEPT !.suc = TRUE]))
  BY <1>6, OneActiveUpd
<1> QED
  BY <1>7, <1>8, <1>9, <1>10, <1>11

\* boot_a and boot_b are written, restored and presented together.
LEMMA OneActiveLun ==
  ASSUME NEW t \in Table, NEW u \in Table, NEW l, OneActive(t), OneActive(u)
  PROVE  OneActive(WithLun(t, l, u))
BY BootIsPtn, LayoutAssumption DEF WithLun, OneActive, Slots

LEMMA OneActiveView ==
  ASSUME TypeOK, \A c \in Copies : OneActive(gpt[c])
  PROVE  OneActive(View)
BY BootIsPtn, LayoutAssumption
   DEF View, Presented, OneActive, Slots, Copies, Primary, Backup

\* MarkPtnActive gives the active bit to whatever slot it is called for, so
\* the slot must be the one that has the top priority already.
SelectionInv == TypeInv /\ SlotActive /\ SelectionSane

LEMMA SelectionInvInit == Init => SelectionInv
<1> SUFFICES ASSUME Init
             PROVE  SelectionInv
  OBVIOUS
<1>1. PICK t \in InitTables : ram = t /\ gpt = [c \in Copies |-> t]
  BY DEF Init
<1>2. OneActive(t)
  BY ManagerAssumption DEF Sane, OneActive
<1>3. SelectionSane
  BY <1>1, <1>2 DEF SelectionSane
<1>4. SlotActive
  BY DEF Init, SlotActive, Ahead, ActiveLabels
<1> QED
  BY <1>3, <1>4, TypeInvInit DEF SelectionInv

LEMMA SelectionInvNext == SelectionInv /\ [Next]_vars => SelectionInv'
<1> SUFFICES ASSUME SelectionInv, [Next]_vars
             PROVE  SelectionInv'
  OBVIOUS
<1>1. TypeInv /\ TypeInv'
  BY TypeInvNext DEF SelectionInv
<1>2. /\ ram \in Table /\ gpt \in [Copies -> Table]
      /\ ActiveOf(ram) \in Slots \cup {NoSlot}
      /\ at.iter \in Copies
  BY <1>1, ActiveOfType DEF TypeInv, TypeOK
<1>3. SUFFICES SlotActive' /\ SelectionSane'
  BY <1>1 DEF SelectionInv
<1>4. OneActive(ram) /\ \A c \in Copies : OneActive(gpt[c])
  BY DEF SelectionInv, SelectionSane
<1>5. SlotActive /\ SlotKnown
  BY <1>1 DEF SelectionInv, TypeInv
<1> USE DEF SlotActive, SelectionSane, Ahead, ActiveLabels, storage
\* Most steps leave the tables alone and the label outside ActiveLabels.
<1>6. ASSUME UNCHANGED <<ram, gpt>>,
             \/ pc' \notin ActiveLabels \cup {"flush"}
             \/ UNCHANGED <<pc, ret, slot>>
      PROVE  SlotActive' /\ SelectionSane'
  BY <1>4, <1>5, <1>6
<1>7. CASE UNCHANGED vars
  BY <1>6, <1>7 DEF vars
<1>8. CASE PowerUp
  BY <1>6, <1>8 DEF PowerUp
<1>9. CASE RestoreCopy
  <2>1. PICK l \in Luns, c \in Copies :
          gpt' = [gpt EXCEPT ![c] = WithLun(@, l, gpt[1 - c])]
    BY <1>9 DEF RestoreCopy
  <2>2. 1 - c \in Copies
    BY DEF Copies, Primary, Backup
  <2>3. OneActive(WithLun(gpt[c], l, gpt[1 - c]))
    BY <1>2, <1>4, <2>2, OneActiveLun
  <2>4. \A x \in Copies : OneActive(gpt'[x])
    BY <1>2, <1>4, <2>1, <2>3
  <2> QED
    BY <1>4, <1>9, <2>4 DEF RestoreCopy
<1>10. CASE Present
  <2>1. OneActive(View)
    BY <1>1, <1>4, OneActiveView DEF TypeInv
  <2> QED
    BY <1>4, <1>10, <2>1 DEF Present, Fault
<1>11. CASE WriteCopy
  <2>1. gpt' = [gpt EXCEPT ![at.iter] = WithLun(@, at.lun, ram)]
    BY <1>11 DEF WriteCopy
  <2>2. OneActive(WithLun(gpt[at.iter], at.lun, ram))
    BY <1>2, <1>4, OneActiveLun
  <2>3. \A x \in Copies : OneActive(gpt'[x])
    BY <1>2, <1>4, <2>1, <2>2
  <2>4. pc' = "flush" \/ pc' = ret
    BY <1>11 DEF WriteCopy
  <2> QED
    BY <1>4, <1>5, <1>11, <2>3, <2>4 DEF WriteCopy
<1>12. CASE IoError
  BY <1>4, <1>5, <1>12 DEF IoError, Fault, HalfWritten
<1>13. CASE DefaultSlot
  <2>1. OneActive(WithDefault(ram))
    BY <1>2, <1>4, <1>13, OneActiveDefault DEF DefaultSlot
  <2> QED
    BY <1>4, <1>13, <2>1 DEF DefaultSlot, FlushThen, NeedsActive
<1>14. CASE NoActiveSlot
  BY <1>6, <1>14 DEF NoActiveSlot, Fail
<1>15. CASE Query
  BY <1>6, <1>15 DEF Query
<1>16. CASE FindProven
  BY <1>2, <1>4, <1>16, ActiveOfActs DEF FindProven
<1>17. CASE FindOnTrial
  <2>1. slot' = ActiveOf(ram) /\ slot' \in Slots /\ ram["boot"][slot'].act
    BY <1>2, <1>17, ActiveOfActs DEF FindOnTrial
  <2>2. CASE ram' = ram
    BY <1>4, <1>17, <2>1, <2>2 DEF FindOnTrial
  <2>3. CASE ram' = WithTryUsed(ram, slot')
    <3>1. OneActive(ram') /\ ram'["boot"][slot'].act
      BY <1>2, <1>4, <2>1, <2>3, OneActiveEdits
    <3> QED
      BY <1>4, <1>17, <3>1 DEF FindOnTrial
  <2> QED
    BY <1>17, <2>1, <2>2, <2>3 DEF FindOnTrial
<1>18. CASE FindUnbootable
  BY <1>6, <1>18 DEF FindUnbootable
<1>19. CASE ValidateSlotGuids
  BY <1>4, <1>5, <1>19 DEF ValidateSlotGuids, Fail, Fault
<1>20. CASE MarkPtnActive
  <2>1. slot \in Slots /\ ram["boot"][slot].act
    BY <1>5, <1>20 DEF MarkPtnActive, SlotKnown, SlotLabels
  <2>2. OneActive(WithActiveBits(ram, slot))
    BY <1>2, <1>4, <2>1, OneActiveBits
  <2> QED
    BY <1>4, <1>20, <2>2 DEF MarkPtnActive, FlushThen
<1>21. CASE MarkUnbootable
  <2>1. OneActive(ram')
    BY <1>2, <1>4, <1>21, OneActiveEdits DEF MarkUnbootable
  <2> QED
    BY <1>4, <1>21, <2>1 DEF MarkUnbootable, FlushThen
<1>22. CASE Fallback
  BY <1>6, <1>22 DEF Fallback, Fail
<1>23. CASE ResetSystem
  BY <1>6, <1>23 DEF ResetSystem
<1>24. CASE SetActiveSame
  <2>1. slot \in Slots
    BY <1>5, <1>24 DEF SetActiveSame, SlotKnown, SlotLabels, RepairBootLun,
                       LunSwitched, LunRequestFails, SwitchedLun, Fault
  <2>2. OneActive(ram')
    BY <1>2, <1>24, <2>1, OneActiveSet DEF SetActiveSame, RepairBootLun,
                                           LunSwitched, LunRequestFails,
                                           SwitchedLun, Fault
  <2> QED
    BY <1>4, <1>24, <2>2 DEF SetActiveSame, RepairBootLun, LunSwitched,
                             LunRequestFails, SwitchedLun, Fault
<1>25. CASE SetActiveOther
  <2>1. slot \in Slots
    BY <1>5, <1>25 DEF SetActiveOther, SlotKnown, SlotLabels
  <2> DEFINE w == WithActive(ram, slot, op = "setActive")
  <2>2. w \in Table /\ OneActive(w) /\ w["boot"][slot].act
    BY <1>2, <2>1, OneActiveSet, WithActiveType
  <2>3. ram' = WithTypesSwapped(w)
    BY <1>25 DEF SetActiveOther
  <2> HIDE DEF w
  <2>4. OneActive(ram') /\ ram'["boot"][slot].act
    BY <2>1, <2>2, <2>3, OneActiveSwapped
  <2> QED
    BY <1>4, <1>25, <2>4 DEF SetActiveOther
<1>26. CASE SetBootLun
  BY <1>4, <1>5, <1>26 DEF SetBootLun, LunSwitched, LunRequestFails,
                           SwitchedLun, Fault
<1>27. CASE FinishSetActive
  BY <1>4, <1>27 DEF FinishSetActive, FlushThen
<1>28. CASE ClearUnbootable
  <2>1. OneActive(ram')
    BY <1>2, <1>4, <1>28, OneActiveEdits DEF ClearUnbootable
  <2> QED
    BY <1>4, <1>28, <2>1 DEF ClearUnbootable, FlushThen
<1>29. CASE FastbootUpdateAttr
  <2>1. slot \in Slots
    BY <1>5, <1>29 DEF FastbootUpdateAttr, SlotKnown, SlotLabels
  <2>2. OneActive(ram')
    BY <1>2, <1>4, <1>29, <2>1, OneActiveEdits DEF FastbootUpdateAttr
  <2> QED
    BY <1>4, <1>29, <2>2 DEF FastbootUpdateAttr, FlushThen
<1>30. CASE Call
  BY <1>6, <1>30 DEF Call, Enter
<1>31. CASE VerifyFails
  BY <1>6, <1>31 DEF VerifyFails
<1>32. CASE BootOs
  BY <1>6, <1>32 DEF BootOs
<1>33. CASE BootLinuxReturns
  BY <1>6, <1>33 DEF BootLinuxReturns
<1>34. CASE OsMarkSuccessful
  <2>1. slot \in Slots
    BY <1>5, <1>34 DEF OsMarkSuccessful, SlotKnown, SlotLabels
  <2>2. \A c \in Copies : OneActive(gpt'[c])
    BY <1>2, <1>4, <1>34, <2>1, OneActiveEdits DEF OsMarkSuccessful
  <2> QED
    BY <1>4, <1>34, <2>2 DEF OsMarkSuccessful
<1>35. CASE Reboot
  BY <1>6, <1>35 DEF Reboot
<1>36. CASE PowerCut
  BY <1>6, <1>36 DEF PowerCut, Fault, HalfWritten
<1> QED
  BY <1>7, <1>8, <1>9, <1>10, <1>11, <1>12, <1>13, <1>14, <1>15, <1>16, <1>17,
     <1>18, <1>19, <1>20, <1>21, <1>22, <1>23, <1>24, <1>25, <1>26, <1>27,
     <1>28, <1>29, <1>30, <1>31, <1>32, <1>33, <1>34, <1>35, <1>36
  DEF Next, Loader, Environment, Flush

\* At most one boot slot is active and it has the top priority, in RAM and in
\* both copies on the storage, at every instant: no interleaving of the slot
\* manager's calls with lost writes and power cuts leaves GetActiveSlot a tie.
THEOREM SelectionInvariance == Spec => []SelectionSane
<1>1. Spec => []SelectionInv
  BY SelectionInvInit, SelectionInvNext, PTL DEF Spec
<1>2. SelectionInv => SelectionSane
  BY DEF SelectionInv
<1> QED
  BY <1>1, <1>2, PTL

-----------------------------------------------------------------------------
(* A readable table in every logical unit                                  *)

LEMMA CopiesDiffer == Primary \in Copies /\ Backup \in Copies /\ Primary # Backup
BY DEF Copies, Primary, Backup

\* One broken copy leaves every unit the other one.
LEMMA OneTornReadable ==
  ASSUME \A x, y \in torn : x = y
  PROVE  \A l \in Luns : Readable(l)
BY CopiesDiffer DEF Readable

\* A power cut or a failed request breaks at most one copy and costs a fault;
\* the firmware cures a broken copy before the loader runs, or costs a fault
\* itself.  Only the copy that a failed request breaks stays broken while the
\* loader goes on.
TornInv == TypeInv /\ TornBudget

LEMMA TornInvInit == Init => TornInv
<1> SUFFICES ASSUME Init
             PROVE  TornInv
  OBVIOUS
<1>1. torn = {} /\ faults = 0
  BY DEF Init
<1> QED
  BY <1>1, TypeInvInit DEF TornInv, TornBudget

LEMMA TornInvNext == TornInv /\ [Next]_vars => TornInv'
<1> SUFFICES ASSUME TornInv, [Next]_vars
             PROVE  TornBudget'
  BY TypeInvNext DEF TornInv
<1> USE DEF TornInv, TornBudget, Running, storage
<1>1. faults \in Nat
  BY ManagerAssumption DEF TypeInv, TypeOK
\* Most steps neither break nor cure a copy and do not end the loader's work.
<1>2. ASSUME UNCHANGED <<torn, faults, failed>>, Running' => Running
      PROVE  TornBudget'
  BY <1>2 DEF Readable
<1>3. CASE UNCHANGED vars
  BY <1>2, <1>3 DEF vars
<1>4. CASE PowerUp
  BY <1>2, <1>4 DEF PowerUp
<1>21. (\A x, y \in torn' : x = y) => \A l \in Luns : Readable(l)'
  BY CopiesDiffer DEF Readable
\* A request that fails leaves the copies as they are, or one half written.
<1>22. ASSUME Fault, torn' = torn, Running,
              "table" \in failed => "table" \in failed'
       PROVE  TornBudget'
  <2>1. faults' = faults + 1 /\ faults' # 0
    BY <1>1, <1>22 DEF Fault
  <2>2. faults' = 1 => torn' = {}
    BY <1>1, <1>22, <2>1
  <2>3. faults' = 2 /\ "table" \notin failed' => torn' = {}
    BY <1>1, <1>22, <2>1
  <2> QED
    BY <2>1, <2>2, <2>3, <1>21
<1>5. CASE RestoreCopy
  <2>1. torn' \subseteq torn /\ UNCHANGED <<faults, failed>> /\ ~Running'
    BY <1>5 DEF RestoreCopy
  <2> QED
    BY <2>1 DEF Readable
<1>6. CASE Present
  <2>1. torn' = torn /\ \A l \in Luns : <<l, Primary>> \notin torn'
    BY <1>6 DEF Present
  <2>2. \A l \in Luns : Readable(l)'
    BY <2>1, CopiesDiffer DEF Readable
  <2>3. CASE torn = {} /\ faults' = faults
    BY <2>1, <2>2, <2>3
  <2>4. CASE torn # {} /\ Fault
    <3>1. faults' # 0 /\ faults' # 1
      BY <1>1, <2>4 DEF Fault
    <3> QED
      BY <2>2, <3>1
  <2> QED
    BY <1>6, <2>3, <2>4 DEF Present
<1>7. CASE WriteCopy
  <2>1. torn' \subseteq torn /\ UNCHANGED <<faults, failed>> /\ Running
    BY <1>7 DEF WriteCopy
  <2> QED
    BY <2>1 DEF Readable
<1>8. CASE IoError
  <2>1. CASE UNCHANGED <<torn, failed>>
    BY <1>8, <1>22, <2>1 DEF IoError
  <2>2. CASE HalfWritten /\ failed' = failed \cup {"table"}
    <3>1. torn' = torn \cup {<<at.lun, at.iter>>} /\ "table" \in failed'
      BY <2>2 DEF HalfWritten
    <3>2. faults' = faults + 1 /\ faults' # 0
      BY <1>1, <1>8 DEF IoError, Fault
    <3>3. faults' = 1 => \A x, y \in torn' : x = y
      BY <1>1, <3>1, <3>2
    <3> QED
      BY <3>1, <3>2, <3>3
  <2> QED
    BY <1>8, <2>1, <2>2 DEF IoError
<1>9. CASE PowerCut
  <2>1. faults' = faults + 1 /\ failed' = failed /\ ~Running'
    BY <1>9 DEF PowerCut, Fault
  <2>2. torn' = torn \/ (Running /\ torn' = torn \cup {<<at.lun, at.iter>>})
    BY <1>9 DEF PowerCut, HalfWritten
  <2>3. faults' # 0
    BY <1>1, <2>1
  <2>4. faults' = 1 => \A x, y \in torn' : x = y
    BY <1>1, <2>1, <2>2
  <2>5. faults' = 2 /\ "table" \notin failed' => \A x, y \in torn' : x = y
    BY <1>1, <2>1, <2>2
  <2> QED
    BY <1>21, <2>1, <2>3, <2>4, <2>5
<1>10. CASE DefaultSlot
  BY <1>2, <1>10 DEF DefaultSlot, NeedsActive
<1>11. CASE NoActiveSlot
  BY <1>2, <1>11 DEF NoActiveSlot, NeedsActive
<1>12. CASE Query
  BY <1>2, <1>12 DEF Query
<1>13. CASE FindProven \/ FindOnTrial \/ FindUnbootable
  BY <1>2, <1>13 DEF FindProven, FindOnTrial, FindUnbootable
<1>14. CASE MarkPtnActive
  BY <1>2, <1>14 DEF MarkPtnActive
<1>15. CASE MarkUnbootable \/ Fallback \/ ResetSystem
  BY <1>2, <1>15 DEF MarkUnbootable, Fallback, ResetSystem
<1>16. CASE SetActiveOther \/ FinishSetActive
  BY <1>2, <1>16 DEF SetActiveOther, FinishSetActive
<1>23. CASE SetActiveSame \/ SetBootLun \/ ValidateSlotGuids
  <2>1. Running
    BY <1>23 DEF SetActiveSame, SetBootLun, ValidateSlotGuids
  <2>2. /\ UNCHANGED torn
        /\ ("table" \in failed') = ("table" \in failed)
        /\ faults' = faults \/ Fault
    BY <1>23, LunOutcomes
  <2>3. CASE Fault
    BY <1>22, <2>1, <2>2, <2>3
  <2>4. CASE faults' = faults
    BY <2>1, <2>2, <2>4 DEF Readable
  <2> QED
    BY <2>2, <2>3, <2>4
<1>17. CASE ClearUnbootable \/ FastbootUpdateAttr
  BY <1>2, <1>17 DEF ClearUnbootable, FastbootUpdateAttr
<1>18. CASE Call
  BY <1>2, <1>18 DEF Call, Enter
<1>19. CASE VerifyFails \/ BootOs \/ BootLinuxReturns
  BY <1>2, <1>19 DEF VerifyFails, BootOs, BootLinuxReturns
<1>20. CASE OsMarkSuccessful \/ Reboot
  BY <1>2, <1>20 DEF OsMarkSuccessful, Reboot
<1> QED
  BY <1>3, <1>4, <1>5, <1>6, <1>7, <1>8, <1>9, <1>10, <1>11, <1>12, <1>13,
     <1>14, <1>15, <1>16, <1>17, <1>18, <1>19, <1>20, <1>23
  DEF Next, Loader, Environment, Flush

\* One fault, a failed request that may have written half a copy, a power cut
\* or a failed restoration, leaves every logical unit a copy of its table whose
\* CRC is right, wherever it falls into UpdatePartitionAttributes and into the
\* firmware's repair; and so do two, unless the loader went on after a half
\* written copy.
THEOREM LunReadability == Spec => []LunReadable
<1>1. Spec => []TornInv
  BY TornInvInit, TornInvNext, PTL DEF Spec
<1>2. TornInv => LunReadable
  <2> SUFFICES ASSUME TornInv, faults <= 1 \/ (faults <= 2 /\ "table" \notin failed)
               PROVE  \A l \in Luns : Readable(l)
    BY DEF LunReadable
  <2>1. faults \in Nat
    BY ManagerAssumption DEF TornInv, TypeInv, TypeOK
  <2>2. faults = 0 \/ faults = 1 \/ faults = 2
    BY <2>1
  <2>3. CASE faults = 2
    BY <2>3 DEF TornInv, TornBudget
  <2>4. CASE faults # 2
    <3>1. \A x, y \in torn : x = y
      BY <2>2, <2>4 DEF TornInv, TornBudget
    <3> QED
      BY <3>1, OneTornReadable
  <2> QED
    BY <2>3, <2>4
<1> QED
  BY <1>1, <1>2, PTL

-----------------------------------------------------------------------------
(* The first power cut                                                     *)

LEMMA CursorKinds ==
  ASSUME NEW l
  PROVE  Start # [lun |-> l, iter |-> Backup]
BY DEF Start, Primary, Backup

LEMMA WithLunApply ==
  ASSUME NEW t \in Table, NEW u \in Table, NEW l, NEW p \in Ptns, NEW s \in Slots
  PROVE  WithLun(t, l, u)[p][s] = IF LunOf[p][s] = l THEN u[p][s] ELSE t[p][s]
BY DEF WithLun

\* Before the first fault all CRCs are right and, but for the unit between
\* the writing of its two copies, the copies are equal.
CutInv == TornInv /\ Mirrored

LEMMA CutInvInit == Init => CutInv
<1> SUFFICES ASSUME Init
             PROVE  Mirrored
  BY TornInvInit DEF CutInv
<1>1. gpt[Primary] = gpt[Backup] /\ pc = "off"
  BY CopiesDiffer DEF Init
<1> QED
  BY <1>1 DEF Mirrored, SameOn

LEMMA CutInvNext == CutInv /\ [Next]_vars => CutInv'
<1> SUFFICES ASSUME CutInv, [Next]_vars
             PROVE  Mirrored'
  BY TornInvNext DEF CutInv
<1>1. TypeInv /\ TypeInv'
  BY TypeInvNext DEF CutInv, TornInv
<1>2. /\ faults \in Nat /\ ram \in Table /\ gpt \in [Copies -> Table]
      /\ at \in [lun : Luns, iter : Copies]
  BY <1>1, ManagerAssumption DEF TypeInv, TypeOK
<1>3. gpt[Primary] \in Table /\ gpt[Backup] \in Table
  BY <1>2, CopiesDiffer
<1>4. faults = 0 => torn = {}
  BY DEF CutInv, TornInv, TornBudget
<1> USE DEF CutInv, storage
\* Most steps leave the storage alone and are not between two copies.
<1>5. ASSUME UNCHANGED <<gpt, faults>>, pc # "flush",
             pc' # "flush" \/ at' = Start
      PROVE  Mirrored'
  BY <1>5, CursorKinds DEF Mirrored, SameOn
<1>6. CASE UNCHANGED vars
  BY <1>6 DEF vars, Mirrored, SameOn
<1>7. CASE PowerUp
  BY <1>5, <1>7 DEF PowerUp
<1>8. CASE RestoreCopy
  BY <1>4, <1>8 DEF RestoreCopy, Mirrored
<1>9. CASE Present
  <2>1. CASE faults' = faults
    BY <1>5, <1>9, <2>1 DEF Present, Fault
  <2>2. CASE faults' = faults + 1
    BY <1>2, <2>2 DEF Mirrored
  <2> QED
    BY <1>9, <2>1, <2>2 DEF Present, Fault
<1>10. CASE WriteCopy
  <2> SUFFICES ASSUME faults' = 0, NEW l \in Luns
               PROVE  IF pc' = "flush" /\ at' = [lun |-> l, iter |-> Backup]
                      THEN SameOn(l, gpt'[Primary], ram')
                      ELSE SameOn(l, gpt'[Primary], gpt'[Backup])
    BY DEF Mirrored, SameOn
  <2>1. /\ faults = 0 /\ pc = "flush" /\ ram' = ram
        /\ gpt' = [gpt EXCEPT ![at.iter] = WithLun(@, at.lun, ram)]
    BY <1>10 DEF WriteCopy
  <2>2. IF at = [lun |-> l, iter |-> Backup]
        THEN SameOn(l, gpt[Primary], ram)
        ELSE SameOn(l, gpt[Primary], gpt[Backup])
    BY <2>1 DEF Mirrored
  <2>3. CASE at.iter = Primary
    <3>1. /\ gpt'[Primary] = WithLun(gpt[Primary], at.lun, ram)
          /\ gpt'[Backup] = gpt[Backup]
      BY <1>2, <2>1, <2>3, CopiesDiffer
    <3>2. pc' = "flush" /\ at' = [lun |-> at.lun, iter |-> Backup]
      BY <1>2, <1>10, <2>1, <2>3 DEF WriteCopy
    <3>3. CASE l = at.lun
      BY <1>2, <1>3, <2>1, <3>1, <3>2, <3>3, WithLunApply DEF SameOn
    <3>4. CASE l # at.lun
      <4>1. SameOn(l, gpt[Primary], gpt[Backup])
        BY <2>2, <3>4
      <4> QED
        BY <1>2, <1>3, <3>1, <3>2, <3>4, <4>1, WithLunApply DEF SameOn
    <3> QED
      BY <3>3, <3>4
  <2>4. CASE at.iter = Backup
    <3>1. /\ gpt'[Backup] = WithLun(gpt[Backup], at.lun, ram)
          /\ gpt'[Primary] = gpt[Primary]
      BY <1>2, <2>1, <2>4, CopiesDiffer
    <3>2. at' # [lun |-> l, iter |-> Backup]
      BY <1>10, <2>4, CursorKinds, CopiesDiffer DEF WriteCopy
    <3>3. CASE l = at.lun
      <4>1. SameOn(l, gpt[Primary], ram)
        BY <1>2, <2>2, <2>4, <3>3
      <4> QED
        BY <1>2, <1>3, <3>1, <3>2, <3>3, <4>1, WithLunApply DEF SameOn
    <3>4. CASE l # at.lun
      <4>1. SameOn(l, gpt[Primary], gpt[Backup])
        BY <2>2, <3>4
      <4> QED
        BY <1>2, <1>3, <3>1, <3>2, <3>4, <4>1, WithLunApply DEF SameOn
    <3> QED
      BY <3>3, <3>4
  <2> QED
    BY <1>2, <2>3, <2>4 DEF Copies
<1>11. CASE IoError \/ PowerCut
  <2>1. faults' = faults + 1
    BY <1>11 DEF IoError, PowerCut, Fault, HalfWritten
  <2> QED
    BY <1>2, <2>1 DEF Mirrored
<1>12. CASE OsMarkSuccessful
  <2> SUFFICES ASSUME faults' = 0, NEW l \in Luns
               PROVE  SameOn(l, gpt'[Primary], gpt'[Backup])
    BY <1>12 DEF Mirrored, SameOn, OsMarkSuccessful
  <2>1. SameOn(l, gpt[Primary], gpt[Backup])
    BY <1>12 DEF Mirrored, OsMarkSuccessful
  <2>2. slot \in Slots
    BY <1>1, <1>12 DEF OsMarkSuccessful, TypeInv, SlotKnown, Ahead, SlotLabels
  <2> DEFINE Marked(t) ==
               UpdBoot(t, slot, [t["boot"][slot] EXCEPT !.suc = TRUE])
  <2>3. gpt'[Primary] = Marked(gpt[Primary]) /\ gpt'[Backup] = Marked(gpt[Backup])
    BY <1>12, CopiesDiffer DEF OsMarkSuccessful
  <2>4. ASSUME NEW t \in Table, NEW p \in Ptns, NEW s \in Slots
        PROVE  Marked(t)[p][s] = IF p = "boot" /\ s = slot
                                 THEN [t[p][s] EXCEPT !.suc = TRUE] ELSE t[p][s]
    BY <2>2, BootIsPtn DEF UpdBoot, Table
  <2> HIDE DEF Marked
  <2>5. ASSUME NEW p \in Ptns, NEW s \in Slots, LunOf[p][s] = l
        PROVE  Marked(gpt[Primary])[p][s] = Marked(gpt[Backup])[p][s]
    <3>1. gpt[Primary][p][s] = gpt[Backup][p][s]
      BY <2>1, <2>5 DEF SameOn
    <3>2. Marked(gpt[Primary])[p][s] =
            IF p = "boot" /\ s = slot
            THEN [gpt[Primary][p][s] EXCEPT !.suc = TRUE] ELSE gpt[Primary][p][s]
      BY <1>3, <2>4
    <3>3. Marked(gpt[Backup])[p][s] =
            IF p = "boot" /\ s = slot
            THEN [gpt[Backup][p][s] EXCEPT !.suc = TRUE] ELSE gpt[Backup][p][s]
      BY <1>3, <2>4
    <3> QED
      BY <3>1, <3>2, <3>3
  <2> QED
    BY <2>3, <2>5 DEF SameOn
<1>13. CASE DefaultSlot
  BY <1>5, <1>13 DEF DefaultSlot, FlushThen, NeedsActive
<1>14. CASE NoActiveSlot
  BY <1>5, <1>14 DEF NoActiveSlot, Fail, NeedsActive
<1>15. CASE Query \/ FindProven \/ FindUnbootable
  BY <1>5, <1>15 DEF Query, FindProven, FindUnbootable
<1>16. CASE FindOnTrial
  BY <1>5, <1>16 DEF FindOnTrial, FlushThen
<1>17. CASE SetActiveSame \/ SetBootLun \/ ValidateSlotGuids
  <2>1. pc # "flush" /\ pc' # "flush"
    BY <1>17 DEF SetActiveSame, SetBootLun, ValidateSlotGuids, Fail
  <2>2. CASE faults' = faults
    BY <1>5, <1>17, <2>1, <2>2, LunOutcomes
  <2>3. CASE Fault
    BY <1>2, <2>3 DEF Mirrored, Fault
  <2> QED
    BY <1>17, <2>2, <2>3, LunOutcomes
<1>18. CASE MarkPtnActive
  BY <1>5, <1>18 DEF MarkPtnActive, FlushThen
<1>19. CASE MarkUnbootable
  BY <1>5, <1>19 DEF MarkUnbootable, FlushThen
<1>20. CASE Fallback
  BY <1>5, <1>20 DEF Fallback, Fail
<1>21. CASE ResetSystem
  BY <1>5, <1>21 DEF ResetSystem
<1>22. CASE SetActiveOther
  BY <1>5, <1>22 DEF SetActiveOther
<1>23. CASE FinishSetActive
  BY <1>5, <1>23 DEF FinishSetActive, FlushThen
<1>24. CASE ClearUnbootable \/ FastbootUpdateAttr
  BY <1>5, <1>24 DEF ClearUnbootable, FastbootUpdateAttr, FlushThen
<1>25. CASE Call
  BY <1>5, <1>25 DEF Call, Enter
<1>26. CASE VerifyFails \/ BootOs \/ BootLinuxReturns
  BY <1>5, <1>26 DEF VerifyFails, BootOs, BootLinuxReturns
<1>27. CASE Reboot
  BY <1>5, <1>27 DEF Reboot
<1> QED
  BY <1>6, <1>7, <1>8, <1>9, <1>10, <1>11, <1>12, <1>13, <1>14, <1>15, <1>16,
     <1>17, <1>18, <1>19, <1>20, <1>21, <1>22, <1>23, <1>24, <1>25, <1>26, <1>27
  DEF Next, Loader, Environment, Flush

\* Before the first fault, blocks written of one copy do not show.
LEMMA HalfWrittenView ==
  ASSUME CutInv, faults = 0, gpt' = gpt, torn' = torn \/ HalfWritten
  PROVE  View' = View
<1>1. torn = {} /\ gpt' = gpt
  BY DEF CutInv, TornInv, TornBudget
<1>2. at \in [lun : Luns, iter : Copies]
  BY DEF CutInv, TornInv, TypeInv, TypeOK
<1>3. torn' = torn \/ (pc = "flush" /\ torn' = {<<at.lun, at.iter>>})
  BY <1>1 DEF HalfWritten
<1>4. ASSUME NEW p \in Ptns, NEW s \in Slots, <<LunOf[p][s], Primary>> \in torn'
      PROVE  gpt[Backup][p][s] = gpt[Primary][p][s]
  <2>1. pc = "flush" /\ at.lun = LunOf[p][s] /\ at.iter = Primary
    BY <1>1, <1>3, <1>4
  <2>2. at # [lun |-> at.lun, iter |-> Backup] /\ at.lun \in Luns
    BY <1>2, <2>1, CopiesDiffer
  <2>3. SameOn(at.lun, gpt[Primary], gpt[Backup])
    BY <2>1, <2>2 DEF CutInv, Mirrored
  <2> QED
    BY <2>1, <2>3 DEF SameOn
<1>5. View = [p \in Ptns |-> [s \in Slots |-> gpt[Primary][p][s]]]
  BY <1>1 DEF View, Presented
<1>6. View' = [p \in Ptns |-> [s \in Slots |->
                 IF <<LunOf[p][s], Primary>> \in torn'
                 THEN gpt[Backup][p][s] ELSE gpt[Primary][p][s]]]
  BY <1>1 DEF View, Presented
<1>7. \A p \in Ptns : [s \in Slots |->
        IF <<LunOf[p][s], Primary>> \in torn'
        THEN gpt[Backup][p][s] ELSE gpt[Primary][p][s]]
      = [s \in Slots |-> gpt[Primary][p][s]]
  BY <1>4
<1> QED
  BY <1>5, <1>6, <1>7

LEMMA CutStep == CutInv /\ PowerCut /\ faults = 0 => View' = View
BY HalfWrittenView DEF PowerCut

\* The first power cut of a device, at whatever write of whatever call it
\* comes, makes the firmware present the tables that were complete before it.
THEOREM CutSafety == Spec => CutKeepsTable
<1>1. CutInv /\ [Next]_vars => [(PowerCut /\ faults = 0) => View' = View]_vars
  BY CutStep
<1>2. Spec => [][(PowerCut /\ faults = 0) => View' = View]_vars
  BY <1>1, CutInvInit, CutInvNext, PTL DEF Spec
<1> QED
  BY <1>2 DEF CutKeepsTable

-----------------------------------------------------------------------------
(* The table in RAM and the storage                                        *)

\* Labels at which no change of the table in RAM waits to be written
Settled == {"idle", "query", "find", "validate", "markFound", "found", "clear",
            "unbootable", "fallback", "setActive", "trail", "flashAttr", "reset"}

\* Before the first fault the table in RAM is on the storage at these labels,
\* and UpdatePartitionAttributes has written the units before Lun.
Cached ==
  faults = 0 =>
    /\ pc \in Settled => \A c \in Copies : gpt[c] = ram
    /\ pc = "flush" =>
         /\ ret \in Settled \cup {"setDone"}
         /\ \A p \in Ptns, s \in Slots :
              LunOf[p][s] < at.lun => gpt[Backup][p][s] = ram[p][s]

CacheInv == CutInv /\ Cached

LEMMA SettledKinds ==
  /\ {"off", "firmware", "os", "setLun", "markSet", "setDone", "flush"} \cap Settled = {}
  /\ "setDone" # "flush" /\ "flush" \notin Settled
BY DEF Settled

LEMMA TableEqual ==
  ASSUME NEW t \in Table, NEW u \in Table,
         \A p \in Ptns, s \in Slots : t[p][s] = u[p][s]
  PROVE  t = u
<1>1. \A p \in Ptns : t[p] = u[p]
  <2> TAKE p \in Ptns
  <2>1. t[p] \in [Slots -> Entry] /\ u[p] \in [Slots -> Entry]
    BY DEF Table
  <2> QED
    BY <2>1
<1> QED
  BY <1>1 DEF Table

LEMMA LunInLuns ==
  ASSUME NEW p \in Ptns, NEW s \in Slots
  PROVE  LunOf[p][s] \in Luns /\ LunOf[p][s] \in Int /\ LunOf[p][s] >= 0
                /\ LunOf[p][s] <= MaxLuns - 1
BY TableAssumption DEF Luns

LEMMA CopiesEqual ==
  ASSUME CutInv, faults = 0, pc # "flush"
  PROVE  gpt[Primary] = gpt[Backup]
<1>1. gpt[Primary] \in Table /\ gpt[Backup] \in Table
  BY CopiesDiffer DEF CutInv, TornInv, TypeInv, TypeOK
<1>2. \A l \in Luns : SameOn(l, gpt[Primary], gpt[Backup])
  BY DEF CutInv, Mirrored
<1>3. \A p \in Ptns, s \in Slots : gpt[Primary][p][s] = gpt[Backup][p][s]
  BY <1>2, LunInLuns DEF SameOn
<1> QED
  BY <1>1, <1>3, TableEqual

\* The firmware presents the primary copies if all CRCs are right.
LEMMA ViewIntact ==
  ASSUME TypeOK, torn = {}
  PROVE  View = gpt[Primary]
<1>1. gpt[Primary] \in Table
  BY CopiesDiffer DEF TypeOK
<1>2. View \in Table
  BY ViewType
<1>3. \A p \in Ptns, s \in Slots : View[p][s] = gpt[Primary][p][s]
  BY DEF View, Presented
<1> QED
  BY <1>1, <1>2, <1>3, TableEqual

LEMMA CacheInvInit == Init => CacheInv
<1> SUFFICES ASSUME Init
             PROVE  Cached
  BY CutInvInit DEF CacheInv
<1>1. pc = "off"
  BY DEF Init
<1> QED
  BY <1>1, SettledKinds DEF Cached

LEMMA CacheInvNext == CacheInv /\ [Next]_vars => CacheInv'
<1> SUFFICES ASSUME CacheInv, [Next]_vars
             PROVE  Cached'
  BY CutInvNext DEF CacheInv
<1>1. TypeOK /\ TypeOK' /\ CutInv /\ CutInv'
  BY CutInvNext DEF CacheInv, CutInv, TornInv, TypeInv
<1>2. /\ faults \in Nat /\ ram \in Table /\ ram' \in Table
      /\ at \in [lun : Luns, iter : Copies]
      /\ gpt[Primary] \in Table /\ gpt[Backup] \in Table
      /\ gpt'[Primary] \in Table /\ gpt'[Backup] \in Table
  BY <1>1, ManagerAssumption, CopiesDiffer DEF TypeOK
<1>3. faults = 0 => torn = {}
  BY <1>1 DEF CutInv, TornInv, TornBudget
<1> USE DEF CacheInv, storage
\* A step that leaves the tables alone and does not begin to write ...
<1>4. ASSUME UNCHANGED <<ram, gpt, faults>>, pc' # "flush",
             pc \in Settled \/ pc' \notin Settled
      PROVE  Cached'
  BY <1>4 DEF Cached
\* ... and one that begins to write them.
<1>5. ASSUME pc' = "flush", at' = Start, ret' \in Settled \cup {"setDone"}
      PROVE  Cached'
  BY <1>5, LunInLuns, SettledKinds DEF Cached, Start
<1>28. ASSUME Fault
       PROVE  Cached'
  BY <1>2, <1>28 DEF Fault, Cached
<1>6. CASE UNCHANGED vars
  BY <1>6 DEF vars, Cached
<1>7. CASE PowerUp \/ ResetSystem \/ Reboot \/ PowerCut
  <2>1. CASE PowerCut
    BY <1>2, <2>1 DEF PowerCut, Cached, Fault, HalfWritten
  <2>2. CASE PowerUp \/ ResetSystem \/ Reboot
    BY <1>4, <2>2 DEF PowerUp, ResetSystem, Reboot, Settled
  <2> QED
    BY <1>7, <2>1, <2>2
<1>8. CASE RestoreCopy
  BY <1>3, <1>8 DEF RestoreCopy, Cached
<1>9. CASE Present
  <2> SUFFICES ASSUME faults' = 0
               PROVE  \A c \in Copies : gpt'[c] = ram'
    BY <1>9, SettledKinds DEF Present, Cached, Fault
  <2>1. faults = 0 /\ torn = {} /\ ram' = View /\ gpt' = gpt /\ pc = "firmware"
    BY <1>2, <1>3, <1>9 DEF Present, Fault
  <2>2. gpt[Primary] = gpt[Backup]
    BY <1>1, <2>1, CopiesEqual
  <2> QED
    BY <1>1, <2>1, <2>2, ViewIntact DEF Copies
<1>10. CASE WriteCopy
  <2> SUFFICES ASSUME faults' = 0
               PROVE  Cached'
    BY DEF Cached
  <2>1. /\ faults = 0 /\ pc = "flush" /\ ram' = ram /\ ret' = ret
        /\ gpt' = [gpt EXCEPT ![at.iter] = WithLun(@, at.lun, ram)]
    BY <1>10 DEF WriteCopy
  <2>2. /\ ret \in Settled \cup {"setDone"}
        /\ \A p \in Ptns, s \in Slots :
             LunOf[p][s] < at.lun => gpt[Backup][p][s] = ram[p][s]
    BY <2>1 DEF Cached
  <2>3. CASE at.iter = Primary
    <3>1. gpt'[Backup] = gpt[Backup]
      BY <1>1, <2>1, <2>3, CopiesDiffer DEF TypeOK
    <3>2. pc' = "flush" /\ at' = [at EXCEPT !.iter = Backup]
      BY <1>10, <2>1, <2>3 DEF WriteCopy
    <3>3. at'.lun = at.lun
      BY <1>2, <3>2
    <3> QED
      BY <2>1, <2>2, <3>1, <3>2, <3>3, SettledKinds DEF Cached
  <2>4. CASE at.iter = Backup
    <3>1. gpt'[Backup] = WithLun(gpt[Backup], at.lun, ram)
      BY <1>1, <2>1, <2>4, CopiesDiffer DEF TypeOK
    <3>2. ASSUME NEW p \in Ptns, NEW s \in Slots, LunOf[p][s] <= at.lun
          PROVE  gpt'[Backup][p][s] = ram[p][s]
      <4>1. gpt'[Backup][p][s] =
              IF LunOf[p][s] = at.lun THEN ram[p][s] ELSE gpt[Backup][p][s]
        BY <1>2, <3>1, WithLunApply
      <4>2. CASE LunOf[p][s] = at.lun
        BY <4>1, <4>2
      <4>3. CASE LunOf[p][s] # at.lun
        <5>1. LunOf[p][s] < at.lun
          BY <1>2, <3>2, <4>3, LunInLuns DEF Luns
        <5> QED
          BY <2>2, <4>1, <4>3, <5>1
      <4> QED
        BY <4>2, <4>3
    <3>3. CASE at.lun + 1 < MaxLuns
      <4>1. pc' = "flush" /\ at'.lun = at.lun + 1
        BY <1>10, <2>1, <2>4, <3>3, CopiesDiffer DEF WriteCopy
      <4>2. ASSUME NEW p \in Ptns, NEW s \in Slots, LunOf[p][s] < at'.lun
            PROVE  gpt'[Backup][p][s] = ram'[p][s]
        <5>1. LunOf[p][s] <= at.lun
          BY <1>2, <4>1, <4>2, LunInLuns DEF Luns
        <5> QED
          BY <2>1, <3>2, <5>1
      <4> QED
        BY <2>1, <2>2, <4>1, <4>2, SettledKinds DEF Cached
    <3>4. CASE ~(at.lun + 1 < MaxLuns)
      <4>1. pc' = ret
        BY <1>10, <2>1, <2>4, <3>4, CopiesDiffer DEF WriteCopy
      <4>2. \A p \in Ptns, s \in Slots : LunOf[p][s] <= at.lun
        BY <1>2, <3>4, LunInLuns, TableAssumption DEF Luns
      <4>3. gpt'[Backup] = ram
        BY <1>2, <3>2, <4>2, TableEqual
      <4>4. pc' # "flush"
        BY <2>2, <4>1, SettledKinds
      <4>5. gpt'[Primary] = gpt'[Backup]
        <5>1. \A l \in Luns : SameOn(l, gpt'[Primary], gpt'[Backup])
          BY <1>1, <4>4 DEF CutInv, Mirrored, SameOn
        <5>2. \A p \in Ptns, s \in Slots : gpt'[Primary][p][s] = gpt'[Backup][p][s]
          BY <5>1, LunInLuns DEF SameOn
        <5> QED
          BY <1>2, <5>2, TableEqual
      <4> QED
        BY <2>1, <4>3, <4>4, <4>5 DEF Cached, Copies
    <3> QED
      BY <3>3, <3>4
  <2> QED
    BY <1>2, <2>3, <2>4 DEF Copies
<1>11. CASE IoError
  BY <1>2, <1>11 DEF IoError, Cached, Fault, HalfWritten
<1>12. CASE OsMarkSuccessful
  BY <1>12, SettledKinds DEF OsMarkSuccessful, Cached
<1>13. CASE DefaultSlot
  BY <1>5, <1>13 DEF DefaultSlot, FlushThen, NeedsActive, Settled
<1>14. CASE NoActiveSlot \/ Query
  BY <1>4, <1>14 DEF NoActiveSlot, Fail, NeedsActive, Query, Settled
<1>15. CASE FindProven \/ FindUnbootable
  BY <1>4, <1>15 DEF FindProven, FindUnbootable, Settled
<1>16. CASE FindOnTrial
  BY <1>4, <1>5, <1>16 DEF FindOnTrial, FlushThen, Settled
<1>17. CASE ValidateSlotGuids
  <2>1. CASE Fault
    BY <1>28, <2>1
  <2>2. CASE faults' = faults
    BY <1>4, <1>17, <2>2 DEF ValidateSlotGuids, Fail, Settled
  <2> QED
    BY <1>17, <2>1, <2>2, LunOutcomes
<1>18. CASE MarkPtnActive
  BY <1>5, <1>18 DEF MarkPtnActive, FlushThen, Settled
<1>19. CASE MarkUnbootable
  BY <1>4, <1>5, <1>19 DEF MarkUnbootable, FlushThen, Settled
<1>20. CASE Fallback
  BY <1>4, <1>20 DEF Fallback, Fail, Settled
<1>21. CASE SetActiveSame
  <2>1. CASE Fault
    BY <1>28, <2>1
  <2>2. CASE faults' = faults
    BY <1>21, <2>2, SettledKinds DEF SetActiveSame, Cached
  <2> QED
    BY <1>21, <2>1, <2>2, LunOutcomes
<1>22. CASE SetActiveOther
  BY <1>22, SettledKinds DEF SetActiveOther, Cached
<1>23. CASE SetBootLun
  <2>1. CASE Fault
    BY <1>28, <2>1
  <2>2. CASE faults' = faults
    BY <1>4, <1>23, <2>2, SettledKinds DEF SetBootLun
  <2> QED
    BY <1>23, <2>1, <2>2, LunOutcomes
<1>24. CASE FinishSetActive
  BY <1>5, <1>24 DEF FinishSetActive, FlushThen, Settled
<1>25. CASE ClearUnbootable \/ FastbootUpdateAttr
  BY <1>5, <1>25 DEF ClearUnbootable, FastbootUpdateAttr, FlushThen, Settled
<1>26. CASE Call
  BY <1>4, <1>26 DEF Call, Enter, Settled
<1>27. CASE VerifyFails \/ BootOs \/ BootLinuxReturns
  BY <1>4, <1>27 DEF VerifyFails, BootOs, BootLinuxReturns, Settled
<1> QED
  BY <1>6, <1>7, <1>8, <1>9, <1>10, <1>11, <1>12, <1>13, <1>14, <1>15, <1>16,
     <1>17, <1>18, <1>19, <1>20, <1>21, <1>22, <1>23, <1>24, <1>25, <1>26, <1>27
  DEF Next, Loader, Environment, Flush

\* Whenever the loader waits for a command or hands over and no write was lost,
\* both copies of every table on the storage are the table in RAM: no entry
\* point forgets the write that follows its last change.
THEOREM CacheInvariance == Spec => []CacheCurrent
<1>1. Spec => []CacheInv
  BY CacheInvInit, CacheInvNext, PTL DEF Spec
<1>2. CacheInv => CacheCurrent
  BY DEF CacheInv, Cached, CacheCurrent, Settled
<1> QED
  BY <1>1, <1>2, PTL

-----------------------------------------------------------------------------
(* What a set_active leaves behind                                         *)

\* The labels of set_active after SetActiveSlot changed the attributes
SetLabels == {"markSet", "setDone", "trail", "idle"}

ArmedFor(t, s) ==
  /\ t["boot"][s].act /\ t["boot"][s].pri = MaxPriority
  /\ t["boot"][s].ret = MaxRetry
  /\ ~t["boot"][s].unb /\ ~t["boot"][s].suc
  /\ ~t["boot"][OtherSlot(s)].act

\* The boot logical unit after UfsGetSetBootLun
LunDone(b, f, s) == (IsUfs /\ "lun" \notin f /\ b # 0) => b = LunFor(s)

SetEstablished ==
  op = "setActive" =>
    /\ Ahead(SetLabels \cup {"setActive", "setLun"})
    /\ slot \in Slots
    /\ Ahead(SetLabels \cup {"setLun"}) => ArmedFor(ram, slot)
    /\ Ahead(SetLabels) => LunDone(bootLun, failed, slot)

SetInv == TypeInv /\ SetEstablished

LEMMA OtherSlotDiffers ==
  ASSUME NEW s \in Slots
  PROVE  /\ OtherSlot(s) \in Slots /\ OtherSlot(s) # s /\ Slots = {s, OtherSlot(s)}
         /\ OtherSlot(OtherSlot(s)) = s
         /\ s # NoSlot
BY DEF OtherSlot, Slots, NoSlot

\* The entries of the two boot slots after SetActiveSlot changed them
LEMMA WithActiveApply ==
  ASSUME NEW t \in Table, NEW s \in Slots, NEW r \in BOOLEAN
  PROVE  LET w == WithActive(t, s, r)
             o == OtherSlot(s)
         IN  /\ w["boot"][s].act /\ w["boot"][s].pri = MaxPriority
             /\ w["boot"][s].ret = MaxRetry
             /\ ~w["boot"][s].unb
             /\ w["boot"][s].suc => ~r
             /\ ~w["boot"][o].act
             /\ \A p \in Ptns, x \in Slots : w[p][x].type = t[p][x].type
<1> DEFINE o == OtherSlot(s)
           new == [t["boot"][s] EXCEPT
                     !.pri = MaxPriority, !.act = TRUE, !.ret = MaxRetry,
                     !.unb = FALSE, !.suc = @ /\ ~r]
           old == [t["boot"][o] EXCEPT
                     !.pri = MaxPriority - 1, !.act = FALSE]
           w == WithActive(t, s, r)
<1>1. o \in Slots /\ o # s /\ Slots = {s, o}
  BY OtherSlotDiffers
<1>2. t["boot"][s] \in Entry /\ t["boot"][o] \in Entry
  BY <1>1, BootEntryType
<1>3. /\ new.act /\ new.pri = MaxPriority /\ new.ret = MaxRetry /\ ~new.unb
      /\ new.suc => ~r
      /\ ~old.act
  BY <1>2 DEF Entry
<1>4. new.type = t["boot"][s].type /\ old.type = t["boot"][o].type
  BY <1>2 DEF Entry
<1>5. w = [t EXCEPT !["boot"] = [[@ EXCEPT ![s] = new] EXCEPT ![o] = old]]
  BY BootIsPtn DEF WithActive, UpdBoot, Table
<1> HIDE DEF new, old, w, o
<1>6. w["boot"][s] = new /\ w["boot"][o] = old
  BY <1>1, <1>5, BootIsPtn DEF Table
<1>7. \A p \in Ptns, x \in Slots : p # "boot" => w[p][x] = t[p][x]
  BY <1>5, BootIsPtn DEF Table
<1>8. \A p \in Ptns, x \in Slots : w[p][x].type = t[p][x].type
  BY <1>1, <1>4, <1>6, <1>7
<1> QED
  BY <1>3, <1>6, <1>8 DEF w, o

\* What exchanging the type GUIDs and moving the active bits keep
LEMMA WithTypesSwappedApply ==
  ASSUME NEW t \in Table, NEW p \in Ptns, NEW s \in Slots
  PROVE  LET e == WithTypesSwapped(t)[p][s] IN
           /\ e.type = t[p][OtherSlot(s)].type
           /\ e.act = t[p][s].act /\ e.pri = t[p][s].pri /\ e.ret = t[p][s].ret
           /\ e.suc = t[p][s].suc /\ e.unb = t[p][s].unb
<1>1. t[p][s] \in Entry
  BY TableApply
<1>2. WithTypesSwapped(t)[p][s] = [t[p][s] EXCEPT !.type = t[p][OtherSlot(s)].type]
  BY DEF WithTypesSwapped
<1> QED
  BY <1>1, <1>2 DEF Entry

LEMMA WithActiveBitsApply ==
  ASSUME NEW t \in Table, NEW p \in Ptns, NEW s \in Slots, NEW x \in Slots
  PROVE  LET e == WithActiveBits(t, s)[p][x] IN
           /\ e.act = (x = s)
           /\ e.type = t[p][x].type /\ e.pri = t[p][x].pri /\ e.ret = t[p][x].ret
           /\ e.suc = t[p][x].suc /\ e.unb = t[p][x].unb
<1>1. t[p][x] \in Entry
  BY TableApply
<1>2. WithActiveBits(t, s)[p][x] = [t[p][x] EXCEPT !.act = (x = s)]
  BY DEF WithActiveBits
<1> QED
  BY <1>1, <1>2 DEF Entry

LEMMA SetInvInit == Init => SetInv
<1> SUFFICES ASSUME Init
             PROVE  SetEstablished
  BY TypeInvInit DEF SetInv
<1> QED
  BY DEF Init, SetEstablished

LEMMA SetInvNext == SetInv /\ [Next]_vars => SetInv'
<1> SUFFICES ASSUME SetInv, [Next]_vars
             PROVE  SetEstablished'
  BY TypeInvNext DEF SetInv
<1>1. TypeInv /\ ram \in Table
  BY DEF SetInv, TypeInv, TypeOK
<1> USE DEF SetInv, storage
<1> DEFINE Kept == SetLabels \cup {"setActive", "setLun"}
\* A call of another entry point, and a failure, end the claim of set_active.
<1>2. ASSUME op' # "setActive"
      PROVE  SetEstablished'
  BY <1>2 DEF SetEstablished
\* Other labels belong to other entry points.
<1>3. ASSUME op' = op, ~Ahead(Kept)
      PROVE  SetEstablished'
  BY <1>3 DEF SetEstablished
<1>4. CASE UNCHANGED vars
  BY <1>4 DEF vars, SetEstablished, Ahead, ArmedFor, OtherSlot, LunDone
<1>5. CASE PowerUp \/ RestoreCopy
  BY <1>3, <1>5 DEF PowerUp, RestoreCopy, Ahead, SetLabels
<1>6. CASE Present \/ ResetSystem \/ Reboot \/ PowerCut
  BY <1>2, <1>6 DEF Present, ResetSystem, Reboot, PowerCut, Fault, HalfWritten
<1>7. CASE WriteCopy \/ IoError
  <2>1. /\ pc = "flush" /\ UNCHANGED <<ram, bootLun, ret, op, slot>>
        /\ ("lun" \in failed') = ("lun" \in failed)
    BY <1>7 DEF WriteCopy, IoError
  <2>2. pc' = "flush" \/ pc' = ret
    BY <1>7, <2>1 DEF WriteCopy, IoError
  <2>3. "flush" \notin SetLabels /\ "flush" \notin {"setActive", "setLun"}
    BY DEF SetLabels
  <2>4. \A S : "flush" \notin S => (Ahead(S)' <=> ret \in S) /\ (Ahead(S) <=> ret \in S)
    BY <2>1, <2>2 DEF Ahead
  <2> QED
    BY <2>1, <2>2, <2>3 DEF SetEstablished, Ahead, ArmedFor, OtherSlot, LunDone
<1>8. CASE DefaultSlot
  <2>1. CASE pc = "setActive"
    BY <1>8, <2>1 DEF DefaultSlot, FlushThen, SetEstablished, Ahead, SetLabels,
                      LunDone
  <2>2. CASE pc # "setActive"
    BY <1>3, <1>8, <2>2 DEF DefaultSlot, NeedsActive, Ahead, SetLabels
  <2> QED
    BY <2>1, <2>2
<1>9. CASE NoActiveSlot
  <2>1. CASE pc = "query"
    BY <1>3, <1>9, <2>1 DEF NoActiveSlot, Fail, Ahead, SetLabels
  <2>2. CASE pc # "query"
    BY <1>2, <1>9, <2>2 DEF NoActiveSlot, Fail
  <2> QED
    BY <2>1, <2>2
<1>10. CASE Query \/ FindProven \/ FindOnTrial \/ FindUnbootable
  BY <1>3, <1>10 DEF Query, FindProven, FindOnTrial, FindUnbootable, Ahead, SetLabels
<1>11. CASE ValidateSlotGuids
  BY <1>2, <1>3, <1>11 DEF ValidateSlotGuids, Fail, Ahead, SetLabels, Fault
<1>12. CASE MarkPtnActive
  <2>1. CASE pc = "markFound"
    BY <1>3, <1>12, <2>1 DEF MarkPtnActive, Ahead, SetLabels
  <2>2. CASE pc = "markSet"
    <3> SUFFICES ASSUME op = "setActive"
                 PROVE  SetEstablished'
      BY <1>2, <1>12 DEF MarkPtnActive
    <3>1. /\ UNCHANGED <<bootLun, failed, op, slot>>
          /\ ram' = WithActiveBits(ram, slot)
          /\ pc' = "flush" /\ ret' = "setDone"
      BY <1>12, <2>2 DEF MarkPtnActive, FlushThen
    <3>2. slot \in Slots /\ ArmedFor(ram, slot) /\ LunDone(bootLun, failed, slot)
      BY <2>2 DEF SetEstablished, Ahead, SetLabels
    <3>3. OtherSlot(slot) \in Slots /\ OtherSlot(slot) # slot
      BY <3>2, OtherSlotDiffers
    <3>4. ArmedFor(ram', slot)
      <4> DEFINE w == WithActiveBits(ram, slot)
      <4>1. /\ w["boot"][slot].act = (slot = slot)
            /\ w["boot"][slot].pri = ram["boot"][slot].pri
            /\ w["boot"][slot].ret = ram["boot"][slot].ret
            /\ w["boot"][slot].suc = ram["boot"][slot].suc
            /\ w["boot"][slot].unb = ram["boot"][slot].unb
        BY <1>1, <3>2, BootIsPtn, WithActiveBitsApply
      <4>2. w["boot"][OtherSlot(slot)].act = (OtherSlot(slot) = slot)
        BY <1>1, <3>2, <3>3, BootIsPtn, WithActiveBitsApply
      <4> HIDE DEF w
      <4> QED
        BY <3>1, <3>2, <3>3, <4>1, <4>2 DEF ArmedFor, w
    <3> QED
      BY <3>1, <3>2, <3>4
      DEF SetEstablished, Ahead, SetLabels, ArmedFor, OtherSlot, LunDone
  <2> QED
    BY <1>12, <2>1, <2>2 DEF MarkPtnActive
<1>13. CASE MarkUnbootable
  BY <1>3, <1>13 DEF MarkUnbootable, Ahead, SetLabels
<1>14. CASE Fallback
  BY <1>2, <1>14 DEF Fallback, Fail
<1>15. CASE SetActiveSame \/ SetActiveOther
  <2> SUFFICES ASSUME op = "setActive"
               PROVE  SetEstablished'
    BY <1>2, <1>15 DEF SetActiveSame, SetActiveOther
  <2> DEFINE w == WithActive(ram, slot, TRUE)
  <2>1. slot \in Slots /\ OtherSlot(slot) \in Slots /\ OtherSlot(slot) # slot
    BY OtherSlotDiffers DEF SetEstablished
  <2>2. w \in Table /\ ArmedFor(w, slot)
    BY <1>1, <2>1, WithActiveType, WithActiveApply DEF ArmedFor
  <2>3. (op = "setActive") = TRUE
    OBVIOUS
  <2> HIDE DEF w
  <2>4. CASE SetActiveSame
    <3>1. /\ ram' = w /\ pc' = "setDone" /\ op' = op /\ slot' = slot
      BY <2>3, <2>4 DEF SetActiveSame, w
    <3>2. LunDone(bootLun', failed', slot)
      BY <2>4 DEF SetActiveSame, RepairBootLun, LunSwitched, LunRequestFails,
                  SwitchedLun, LunDone
    <3> QED
      BY <2>1, <2>2, <3>1, <3>2
      DEF SetEstablished, Ahead, SetLabels, ArmedFor, OtherSlot, LunDone
  <2>5. CASE SetActiveOther
    <3>1. /\ ram' = WithTypesSwapped(w) /\ op' = op /\ slot' = slot
          /\ pc' = IF IsUfs THEN "setLun" ELSE "markSet"
      BY <2>3, <2>5 DEF SetActiveOther, w
    <3>2. ArmedFor(WithTypesSwapped(w), slot)
      BY <2>1, <2>2, BootIsPtn, WithTypesSwappedApply DEF ArmedFor
    <3> QED
      BY <2>1, <3>1, <3>2
      DEF SetEstablished, Ahead, SetLabels, ArmedFor, OtherSlot, LunDone
  <2> QED
    BY <1>15, <2>4, <2>5
<1>16. CASE SetBootLun
  <2>1. /\ pc = "setLun" /\ pc' = "markSet" /\ UNCHANGED <<ram, op, slot, ret>>
    BY <1>16 DEF SetBootLun
  <2>2. LunDone(bootLun', failed', slot)
    BY <1>16 DEF SetBootLun, LunSwitched, LunRequestFails, SwitchedLun, LunDone
  <2> QED
    BY <2>1, <2>2 DEF SetEstablished, Ahead, SetLabels, ArmedFor, OtherSlot, LunDone
<1>17. CASE FinishSetActive
  BY <1>17 DEF FinishSetActive, FlushThen, SetEstablished, Ahead, SetLabels,
               ArmedFor, OtherSlot, LunDone
<1>18. CASE ClearUnbootable \/ FastbootUpdateAttr
  BY <1>3, <1>18 DEF ClearUnbootable, FastbootUpdateAttr, Ahead, SetLabels
<1>19. CASE Call
  <2>1. CASE op' # "setActive"
    BY <1>2, <2>1
  <2>2. CASE \E s \in Slots : Enter("setActive", "setActive", s)
    BY <2>2 DEF Enter, SetEstablished, Ahead, SetLabels, LunDone
  <2> QED
    BY <1>19, <2>1, <2>2 DEF Call, Enter
<1>20. CASE VerifyFails \/ BootOs \/ BootLinuxReturns \/ OsMarkSuccessful
  BY <1>3, <1>20
  DEF VerifyFails, BootOs, BootLinuxReturns, OsMarkSuccessful, Ahead, SetLabels
<1> QED
  BY <1>4, <1>5, <1>6, <1>7, <1>8, <1>9, <1>10, <1>11, <1>12, <1>13, <1>14,
     <1>15, <1>16, <1>17, <1>18, <1>19, <1>20
  DEF Next, Loader, Environment, Flush

\* A boot slot alone with the active bit and the top priority is the active one.
LEMMA ActiveOfTop ==
  ASSUME NEW t \in Table, NEW s \in Slots, t["boot"][s].act,
         t["boot"][s].pri = MaxPriority, ~t["boot"][OtherSlot(s)].act
  PROVE  ActiveOf(t) = s
BY DEF ActiveOf, Rank, MaxPriority, OtherSlot, Slots

\* A set_active that was answered with OKAY leaves its slot active and armed in
\* the table of the loader, from every table that a switch interrupted at any
\* step may have left and whatever fails, also during this call.  The boot
\* logical unit is the slot's, unless a request to it failed in this call or a
\* failure has left the device without one.
THEOREM SetActiveInvariance == Spec => []SetActiveEstablishes
<1>1. Spec => []SetInv
  BY SetInvInit, SetInvNext, PTL DEF Spec
<1>2. SetInv => SetActiveEstablishes
  <2> SUFFICES ASSUME SetInv, pc = "idle", op = "setActive"
               PROVE  /\ ActiveOf(ram) = slot
                      /\ OnTrial(ram["boot"][slot]) /\ ram["boot"][slot].ret = MaxRetry
                      /\ ~ram["boot"][OtherSlot(slot)].act
                      /\ LunDone(bootLun, failed, slot)
    BY DEF SetActiveEstablishes, LunDone
  <2>1. slot \in Slots /\ ArmedFor(ram, slot) /\ LunDone(bootLun, failed, slot)
    BY DEF SetInv, SetEstablished, Ahead, SetLabels
  <2>2. ActiveOf(ram) = slot
    BY <2>1, ActiveOfTop DEF SetInv, TypeInv, TypeOK, ArmedFor
  <2> QED
    BY <2>1, <2>2, TableAssumption DEF ArmedFor, OnTrial
<1> QED
  BY <1>1, <1>2, PTL

-----------------------------------------------------------------------------
(* The active slot, the type GUIDs and the boot logical unit               *)

\* What names a slot names the slot that t starts from.
Coherent(t, b) ==
  /\ TypesOn(t, StartSlot(t))
  /\ IsUfs => b = LunFor(StartSlot(t))

\* Before the first fault only SwitchPtnSlots, between the type GUIDs and the
\* boot logical unit, is seen by the loader with the two on different slots.
Agreed ==
  faults = 0 =>
    /\ pc \in {"off", "firmware", "os"} => Coherent(gpt[Primary], bootLun)
    /\ pc = "setLun" =>
         ram["boot"][slot].act /\ TypesOn(ram, slot) /\ bootLun # 0
    /\ pc \notin {"off", "firmware", "os", "setLun"} => Coherent(ram, bootLun)

CoherenceInv == CacheInv /\ SelectionInv /\ Agreed

LEMMA ActiveOfOne ==
  ASSUME NEW t, NEW s \in Slots, OneActive(t), t["boot"][s].act
  PROVE  ActiveOf(t) = s /\ StartSlot(t) = s
BY DEF OneActive, ActiveOf, StartSlot, Rank, MaxPriority, Slots, NoSlot

LEMMA ActiveOfNone ==
  ASSUME NEW t, OneActive(t), \A s \in Slots : ~t["boot"][s].act
  PROVE  StartSlot(t) = "_a"
BY DEF ActiveOf, StartSlot, Rank, Slots, NoSlot

LEMMA StartSlotType == \A t : StartSlot(t) \in Slots
BY ActiveOfType DEF StartSlot, Slots

\* Tables with the same active bits and the same type GUIDs
LEMMA CoherentKept ==
  ASSUME NEW t, NEW u, NEW b, OneActive(t), OneActive(u),
         \A x \in Slots : u["boot"][x].act = t["boot"][x].act,
         \A p \in Ptns, x \in Slots : u[p][x].type = t[p][x].type,
         Coherent(t, b)
  PROVE  Coherent(u, b)
<1>1. StartSlot(u) = StartSlot(t)
  <2>1. CASE \E x \in Slots : t["boot"][x].act
    BY <2>1, ActiveOfOne
  <2>2. CASE \A x \in Slots : ~t["boot"][x].act
    BY <2>2, ActiveOfNone
  <2> QED
    BY <2>1, <2>2
<1> QED
  BY <1>1, StartSlotType, OtherSlotType DEF Coherent, TypesOn

LEMMA UpdBootKept ==
  ASSUME NEW t \in Table, NEW s \in Slots, NEW e,
         e.act = t["boot"][s].act, e.type = t["boot"][s].type
  PROVE  /\ \A x \in Slots : UpdBoot(t, s, e)["boot"][x].act = t["boot"][x].act
         /\ \A p \in Ptns, x \in Slots : UpdBoot(t, s, e)[p][x].type = t[p][x].type
<1>1. \A x \in Slots :
        UpdBoot(t, s, e)["boot"][x] = IF x = s THEN e ELSE t["boot"][x]
  BY UpdBootApply
<1>2. \A p \in Ptns, x \in Slots : p # "boot" => UpdBoot(t, s, e)[p][x] = t[p][x]
  BY BootIsPtn DEF UpdBoot, Table
<1> QED
  BY <1>1, <1>2

LEMMA UpdBootCoherent ==
  ASSUME NEW t \in Table, NEW s \in Slots, NEW b, NEW e,
         OneActive(t), Coherent(t, b), OneActive(UpdBoot(t, s, e)),
         e.act = t["boot"][s].act, e.type = t["boot"][s].type
  PROVE  Coherent(UpdBoot(t, s, e), b)
BY UpdBootKept, CoherentKept

\* The functions that change attributes of one boot entry only
Edits(t, s) ==
  {WithTryUsed(t, s), WithUnbootable(t, s), WithUnbootableCleared(t, s),
   WithFlashedAttr(t, s), UpdBoot(t, s, [t["boot"][s] EXCEPT !.suc = TRUE])}

LEMMA EditsCoherent ==
  ASSUME NEW t \in Table, NEW s \in Slots, NEW b, OneActive(t), Coherent(t, b)
  PROVE  \A u \in Edits(t, s) : Coherent(u, b)
<1> DEFINE o == t["boot"][s]
<1>1. o \in Entry
  BY BootEntryType
<1>2. LET e == [o EXCEPT !.ret = @ - 1] IN e.act = o.act /\ e.type = o.type
  BY <1>1 DEF Entry
<1>3. LET e == [o EXCEPT !.unb = TRUE] IN e.act = o.act /\ e.type = o.type
  BY <1>1 DEF Entry
<1>4. LET e == [o EXCEPT !.unb = FALSE] IN e.act = o.act /\ e.type = o.type
  BY <1>1 DEF Entry
<1>5. LET e == [o EXCEPT !.suc = FALSE, !.unb = FALSE, !.pri = MaxPriority,
                         !.ret = MaxRetry]
      IN  e.act = o.act /\ e.type = o.type
  BY <1>1 DEF Entry
<1>6. LET e == [o EXCEPT !.suc = TRUE] IN e.act = o.act /\ e.type = o.type
  BY <1>1 DEF Entry
<1>7. /\ OneActive(WithTryUsed(t, s)) /\ OneActive(WithUnbootable(t, s))
      /\ OneActive(WithUnbootableCleared(t, s)) /\ OneActive(WithFlashedAttr(t, s))
      /\ OneActive(UpdBoot(t, s, [t["boot"][s] EXCEPT !.suc = TRUE]))
  BY OneActiveEdits
<1>8. Coherent(WithTryUsed(t, s), b)
  BY <1>2, <1>7, UpdBootCoherent DEF WithTryUsed
<1>9. Coherent(WithUnbootable(t, s), b)
  BY <1>3, <1>7, UpdBootCoherent DEF WithUnbootable
<1>10. Coherent(WithUnbootableCleared(t, s), b)
  BY <1>4, <1>7, UpdBootCoherent DEF WithUnbootableCleared
<1>11. Coherent(WithFlashedAttr(t, s), b)
  BY <1>5, <1>7, UpdBootCoherent DEF WithFlashedAttr
<1>12. Coherent(UpdBoot(t, s, [o EXCEPT !.suc = TRUE]), b)
  BY <1>6, <1>7, UpdBootCoherent
<1> QED
  BY <1>8, <1>9, <1>10, <1>11, <1>12 DEF Edits

\* GetActiveSlot makes _a the default, which a new device starts from anyway.
LEMMA DefaultCoherent ==
  ASSUME NEW t \in Table, NEW b, OneActive(t), ActiveOf(t) = NoSlot, Coherent(t, b)
  PROVE  Coherent(WithDefault(t), b)
<1> DEFINE w == WithDefault(t)
           e == [t["boot"]["_a"] EXCEPT
                   !.pri = MaxPriority, !.act = TRUE, !.ret = MaxRetry,
                   !.suc = FALSE, !.unb = FALSE]
<1>1. "_a" \in Slots
  BY DEF Slots
<1>2. t["boot"]["_a"] \in Entry
  BY <1>1, BootEntryType
<1>3. e.act /\ e.type = t["boot"]["_a"].type
  BY <1>2 DEF Entry
<1>4. w = UpdBoot(t, "_a", e)
  BY DEF WithDefault
<1>5. OneActive(w)
  BY OneActiveDefault
<1> HIDE DEF e, w
<1>6. w["boot"]["_a"] = e
  BY <1>1, <1>4, UpdBootApply
<1>7. \A p \in Ptns, x \in Slots : w[p][x].type = t[p][x].type
  <2>1. \A x \in Slots : w["boot"][x] = IF x = "_a" THEN e ELSE t["boot"][x]
    BY <1>1, <1>4, UpdBootApply
  <2>2. \A p \in Ptns, x \in Slots : p # "boot" => w[p][x] = t[p][x]
    BY <1>1, <1>4, BootIsPtn DEF UpdBoot, Table
  <2> QED
    BY <1>3, <2>1, <2>2
<1>8. StartSlot(w) = "_a" /\ StartSlot(t) = "_a"
  BY <1>1, <1>3, <1>5, <1>6, ActiveOfOne DEF StartSlot
<1>9. Coherent(w, b)
  BY <1>7, <1>8, OtherSlotType, StartSlotType DEF Coherent, TypesOn
<1> QED
  BY <1>9 DEF w

LEMMA CoherenceInvInit == Init => CoherenceInv
<1> SUFFICES ASSUME Init
             PROVE  Agreed
  BY CacheInvInit, SelectionInvInit DEF CoherenceInv
<1>1. PICK t \in InitTables :
        gpt[Primary] = t /\ bootLun = LunFor(StartSlot(t)) /\ pc = "off"
  BY CopiesDiffer DEF Init
<1>2. TypesOn(t, StartSlot(t))
  BY ManagerAssumption
<1> QED
  BY <1>1, <1>2 DEF Agreed, Coherent

LEMMA CoherenceInvNext == CoherenceInv /\ [Next]_vars => CoherenceInv'
<1> SUFFICES ASSUME CoherenceInv, [Next]_vars, faults' = 0
             PROVE  Agreed'
  BY CacheInvNext, SelectionInvNext DEF CoherenceInv, Agreed
<1>1. /\ TypeInv /\ TypeOK /\ CutInv /\ CacheInv /\ SelectionInv /\ SelectionInv'
      /\ faults \in Nat /\ ram \in Table
      /\ gpt[Primary] \in Table
  BY SelectionInvNext, ManagerAssumption, CopiesDiffer
  DEF CoherenceInv, SelectionInv, TypeInv, TypeOK, CacheInv
<1>2. OneActive(ram) /\ OneActive(ram') /\ OneActive(gpt[Primary])
  BY <1>1, CopiesDiffer DEF SelectionInv, SelectionSane
<1>3. faults = 0 => torn = {}
  BY <1>1 DEF CutInv, TornInv, TornBudget
<1>32. ~Fault
  BY <1>1 DEF Fault
<1> USE DEF CoherenceInv, storage
\* Steps of the running loader that leave the tables alone
<1>4. ASSUME UNCHANGED <<ram, bootLun, faults>>,
             pc \notin {"off", "firmware", "os", "setLun"},
             pc' \notin {"off", "firmware", "os", "setLun"}
      PROVE  Agreed'
  BY <1>4 DEF Agreed, Coherent, TypesOn
\* Steps that end the loader's work when its table is written
<1>5. ASSUME UNCHANGED <<gpt, bootLun, faults>>, pc \in Settled,
             pc' \in {"off", "firmware", "os"}
      PROVE  Agreed'
  <2>1. gpt[Primary] = ram
    BY <1>5, CopiesDiffer DEF CacheInv, Cached
  <2>2. Coherent(ram, bootLun)
    BY <1>5, SettledKinds DEF Agreed
  <2> QED
    BY <1>5, <2>1, <2>2 DEF Agreed, Coherent, TypesOn
\* Edits of one boot entry
<1>6. ASSUME NEW s \in Slots, ram' \in Edits(ram, s), UNCHANGED <<bootLun, faults>>,
             pc \notin {"off", "firmware", "os", "setLun"},
             pc' \notin {"off", "firmware", "os", "setLun"}
      PROVE  Agreed'
  <2>1. Coherent(ram, bootLun)
    BY <1>6 DEF Agreed
  <2>2. Coherent(ram', bootLun)
    BY <1>1, <1>2, <1>6, <2>1, EditsCoherent
  <2> QED
    BY <1>6, <2>2 DEF Agreed, Coherent, TypesOn
<1>7. CASE UNCHANGED vars
  BY <1>7 DEF vars, Agreed, Coherent, TypesOn
<1>8. CASE PowerUp
  BY <1>8 DEF PowerUp, Agreed, Coherent, TypesOn
<1>9. CASE RestoreCopy
  BY <1>3, <1>9 DEF RestoreCopy
<1>10. CASE Present
  <2>1. faults = 0 /\ torn = {} /\ ram' = View /\ pc = "firmware" /\ pc' = "query"
        /\ bootLun' = bootLun
    BY <1>1, <1>3, <1>10 DEF Present, Fault
  <2>2. ram' = gpt[Primary]
    BY <1>1, <2>1, ViewIntact
  <2> QED
    BY <2>1, <2>2 DEF Agreed, Coherent, TypesOn
<1>11. CASE WriteCopy
  <2>1. pc = "flush" /\ UNCHANGED <<ram, bootLun, faults>> /\ (pc' = "flush" \/ pc' = ret)
    BY <1>11 DEF WriteCopy
  <2>2. ret \in Settled \cup {"setDone"}
    BY <2>1 DEF CacheInv, Cached
  <2> QED
    BY <1>4, <2>1, <2>2, SettledKinds
<1>12. CASE IoError \/ PowerCut
  BY <1>1, <1>12 DEF IoError, PowerCut, Fault, HalfWritten
<1>13. CASE DefaultSlot
  <2>1. /\ ActiveOf(ram) = NoSlot /\ ram' = WithDefault(ram)
        /\ UNCHANGED <<bootLun, faults>> /\ pc' = "flush" /\ pc \in NeedsActive
    BY <1>13 DEF DefaultSlot, FlushThen
  <2>2. Coherent(ram, bootLun)
    BY <2>1 DEF Agreed, NeedsActive
  <2>3. Coherent(ram', bootLun)
    BY <1>1, <1>2, <2>1, <2>2, DefaultCoherent
  <2> QED
    BY <2>1, <2>3 DEF Agreed, Coherent, TypesOn
<1>14. CASE NoActiveSlot \/ Query
  BY <1>4, <1>14 DEF NoActiveSlot, Fail, NeedsActive, Query
<1>15. CASE FindProven \/ FindUnbootable
  BY <1>4, <1>15 DEF FindProven, FindUnbootable
<1>16. CASE FindOnTrial
  <2>1. ActiveOf(ram) \in Slots
    BY <1>16, ActiveOfType DEF FindOnTrial
  <2>2. CASE op = "boot"
    BY <1>4, <1>16, <2>2 DEF FindOnTrial
  <2>3. CASE op # "boot"
    BY <1>6, <1>16, <2>1, <2>3 DEF FindOnTrial, FlushThen, Edits
  <2> QED
    BY <2>2, <2>3
<1>17. CASE ValidateSlotGuids
  BY <1>4, <1>17, <1>32 DEF ValidateSlotGuids, Fail
<1>18. CASE MarkPtnActive
  <2>1. /\ ram' = WithActiveBits(ram, slot) /\ UNCHANGED <<bootLun, faults>>
        /\ pc \in {"markFound", "markSet"} /\ pc' = "flush"
    BY <1>18 DEF MarkPtnActive, FlushThen
  <2>2. slot \in Slots /\ ram["boot"][slot].act
    BY <1>1, <2>1
    DEF SelectionInv, TypeInv, SlotKnown, SlotActive, Ahead, SlotLabels, ActiveLabels
  <2>3. Coherent(ram, bootLun)
    BY <2>1 DEF Agreed
  <2> DEFINE w == WithActiveBits(ram, slot)
  <2>4. w["boot"][slot].act = (slot = slot)
    BY <1>1, <2>2, BootIsPtn, WithActiveBitsApply
  <2>5. \A p \in Ptns, x \in Slots : w[p][x].type = ram[p][x].type
    BY <1>1, <2>2, WithActiveBitsApply
  <2> HIDE DEF w
  <2>6. ram' = w
    BY <2>1 DEF w
  <2>7. StartSlot(ram) = slot /\ StartSlot(w) = slot
    BY <1>2, <2>2, <2>4, <2>6, ActiveOfOne
  <2>8. Coherent(w, bootLun)
    BY <2>2, <2>3, <2>5, <2>7, OtherSlotType DEF Coherent, TypesOn
  <2> QED
    BY <2>1, <2>6, <2>8 DEF Agreed, Coherent, TypesOn
<1>19. CASE MarkUnbootable
  <2>1. ActiveOf(ram) \in Slots
    BY <1>19, ActiveOfType DEF MarkUnbootable
  <2>2. CASE firstBoot /\ ~UserVariant
    BY <1>4, <1>19, <2>2 DEF MarkUnbootable
  <2>3. CASE ~(firstBoot /\ ~UserVariant)
    BY <1>6, <1>19, <2>1, <2>3 DEF MarkUnbootable, FlushThen, Edits
  <2> QED
    BY <2>2, <2>3
<1>20. CASE Fallback
  BY <1>4, <1>20 DEF Fallback, Fail
<1>21. CASE ResetSystem
  BY <1>5, <1>21 DEF ResetSystem, Settled
<1>22. CASE SetActiveSame \/ SetActiveOther
  <2> DEFINE w == WithActive(ram, slot, op = "setActive")
             o == OtherSlot(slot)
  <2>1. pc = "setActive" /\ faults = 0
    BY <1>22, <1>32, LunOutcomes DEF SetActiveSame, SetActiveOther
  <2>2. /\ slot \in Slots /\ o \in Slots /\ OtherSlot(o) = slot
        /\ slot # NoSlot /\ o # NoSlot
    BY <1>1, <2>1, OtherSlotDiffers DEF TypeInv, SlotKnown, Ahead, SlotLabels
  <2>3. TypesOn(ram, StartSlot(ram)) /\ (IsUfs => bootLun # 0)
    BY <2>1 DEF Agreed, Coherent, LunFor
  <2>4. (op = "setActive") \in BOOLEAN
    OBVIOUS
  <2>5. /\ w \in Table /\ w["boot"][slot].act
        /\ \A p \in Ptns, x \in Slots : w[p][x].type = ram[p][x].type
    <3>1. w \in Table
      BY <1>1, <2>2, <2>4, WithActiveType
    <3>2. w["boot"][slot].act /\ \A p \in Ptns, x \in Slots : w[p][x].type = ram[p][x].type
      <4>1. \A r \in BOOLEAN :
              LET v == WithActive(ram, slot, r) IN
                /\ v["boot"][slot].act
                /\ \A p \in Ptns, x \in Slots : v[p][x].type = ram[p][x].type
        BY <1>1, <2>2, WithActiveApply
      <4> QED
        BY <2>4, <4>1, Zenon
    <3> QED
      BY <3>1, <3>2
  <2> HIDE DEF o, w
  <2>6. CASE SetActiveSame
    <3>1. /\ ram' = w /\ pc' = "setDone" /\ ActiveOf(ram) = slot
          /\ IsUfs => bootLun' = LunFor(slot)
      BY <1>32, <2>3, <2>6 DEF SetActiveSame, w, RepairBootLun, LunSwitched,
                               LunRequestFails, SwitchedLun
    <3>2. StartSlot(ram) = slot /\ StartSlot(w) = slot
      BY <1>2, <2>2, <2>5, <3>1, ActiveOfOne DEF StartSlot
    <3>3. TypesOn(w, slot)
      BY <2>2, <2>3, <2>5, <3>2 DEF TypesOn, o
    <3>4. Coherent(w, bootLun')
      BY <3>1, <3>2, <3>3 DEF Coherent
    <3> QED
      BY <3>1, <3>4 DEF Agreed, Coherent, TypesOn
  <2>7. CASE SetActiveOther
    <3>1. /\ ram' = WithTypesSwapped(w) /\ ActiveOf(ram) = o
          /\ pc' = (IF IsUfs THEN "setLun" ELSE "markSet") /\ slot' = slot
          /\ bootLun' = bootLun
      BY <2>7 DEF SetActiveOther, w, o
    <3>2. StartSlot(ram) = o
      BY <2>2, <3>1 DEF StartSlot
    <3>3. \A p \in Ptns : ram'[p][slot].type = "own" /\ ram'[p][o].type = "idle"
      <4> TAKE p \in Ptns
      <4>1. ram'[p][slot].type = w[p][OtherSlot(slot)].type
            /\ ram'[p][o].type = w[p][OtherSlot(o)].type
        BY <2>2, <2>5, <3>1, WithTypesSwappedApply
      <4>2. w[p][o].type = "own" /\ w[p][slot].type = "idle"
        BY <2>2, <2>3, <2>5, <3>2 DEF TypesOn
      <4> QED
        BY <2>2, <4>1, <4>2 DEF o
    <3>4. ram'["boot"][slot].act
      BY <2>2, <2>5, <3>1, BootIsPtn, WithTypesSwappedApply
    <3>5. StartSlot(ram') = slot
      BY <1>2, <2>2, <3>4, ActiveOfOne
    <3>6. TypesOn(ram', slot)
      BY <3>3 DEF TypesOn, o
    <3>7. CASE IsUfs
      BY <2>3, <3>1, <3>4, <3>6, <3>7 DEF Agreed, TypesOn, OtherSlot
    <3>8. CASE ~IsUfs
      BY <3>1, <3>5, <3>6, <3>8 DEF Agreed, Coherent, TypesOn
    <3> QED
      BY <3>7, <3>8
  <2> QED
    BY <1>22, <2>6, <2>7
<1>23. CASE SetBootLun
  <2>1. /\ pc = "setLun" /\ pc' = "markSet" /\ UNCHANGED <<ram, faults>>
        /\ bootLun' = SwitchedLun
    BY <1>23, <1>32 DEF SetBootLun, LunSwitched, LunRequestFails
  <2>2. /\ slot \in Slots /\ ram["boot"][slot].act /\ TypesOn(ram, slot)
        /\ bootLun # 0
    BY <1>1, <2>1 DEF TypeInv, SlotKnown, Ahead, SlotLabels, Agreed
  <2>3. Coherent(ram, bootLun')
    BY <1>2, <2>1, <2>2, ActiveOfOne DEF Coherent, SwitchedLun
  <2> QED
    BY <2>1, <2>3 DEF Agreed, Coherent, TypesOn
<1>24. CASE FinishSetActive
  BY <1>4, <1>24 DEF FinishSetActive, FlushThen
<1>25. CASE ClearUnbootable
  <2>1. ActiveOf(ram) \in Slots
    BY <1>25, ActiveOfType DEF ClearUnbootable
  <2> QED
    BY <1>6, <1>25, <2>1 DEF ClearUnbootable, FlushThen, Edits
<1>26. CASE FastbootUpdateAttr
  <2>1. slot \in Slots
    BY <1>1, <1>26 DEF FastbootUpdateAttr, TypeInv, SlotKnown, Ahead, SlotLabels
  <2> QED
    BY <1>6, <1>26, <2>1 DEF FastbootUpdateAttr, FlushThen, Edits
<1>27. CASE Call
  BY <1>4, <1>27 DEF Call, Enter
<1>28. CASE VerifyFails \/ BootLinuxReturns
  BY <1>4, <1>28 DEF VerifyFails, BootLinuxReturns
<1>29. CASE BootOs
  BY <1>5, <1>29 DEF BootOs, Settled
<1>30. CASE OsMarkSuccessful
  <2>1. /\ pc = "os" /\ pc' = "os" /\ UNCHANGED <<bootLun, faults>>
        /\ gpt'[Primary] = UpdBoot(gpt[Primary], slot,
                             [gpt[Primary]["boot"][slot] EXCEPT !.suc = TRUE])
    BY <1>30, CopiesDiffer DEF OsMarkSuccessful
  <2>2. slot \in Slots
    BY <1>1, <2>1 DEF TypeInv, SlotKnown, Ahead, SlotLabels
  <2>3. Coherent(gpt[Primary], bootLun)
    BY <2>1 DEF Agreed
  <2>4. Coherent(gpt'[Primary], bootLun)
    BY <1>1, <1>2, <2>1, <2>2, <2>3, EditsCoherent DEF Edits
  <2> QED
    BY <2>1, <2>4 DEF Agreed, Coherent, TypesOn
<1>31. CASE Reboot
  <2>1. CASE pc = "idle"
    BY <1>5, <1>31, <2>1 DEF Reboot, Settled
  <2>2. CASE pc = "os"
    BY <1>31, <2>2 DEF Reboot, Agreed, Coherent, TypesOn
  <2> QED
    BY <1>31, <2>1, <2>2 DEF Reboot
<1> QED
  BY <1>7, <1>8, <1>9, <1>10, <1>11, <1>12, <1>13, <1>14, <1>15, <1>16, <1>17,
     <1>18, <1>19, <1>22, <1>20, <1>21, <1>23, <1>24, <1>25, <1>26, <1>27, <1>28,
     <1>29, <1>30, <1>31
  DEF Next, Loader, Environment, Flush

\* While no write is lost, the active slot, the type GUIDs of all partitions
\* and the UFS boot logical unit name one slot whenever the loader waits,
\* hands over, or the system runs.
THEOREM CoherenceInvariance == Spec => []SlotsCoherent
<1>1. Spec => []CoherenceInv
  BY CoherenceInvInit, CoherenceInvNext, PTL DEF Spec
<1>2. CoherenceInv => SlotsCoherent
  <2> SUFFICES ASSUME CoherenceInv, faults = 0, pc \in {"idle", "found", "os"},
                      ActiveOf(View) # NoSlot
               PROVE  /\ TypesOn(View, ActiveOf(View))
                      /\ IsUfs => bootLun = LunFor(ActiveOf(View))
    BY DEF SlotsCoherent
  <2>1. View = gpt[Primary]
    BY ViewIntact
    DEF CoherenceInv, SelectionInv, CacheInv, CutInv, TornInv, TornBudget, TypeInv
  <2>2. Coherent(gpt[Primary], bootLun)
    <3>1. CASE pc = "os"
      BY <3>1 DEF CoherenceInv, Agreed
    <3>2. CASE pc \in {"idle", "found"}
      BY <3>2, CopiesDiffer DEF CoherenceInv, Agreed, CacheInv, Cached, Settled
    <3> QED
      BY <3>1, <3>2
  <2>3. StartSlot(View) = ActiveOf(View)
    BY DEF StartSlot
  <2> QED
    BY <2>1, <2>2, <2>3 DEF Coherent
<1> QED
  BY <1>1, <1>2, PTL

-----------------------------------------------------------------------------
(* The tries of a slot that never reported success                         *)

\* n[s]: boots of slot s since it was armed
Bounded(t, n) ==
  \A s \in Slots : ~t["boot"][s].suc => n[s] + t["boot"][s].ret <= MaxRetry

\* ... and one more boot of s is accounted for.
Room(t, n, s) == ~t["boot"][s].suc => n[s] + t["boot"][s].ret < MaxRetry

\* Labels of FindBootableSlot after the try was taken off
TakenLabels == {"validate", "markFound", "found"}

\* UpdatePartitionAttributes has written the copies before <<Lun, Iter>>,
\* whatever was lost before it was called.
Written ==
  pc = "flush" =>
    \A p \in Ptns, s \in Slots :
      /\ LunOf[p][s] < at.lun => \A c \in Copies : gpt[c][p][s] = ram[p][s]
      /\ LunOf[p][s] = at.lun /\ at.iter = Backup => gpt[Primary][p][s] = ram[p][s]

\* FindBootableSlot writes the table twice, once for the count and once for
\* the active bits, so that one lost write does not lose the try.
TriesTaken ==
  faults <= 1 =>
    /\ Bounded(ram, tries)
    /\ \A c \in Copies : Bounded(gpt[c], tries)
    /\ op = "find" /\ Ahead(TakenLabels) => Room(ram, tries, slot)
    /\ op = "find" /\ pc = "flush" /\ ret = "found" /\ faults = 0 =>
         \A c \in Copies : Room(gpt[c], tries, slot)
    /\ op = "find" /\ pc = "found" => \A c \in Copies : Room(gpt[c], tries, slot)

TriesInv == CacheInv /\ Written /\ TriesTaken

LEMMA RetType ==
  ASSUME NEW t \in Table, NEW s \in Slots
  PROVE  /\ t["boot"][s].ret \in Int /\ t["boot"][s].ret >= 0
         /\ t["boot"][s].ret <= MaxRetry /\ MaxRetry \in Int
BY BootEntryType, TableAssumption DEF Entry

\* A table whose boot entries are each taken from one of two
LEMMA MixedBounded ==
  ASSUME NEW t, NEW u, NEW w, NEW n,
         \A s \in Slots : w["boot"][s] = t["boot"][s] \/ w["boot"][s] = u["boot"][s]
  PROVE  /\ Bounded(t, n) /\ Bounded(u, n) => Bounded(w, n)
         /\ \A s \in Slots : Room(t, n, s) /\ Room(u, n, s) => Room(w, n, s)
BY DEF Bounded, Room

\* Tables with the same counts and success bits
LEMMA SameBounded ==
  ASSUME NEW t, NEW u, NEW n,
         \A s \in Slots : /\ u["boot"][s].suc = t["boot"][s].suc
                          /\ u["boot"][s].ret = t["boot"][s].ret
  PROVE  /\ Bounded(t, n) => Bounded(u, n)
         /\ \A s \in Slots : Room(t, n, s) => Room(u, n, s)
BY DEF Bounded, Room

LEMMA UpdBootBounded ==
  ASSUME NEW t \in Table, NEW s \in Slots, NEW e, NEW n, Bounded(t, n),
         ~e.suc => n[s] + e.ret <= MaxRetry
  PROVE  Bounded(UpdBoot(t, s, e), n)
BY UpdBootApply DEF Bounded

\* The slot is armed anew: its boots are counted from 0.
LEMMA ArmedBounded ==
  ASSUME NEW t \in Table, NEW u \in Table, NEW s \in Slots,
         NEW n \in [Slots -> TryCounts], Bounded(t, n),
         \A x \in Slots : x # s => /\ u["boot"][x].suc = t["boot"][x].suc
                                   /\ u["boot"][x].ret = t["boot"][x].ret
  PROVE  Bounded(u, [n EXCEPT ![s] = 0])
<1> DEFINE m == [n EXCEPT ![s] = 0]
<1>1. m[s] = 0 /\ \A x \in Slots : x # s => m[x] = n[x]
  OBVIOUS
<1> HIDE DEF m
<1>2. \A x \in Slots : ~u["boot"][x].suc => m[x] + u["boot"][x].ret <= MaxRetry
  BY <1>1, RetType DEF Bounded
<1> QED
  BY <1>2 DEF Bounded, m

LEMMA UpdBootCounts ==
  ASSUME NEW t \in Table, NEW s \in Slots, NEW x \in Slots, NEW e,
         e.suc = t["boot"][s].suc, e.ret = t["boot"][s].ret
  PROVE  LET u == UpdBoot(t, s, e)["boot"][x] IN
           u.suc = t["boot"][x].suc /\ u.ret = t["boot"][x].ret
BY UpdBootApply

\* What the functions of SlotTable do to the counts and success bits
LEMMA CountsKept ==
  ASSUME NEW t \in Table, NEW s \in Slots, NEW x \in Slots
  PROVE  /\ LET e == WithUnbootable(t, s)["boot"][x] IN
              e.suc = t["boot"][x].suc /\ e.ret = t["boot"][x].ret
         /\ LET e == WithUnbootableCleared(t, s)["boot"][x] IN
              e.suc = t["boot"][x].suc /\ e.ret = t["boot"][x].ret
         /\ LET e == WithActiveBits(t, s)["boot"][x] IN
              e.suc = t["boot"][x].suc /\ e.ret = t["boot"][x].ret
         /\ LET e == WithTypesSwapped(t)["boot"][x] IN
              e.suc = t["boot"][x].suc /\ e.ret = t["boot"][x].ret
<1>1. t["boot"][s] \in Entry /\ t["boot"][x] \in Entry
  BY BootEntryType
<1>2. LET e == [t["boot"][s] EXCEPT !.unb = TRUE] IN
        e.suc = t["boot"][s].suc /\ e.ret = t["boot"][s].ret
  BY <1>1 DEF Entry
<1>3. LET e == [t["boot"][s] EXCEPT !.unb = FALSE] IN
        e.suc = t["boot"][s].suc /\ e.ret = t["boot"][s].ret
  BY <1>1 DEF Entry
<1>4. LET e == WithUnbootable(t, s)["boot"][x] IN
        e.suc = t["boot"][x].suc /\ e.ret = t["boot"][x].ret
  BY <1>2, UpdBootCounts DEF WithUnbootable
<1>5. LET e == WithUnbootableCleared(t, s)["boot"][x] IN
        e.suc = t["boot"][x].suc /\ e.ret = t["boot"][x].ret
  BY <1>3, UpdBootCounts DEF WithUnbootableCleared
<1>6. LET e == WithActiveBits(t, s)["boot"][x] IN
        e.suc = t["boot"][x].suc /\ e.ret = t["boot"][x].ret
  BY BootIsPtn, WithActiveBitsApply
<1>7. LET e == WithTypesSwapped(t)["boot"][x] IN
        e.suc = t["boot"][x].suc /\ e.ret = t["boot"][x].ret
  BY BootIsPtn, WithTypesSwappedApply
<1> QED
  BY <1>4, <1>5, <1>6, <1>7

LEMMA TryTaken ==
  ASSUME NEW t \in Table, NEW s \in Slots, NEW n \in [Slots -> TryCounts],
         Bounded(t, n), OnTrial(t["boot"][s])
  PROVE  Bounded(WithTryUsed(t, s), n) /\ Room(WithTryUsed(t, s), n, s)
<1> DEFINE e == [t["boot"][s] EXCEPT !.ret = @ - 1]
<1>1. t["boot"][s] \in Entry /\ t["boot"][s].ret \in Int /\ MaxRetry \in Int
  BY BootEntryType, RetType
<1>2. e.suc = t["boot"][s].suc /\ e.ret = t["boot"][s].ret - 1
  BY <1>1 DEF Entry
<1>3. n[s] \in Int /\ n[s] + t["boot"][s].ret <= MaxRetry
  BY TableAssumption DEF Bounded, OnTrial, TryCounts
<1> HIDE DEF e
<1>4. n[s] + e.ret < MaxRetry
  BY <1>1, <1>2, <1>3
<1>5. WithTryUsed(t, s) = UpdBoot(t, s, e)
  BY DEF WithTryUsed, e
<1>6. UpdBoot(t, s, e)["boot"][s] = e
  BY UpdBootApply
<1>7. e.ret \in Int
  BY <1>1, <1>2
<1>8. n[s] + e.ret <= MaxRetry
  BY <1>1, <1>3, <1>4, <1>7
<1> QED
  BY <1>4, <1>5, <1>6, <1>8, UpdBootBounded DEF Room

\* The other slot's counts are left alone when a slot is armed or made default.
LEMMA ArmingKeeps ==
  ASSUME NEW t \in Table, NEW s \in Slots, NEW r \in BOOLEAN, NEW x \in Slots, x # s
  PROVE  /\ LET e == WithActive(t, s, r)["boot"][x] IN
              e.suc = t["boot"][x].suc /\ e.ret = t["boot"][x].ret
         /\ WithFlashedAttr(t, s)["boot"][x] = t["boot"][x]
         /\ s = "_a" => WithDefault(t)["boot"][x] = t["boot"][x]
<1> DEFINE new == [t["boot"][s] EXCEPT
                     !.pri = MaxPriority, !.act = TRUE, !.ret = MaxRetry,
                     !.unb = FALSE, !.suc = @ /\ ~r]
           old == [t["boot"][x] EXCEPT !.pri = MaxPriority - 1, !.act = FALSE]
           w == WithActive(t, s, r)
<1>1. OtherSlot(s) = x
  BY DEF OtherSlot, Slots
<1>2. t["boot"][x] \in Entry
  BY BootEntryType
<1>3. old.suc = t["boot"][x].suc /\ old.ret = t["boot"][x].ret
  BY <1>2 DEF Entry
<1>4. w = [t EXCEPT !["boot"] = [[@ EXCEPT ![s] = new] EXCEPT ![x] = old]]
  BY <1>1, BootIsPtn DEF WithActive, UpdBoot, Table
<1> HIDE DEF new, old, w
<1>5. w["boot"][x] = old
  BY <1>4, BootIsPtn DEF Table
<1>6. WithFlashedAttr(t, s)["boot"][x] = t["boot"][x]
  BY UpdBootApply DEF WithFlashedAttr
<1>7. s = "_a" => WithDefault(t)["boot"][x] = t["boot"][x]
  BY UpdBootApply DEF WithDefault
<1> QED
  BY <1>3, <1>5, <1>6, <1>7 DEF w

LEMMA TriesInvInit == Init => TriesInv
<1> SUFFICES ASSUME Init
             PROVE  Written /\ TriesTaken
  BY CacheInvInit DEF TriesInv
<1>1. PICK t \in InitTables : ram = t /\ gpt = [c \in Copies |-> t]
  BY DEF Init
<1>2. /\ t \in Table /\ pc = "off" /\ op = "none"
      /\ \A s \in Slots : tries[s] = 0
  BY ManagerAssumption DEF Init
<1>3. Bounded(t, tries)
  BY <1>2, RetType DEF Bounded
<1> QED
  BY <1>1, <1>2, <1>3 DEF Written, TriesTaken

LEMMA TriesInvNext == TriesInv /\ [Next]_vars => TriesInv'
<1> SUFFICES ASSUME TriesInv, [Next]_vars
             PROVE  Written' /\ TriesTaken'
  BY CacheInvNext DEF TriesInv
<1>1. /\ TypeInv /\ TypeInv' /\ TypeOK /\ CutInv /\ CacheInv
      /\ faults \in Nat /\ faults' \in Nat
      /\ ram \in Table /\ ram' \in Table
      /\ at \in [lun : Luns, iter : Copies]
      /\ tries \in [Slots -> TryCounts]
      /\ \A c \in Copies : gpt[c] \in Table
  BY CacheInvNext, ManagerAssumption
  DEF TriesInv, CacheInv, CutInv, TornInv, TypeInv, TypeOK
<1> USE DEF TriesInv, storage
\* Steps that leave tables and counts alone and end no write
<1>2. ASSUME UNCHANGED <<ram, gpt, tries>>, faults <= faults', pc # "flush",
             pc' # "flush", Ahead(TakenLabels)' => Ahead(TakenLabels),
             UNCHANGED <<op, slot>> \/ op' # "find", pc' # "found"
      PROVE  Written' /\ TriesTaken'
  BY <1>1, <1>2 DEF Written, TriesTaken
\* Steps that begin to write the table outside of FindBootableSlot
<1>3. ASSUME pc' = "flush", at' = Start, UNCHANGED <<gpt, faults>>,
             ret' \notin TakenLabels,
             faults <= 1 => Bounded(ram', tries') /\ \A c \in Copies : Bounded(gpt[c], tries')
      PROVE  Written' /\ TriesTaken'
  <2>1. Written'
    BY <1>3, LunInLuns, CopiesDiffer DEF Written, Start
  <2> QED
    BY <1>3, <2>1 DEF TriesTaken, Ahead, TakenLabels
<1>4. ASSUME UNCHANGED <<ram, tries>>
      PROVE  faults <= 1 => Bounded(ram', tries') /\ \A c \in Copies : Bounded(gpt[c], tries')
  BY <1>4 DEF TriesTaken
<1>5. ASSUME NEW s \in Slots, tries' = [tries EXCEPT ![s] = 0],
             \A x \in Slots : x # s => /\ ram'["boot"][x].suc = ram["boot"][x].suc
                                       /\ ram'["boot"][x].ret = ram["boot"][x].ret
      PROVE  faults <= 1 => Bounded(ram', tries') /\ \A c \in Copies : Bounded(gpt[c], tries')
  <2> SUFFICES ASSUME faults <= 1
               PROVE  Bounded(ram', tries') /\ \A c \in Copies : Bounded(gpt[c], tries')
    OBVIOUS
  <2>1. Bounded(ram, tries) /\ \A c \in Copies : Bounded(gpt[c], tries)
    BY DEF TriesTaken
  <2>2. Bounded(ram', tries')
    BY <1>1, <1>5, <2>1, ArmedBounded
  <2>3. \A c \in Copies : Bounded(gpt[c], tries')
    BY <1>1, <1>5, <2>1, ArmedBounded
  <2> QED
    BY <2>2, <2>3
<1>31. SetActiveSame \/ SetBootLun \/ ValidateSlotGuids => faults <= faults'
  BY <1>1, LunOutcomes DEF Fault
<1>6. CASE UNCHANGED vars
  BY <1>6 DEF vars, Written, TriesTaken, Bounded, Room, Ahead
<1>7. CASE PowerUp \/ ResetSystem \/ Reboot
  BY <1>1, <1>2, <1>7 DEF PowerUp, ResetSystem, Reboot, Ahead, TakenLabels
<1>8. CASE PowerCut
  BY <1>1, <1>8 DEF PowerCut, Written, TriesTaken, Bounded, Ahead, TakenLabels,
                    Fault, HalfWritten
<1>9. CASE RestoreCopy
  <2>1. PICK l \in Luns, c \in Copies :
          gpt' = [gpt EXCEPT ![c] = WithLun(@, l, gpt[1 - c])]
    BY <1>9 DEF RestoreCopy
  <2>2. 1 - c \in Copies
    BY DEF Copies, Primary, Backup
  <2>3. /\ UNCHANGED <<ram, tries, faults, pc, ret, op>> /\ pc = "firmware"
    BY <1>9 DEF RestoreCopy
  <2>4. ASSUME faults <= 1, NEW d \in Copies
        PROVE  Bounded(gpt'[d], tries)
    <3>1. Bounded(gpt[d], tries) /\ Bounded(gpt[1 - c], tries)
      BY <2>2, <2>4 DEF TriesTaken
    <3>2. \A s \in Slots : gpt'[d]["boot"][s] = gpt[d]["boot"][s]
                           \/ gpt'[d]["boot"][s] = gpt[1 - c]["boot"][s]
      BY <1>1, <2>1, <2>2, <2>4, BootIsPtn, WithLunApply DEF TypeOK
    <3> QED
      BY <3>1, <3>2, MixedBounded
  <2> QED
    BY <2>3, <2>4 DEF Written, TriesTaken, Bounded, Ahead, TakenLabels
<1>10. CASE Present
  <2>1. /\ ram' = View /\ UNCHANGED <<gpt, tries>> /\ faults <= faults'
        /\ pc' = "query" /\ op' = "query"
    BY <1>1, <1>10 DEF Present, Fault
  <2>2. ASSUME faults <= 1
        PROVE  Bounded(View, tries)
    <3>1. Bounded(gpt[Primary], tries) /\ Bounded(gpt[Backup], tries)
      BY <2>2, CopiesDiffer DEF TriesTaken
    <3>2. \A s \in Slots : View["boot"][s] = gpt[Primary]["boot"][s]
                           \/ View["boot"][s] = gpt[Backup]["boot"][s]
      BY BootIsPtn DEF View, Presented
    <3> QED
      BY <3>1, <3>2, MixedBounded
  <2> QED
    BY <1>1, <2>1, <2>2 DEF Written, TriesTaken, Bounded, Ahead, TakenLabels
<1>11. CASE WriteCopy
  <2>1. /\ pc = "flush" /\ UNCHANGED <<ram, ret, op, slot, faults, tries>>
        /\ gpt' = [gpt EXCEPT ![at.iter] = WithLun(@, at.lun, ram)]
    BY <1>11 DEF WriteCopy
  <2>2. at.iter \in Copies /\ at.lun \in Luns
    BY <1>1
  <2>3. ASSUME NEW c \in Copies, NEW p \in Ptns, NEW s \in Slots
        PROVE  gpt'[c][p][s] = IF c = at.iter /\ LunOf[p][s] = at.lun
                               THEN ram[p][s] ELSE gpt[c][p][s]
    BY <1>1, <2>1, <2>2, <2>3, WithLunApply DEF TypeOK
  <2>4. ASSUME NEW p \in Ptns, NEW s \in Slots
        PROVE  /\ LunOf[p][s] < at.lun => \A c \in Copies : gpt[c][p][s] = ram[p][s]
               /\ LunOf[p][s] = at.lun /\ at.iter = Backup => gpt[Primary][p][s] = ram[p][s]
    BY <2>1, <2>4 DEF Written
  <2>5. ASSUME at.iter = Backup, NEW p \in Ptns, NEW s \in Slots, LunOf[p][s] <= at.lun,
               NEW c \in Copies
        PROVE  gpt'[c][p][s] = ram[p][s]
    <3>1. CASE LunOf[p][s] < at.lun
      BY <2>3, <2>4, <3>1
    <3>2. CASE LunOf[p][s] = at.lun
      BY <2>3, <2>4, <2>5, <3>2 DEF Copies
    <3> QED
      BY <2>2, <2>5, <3>1, <3>2, LunInLuns DEF Luns
  <2>6. Written'
    <3>1. CASE at.iter = Primary
      <4>1. pc' = "flush" /\ at'.lun = at.lun /\ at'.iter = Backup
        BY <1>1, <1>11, <2>1, <3>1 DEF WriteCopy
      <4>2. ASSUME NEW p \in Ptns, NEW s \in Slots
            PROVE  /\ LunOf[p][s] < at.lun =>
                        \A c \in Copies : gpt'[c][p][s] = ram[p][s]
                   /\ LunOf[p][s] = at.lun => gpt'[Primary][p][s] = ram[p][s]
        BY <2>3, <2>4, <3>1, CopiesDiffer
      <4> QED
        BY <2>1, <4>1, <4>2 DEF Written
    <3>2. CASE at.iter = Backup /\ at.lun + 1 < MaxLuns
      <4>1. at' = [lun |-> at.lun + 1, iter |-> Primary]
        BY <1>11, <2>1, <3>2, CopiesDiffer DEF WriteCopy
      <4>2. ASSUME NEW p \in Ptns, NEW s \in Slots, LunOf[p][s] < at.lun + 1
            PROVE  \A c \in Copies : gpt'[c][p][s] = ram[p][s]
        <5>1. LunOf[p][s] <= at.lun
          BY <2>2, <4>2, LunInLuns DEF Luns
        <5> QED
          BY <2>5, <3>2, <5>1
      <4> QED
        BY <2>1, <4>1, <4>2, CopiesDiffer DEF Written
    <3>3. CASE at.iter = Backup /\ ~(at.lun + 1 < MaxLuns)
      <4>1. at' = Start
        BY <1>11, <2>1, <3>3, CopiesDiffer DEF WriteCopy
      <4> QED
        BY <2>1, <4>1, LunInLuns, CopiesDiffer DEF Written, Start
    <3> QED
      BY <2>2, <3>1, <3>2, <3>3 DEF Copies
  <2>7. TriesTaken'
    <3> SUFFICES ASSUME faults <= 1
                 PROVE  TriesTaken'
      BY <2>1 DEF TriesTaken
    <3>1. \A c \in Copies, s \in Slots : gpt'[c]["boot"][s] = ram["boot"][s]
                                         \/ gpt'[c]["boot"][s] = gpt[c]["boot"][s]
      BY <2>3, BootIsPtn
    <3>2. Bounded(ram, tries) /\ \A c \in Copies : Bounded(gpt'[c], tries)
      BY <3>1, MixedBounded DEF TriesTaken
    <3>3. "flush" \notin TakenLabels /\ (pc' = "flush" \/ pc' = ret)
      BY <1>11, <2>1 DEF WriteCopy, TakenLabels
    <3>4. Ahead(TakenLabels)' => Ahead(TakenLabels)
      BY <2>1, <3>3 DEF Ahead
    <3>5. ASSUME op = "find", Ahead(TakenLabels)
          PROVE  Room(ram, tries, slot) /\ slot \in Slots
      BY <1>1, <3>5 DEF TriesTaken, TypeInv, SlotKnown, Ahead, SlotLabels, TakenLabels
    <3>6. ASSUME op = "find", ret = "found", faults = 0
          PROVE  \A c \in Copies : Room(gpt'[c], tries, slot)
      <4>1. Room(ram, tries, slot) /\ slot \in Slots
        BY <2>1, <3>5, <3>6 DEF Ahead, TakenLabels
      <4>2. \A c \in Copies : Room(gpt[c], tries, slot)
        BY <2>1, <3>6 DEF TriesTaken
      <4> QED
        BY <3>1, <4>1, <4>2, MixedBounded
    <3>7. ASSUME op = "find", pc' = "found"
          PROVE  \A c \in Copies : Room(gpt'[c], tries, slot)
      <4>1. ret = "found" /\ at.iter = Backup /\ ~(at.lun + 1 < MaxLuns)
        BY <1>11, <2>1, <2>2, <3>3, <3>7, CopiesDiffer DEF WriteCopy, Copies
      <4>2. Room(ram, tries, slot) /\ slot \in Slots
        BY <2>1, <3>5, <3>7, <4>1 DEF Ahead, TakenLabels
      <4>3. LunOf["boot"][slot] <= at.lun
        BY <2>2, <4>1, <4>2, BootIsPtn, LunInLuns, TableAssumption DEF Luns
      <4>4. \A c \in Copies : gpt'[c]["boot"][slot] = ram["boot"][slot]
        BY <2>5, <4>1, <4>2, <4>3, BootIsPtn
      <4> QED
        BY <4>2, <4>4 DEF Room
    <3> QED
      BY <2>1, <3>2, <3>4, <3>5, <3>6, <3>7 DEF TriesTaken
  <2> QED
    BY <2>6, <2>7
<1>12. CASE IoError
  <2>1. /\ pc = "flush" /\ pc' = ret /\ faults' = faults + 1 /\ at' = Start
        /\ UNCHANGED <<ram, gpt, ret, op, slot, tries>>
    BY <1>12 DEF IoError, Fault, HalfWritten
  <2>2. Written'
    BY <2>1, LunInLuns, CopiesDiffer DEF Written, Start
  <2>3. TriesTaken'
    <3> SUFFICES ASSUME faults = 0
                 PROVE  TriesTaken'
      BY <1>1, <2>1 DEF TriesTaken
    <3>1. ret # "flush"
      BY <2>1, SettledKinds DEF CacheInv, Cached
    <3> QED
      BY <1>1, <2>1, <3>1 DEF TriesTaken, Bounded, Room, Ahead
  <2> QED
    BY <2>2, <2>3
<1>13. CASE DefaultSlot
  <2>1. /\ ram' = WithDefault(ram) /\ tries' = [tries EXCEPT !["_a"] = 0]
        /\ pc' = "flush" /\ ret' = pc /\ at' = Start /\ UNCHANGED <<gpt, faults>>
        /\ pc \in NeedsActive /\ "_a" \in Slots
    BY <1>13 DEF DefaultSlot, FlushThen, Slots
  <2>2. \A x \in Slots : x # "_a" => ram'["boot"][x] = ram["boot"][x]
    BY <1>1, <2>1, ArmingKeeps
  <2> QED
    BY <1>3, <1>5, <2>1, <2>2 DEF NeedsActive, TakenLabels
<1>14. CASE NoActiveSlot \/ Query
  BY <1>1, <1>2, <1>14 DEF NoActiveSlot, Fail, NeedsActive, Query, Ahead, TakenLabels
<1>15. CASE FindProven
  <2>1. /\ pc = "find" /\ pc' = "validate" /\ slot' = ActiveOf(ram)
        /\ ram["boot"][ActiveOf(ram)].suc
        /\ UNCHANGED <<ram, gpt, tries, op, faults>>
    BY <1>15 DEF FindProven, Proven
  <2> QED
    BY <2>1 DEF Written, TriesTaken, Room, Bounded
<1>16. CASE FindOnTrial
  <2>1. /\ pc = "find" /\ slot' = ActiveOf(ram) /\ OnTrial(ram["boot"][ActiveOf(ram)])
        /\ ActiveOf(ram) \in Slots
        /\ UNCHANGED <<gpt, tries, op, faults>>
    BY <1>16, ActiveOfType DEF FindOnTrial
  <2>2. CASE op = "boot"
    <3>1. pc' = "validate" /\ ram' = ram
      BY <1>16, <2>2 DEF FindOnTrial
    <3> QED
      BY <2>1, <2>2, <3>1 DEF Written, TriesTaken, Bounded
  <2>3. CASE op # "boot"
    <3>1. /\ pc' = "flush" /\ ret' = "validate" /\ at' = Start
          /\ ram' = WithTryUsed(ram, ActiveOf(ram))
      BY <1>16, <2>3 DEF FindOnTrial, FlushThen
    <3>2. faults <= 1 => Bounded(ram', tries) /\ Room(ram', tries, ActiveOf(ram))
      BY <1>1, <2>1, <3>1, TryTaken DEF TriesTaken
    <3>3. Written'
      BY <3>1, LunInLuns, CopiesDiffer DEF Written, Start
    <3> QED
      BY <2>1, <3>1, <3>2, <3>3 DEF TriesTaken
  <2> QED
    BY <2>2, <2>3
<1>17. CASE FindUnbootable
  BY <1>1, <1>2, <1>17 DEF FindUnbootable, Ahead, TakenLabels
<1>18. CASE ValidateSlotGuids
  BY <1>1, <1>2, <1>18, <1>31 DEF ValidateSlotGuids, Fail, Ahead, TakenLabels
<1>19. CASE MarkPtnActive
  <2>1. /\ pc \in {"markFound", "markSet"} /\ ram' = WithActiveBits(ram, slot)
        /\ pc' = "flush" /\ at' = Start /\ UNCHANGED <<gpt, tries, op, slot, faults>>
        /\ ret' = (IF pc = "markFound" THEN "found" ELSE "setDone")
    BY <1>19 DEF MarkPtnActive, FlushThen
  <2>2. slot \in Slots
    BY <1>1, <2>1 DEF TypeInv, SlotKnown, Ahead, SlotLabels
  <2>3. \A x \in Slots : /\ ram'["boot"][x].suc = ram["boot"][x].suc
                         /\ ram'["boot"][x].ret = ram["boot"][x].ret
    BY <1>1, <2>1, <2>2, CountsKept
  <2>4. /\ faults <= 1 => Bounded(ram', tries)
        /\ Room(ram, tries, slot) => Room(ram', tries, slot)
    BY <2>2, <2>3, SameBounded DEF TriesTaken
  <2>5. CASE pc = "markSet"
    BY <1>3, <2>1, <2>4, <2>5 DEF TriesTaken, TakenLabels
  <2>6. CASE pc = "markFound"
    <3>1. Written'
      BY <2>1, LunInLuns, CopiesDiffer DEF Written, Start
    <3>2. faults <= 1 /\ op = "find" => Room(ram, tries, slot)
      BY <2>6 DEF TriesTaken, Ahead, TakenLabels
    <3>3. faults = 0 => \A c \in Copies : gpt[c] = ram
      BY <2>6 DEF CacheInv, Cached, Settled
    <3> QED
      BY <1>1, <2>1, <2>4, <2>6, <3>1, <3>2, <3>3 DEF TriesTaken
  <2> QED
    BY <2>1, <2>5, <2>6
<1>20. CASE MarkUnbootable
  <2>1. ActiveOf(ram) \in Slots
    BY <1>20, ActiveOfType DEF MarkUnbootable
  <2>2. CASE firstBoot /\ ~UserVariant
    <3>1. /\ UNCHANGED <<ram, gpt, tries, op, faults>>
          /\ pc = "unbootable" /\ pc' = "fallback"
      BY <1>20, <2>2 DEF MarkUnbootable
    <3> QED
      BY <3>1 DEF Written, TriesTaken, Bounded, Ahead, TakenLabels
  <2>3. CASE ~(firstBoot /\ ~UserVariant)
    <3>1. /\ ram' = WithUnbootable(ram, ActiveOf(ram)) /\ UNCHANGED <<gpt, tries, faults>>
          /\ pc' = "flush" /\ ret' = "fallback" /\ at' = Start
      BY <1>20, <2>3 DEF MarkUnbootable, FlushThen
    <3>2. \A x \in Slots : /\ ram'["boot"][x].suc = ram["boot"][x].suc
                           /\ ram'["boot"][x].ret = ram["boot"][x].ret
      BY <1>1, <2>1, <3>1, CountsKept
    <3>3. faults <= 1 => Bounded(ram', tries)
      BY <3>2, SameBounded DEF TriesTaken
    <3> QED
      BY <1>3, <3>1, <3>3 DEF TriesTaken, TakenLabels
  <2> QED
    BY <2>2, <2>3
<1>21. CASE Fallback
  <2>1. /\ pc = "fallback" /\ pc' \in {"setActive", "idle"} /\ op' # "find"
        /\ UNCHANGED <<ram, gpt, tries, faults>>
    BY <1>21 DEF Fallback, Fail
  <2> QED
    BY <2>1 DEF Written, TriesTaken, Bounded
<1>22. CASE SetActiveSame \/ SetActiveOther
  <2> DEFINE w == WithActive(ram, slot, op = "setActive")
  <2>1. /\ pc = "setActive" /\ pc' \in {"setDone", "setLun", "markSet"}
        /\ tries' = [tries EXCEPT ![slot] = 0] /\ UNCHANGED <<gpt, op>>
        /\ ram' = w \/ ram' = WithTypesSwapped(w)
    BY <1>22 DEF SetActiveSame, SetActiveOther
  <2>8. faults <= faults'
    <3>1. CASE SetActiveSame
      BY <1>31, <3>1
    <3>2. CASE SetActiveOther
      BY <1>1, <3>2 DEF SetActiveOther
    <3> QED
      BY <1>22, <3>1, <3>2
  <2>2. slot \in Slots
    BY <1>1, <2>1 DEF TypeInv, SlotKnown, Ahead, SlotLabels
  <2>3. (op = "setActive") \in BOOLEAN
    OBVIOUS
  <2>4. w \in Table
    BY <1>1, <2>2, <2>3, WithActiveType
  <2>5. \A x \in Slots : x # slot =>
          /\ w["boot"][x].suc = ram["boot"][x].suc
          /\ w["boot"][x].ret = ram["boot"][x].ret
    <3>1. \A r \in BOOLEAN, x \in Slots : x # slot =>
            LET e == WithActive(ram, slot, r)["boot"][x] IN
              e.suc = ram["boot"][x].suc /\ e.ret = ram["boot"][x].ret
      BY <1>1, <2>2, ArmingKeeps
    <3> QED
      BY <2>3, <3>1, Zenon
  <2> HIDE DEF w
  <2>6. \A x \in Slots : x # slot =>
          /\ ram'["boot"][x].suc = ram["boot"][x].suc
          /\ ram'["boot"][x].ret = ram["boot"][x].ret
    <3>1. \A x \in Slots : LET e == WithTypesSwapped(w)["boot"][x] IN
            e.suc = w["boot"][x].suc /\ e.ret = w["boot"][x].ret
      BY <2>2, <2>4, CountsKept
    <3> QED
      BY <2>1, <2>5, <3>1
  <2>7. faults <= 1 => Bounded(ram', tries') /\ \A c \in Copies : Bounded(gpt[c], tries')
    BY <1>5, <2>1, <2>2, <2>6
  <2> QED
    <3>1. faults' <= 1 => faults <= 1
      BY <1>1, <2>8
    <3>2. pc' \notin TakenLabels \cup {"flush"}
      BY <2>1 DEF TakenLabels
    <3> QED
      BY <2>1, <2>7, <3>1, <3>2 DEF Written, TriesTaken, Ahead
<1>23. CASE SetBootLun
  <2>1. /\ pc = "setLun" /\ pc' = "markSet" /\ UNCHANGED <<ram, gpt, tries>>
        /\ faults <= faults'
    BY <1>23, <1>31 DEF SetBootLun
  <2> QED
    BY <1>1, <2>1 DEF Written, TriesTaken, Bounded, Ahead, TakenLabels
<1>24. CASE FinishSetActive
  BY <1>3, <1>4, <1>24 DEF FinishSetActive, FlushThen, TakenLabels
<1>25. CASE ClearUnbootable
  <2>1. /\ ram' = WithUnbootableCleared(ram, ActiveOf(ram)) /\ UNCHANGED <<gpt, tries, faults>>
        /\ pc' = "flush" /\ ret' = "find" /\ at' = Start /\ ActiveOf(ram) \in Slots
    BY <1>25, ActiveOfType DEF ClearUnbootable, FlushThen
  <2>2. \A x \in Slots : /\ ram'["boot"][x].suc = ram["boot"][x].suc
                         /\ ram'["boot"][x].ret = ram["boot"][x].ret
    BY <1>1, <2>1, CountsKept
  <2>3. faults <= 1 => Bounded(ram', tries)
    BY <2>2, SameBounded DEF TriesTaken
  <2> QED
    BY <1>3, <2>1, <2>3 DEF TriesTaken, TakenLabels
<1>26. CASE FastbootUpdateAttr
  <2>1. /\ ram' = WithFlashedAttr(ram, slot) /\ tries' = [tries EXCEPT ![slot] = 0]
        /\ pc = "flashAttr" /\ pc' = "flush" /\ ret' = "idle" /\ at' = Start
        /\ UNCHANGED <<gpt, faults>>
    BY <1>26 DEF FastbootUpdateAttr, FlushThen
  <2>2. slot \in Slots
    BY <1>1, <2>1 DEF TypeInv, SlotKnown, Ahead, SlotLabels
  <2>3. \A x \in Slots : x # slot => ram'["boot"][x] = ram["boot"][x]
    BY <1>1, <2>1, <2>2, ArmingKeeps
  <2> QED
    BY <1>3, <1>5, <2>1, <2>2, <2>3 DEF TakenLabels
<1>27. CASE Call
  <2>1. /\ pc' \in {"find", "clear", "setActive", "flashAttr"}
        /\ UNCHANGED <<ram, gpt, tries, faults>>
    BY <1>27 DEF Call, Enter
  <2> QED
    BY <2>1 DEF Written, TriesTaken, Bounded, Ahead, TakenLabels
<1>28. CASE VerifyFails \/ BootLinuxReturns
  BY <1>1, <1>2, <1>28 DEF VerifyFails, BootLinuxReturns, Ahead, TakenLabels
<1>29. CASE BootOs
  <2>1. /\ pc = "found" /\ pc' = "os" /\ UNCHANGED <<ram, gpt, op, slot, faults>>
        /\ tries' = [tries EXCEPT ![slot] =
                       IF op = "find" /\ ~ram["boot"][slot].suc /\ @ <= MaxRetry
                       THEN @ + 1 ELSE @]
    BY <1>29 DEF BootOs
  <2>2. slot \in Slots /\ tries[slot] \in Int
    BY <1>1, <2>1, TableAssumption DEF TypeInv, SlotKnown, Ahead, SlotLabels, TryCounts
  <2>3. CASE tries' = tries
    BY <2>1, <2>3 DEF Written, TriesTaken, Ahead, TakenLabels
  <2>4. CASE op = "find" /\ tries' = [tries EXCEPT ![slot] = @ + 1]
    <3>1. ASSUME NEW t \in Table, Bounded(t, tries), Room(t, tries, slot)
          PROVE  Bounded(t, tries')
      <4>1. tries'[slot] = tries[slot] + 1 /\ \A x \in Slots : x # slot => tries'[x] = tries[x]
        BY <1>1, <2>2, <2>4
      <4> QED
        BY <2>2, <3>1, <4>1, RetType DEF Bounded, Room
    <3>2. ASSUME faults <= 1
          PROVE  /\ Bounded(ram, tries) /\ Room(ram, tries, slot)
                 /\ \A c \in Copies : Bounded(gpt[c], tries) /\ Room(gpt[c], tries, slot)
      BY <2>1, <2>4, <3>2 DEF TriesTaken, Ahead, TakenLabels
    <3>3. faults <= 1 => Bounded(ram, tries') /\ \A c \in Copies : Bounded(gpt[c], tries')
      BY <1>1, <3>1, <3>2
    <3> QED
      BY <2>1, <3>3 DEF Written, TriesTaken, Ahead, TakenLabels
  <2> QED
    BY <1>1, <2>1, <2>2, <2>3, <2>4
<1>30. CASE OsMarkSuccessful
  <2>1. /\ pc = "os" /\ pc' = "os" /\ UNCHANGED <<ram, faults>>
        /\ tries' = [tries EXCEPT ![slot] = 0]
        /\ \A c \in Copies : gpt'[c] = UpdBoot(gpt[c], slot,
                                         [gpt[c]["boot"][slot] EXCEPT !.suc = TRUE])
    BY <1>30 DEF OsMarkSuccessful
  <2>2. slot \in Slots
    BY <1>1, <2>1 DEF TypeInv, SlotKnown, Ahead, SlotLabels
  <2>3. faults <= 1 => Bounded(ram, tries') /\ \A c \in Copies : Bounded(gpt[c], tries')
    BY <1>5, <2>1, <2>2
  <2>4. ASSUME faults <= 1, NEW c \in Copies
        PROVE  Bounded(gpt'[c], tries')
    <3> DEFINE e == [gpt[c]["boot"][slot] EXCEPT !.suc = TRUE]
    <3>1. gpt[c]["boot"][slot] \in Entry
      BY <1>1, <2>2, BootEntryType
    <3>2. e.suc
      BY <3>1 DEF Entry
    <3>3. gpt'[c] = UpdBoot(gpt[c], slot, e)
      BY <2>1
    <3> HIDE DEF e
    <3> QED
      BY <1>1, <2>2, <2>3, <2>4, <3>2, <3>3, UpdBootBounded
  <2> QED
    BY <2>1, <2>3, <2>4 DEF Written, TriesTaken, Ahead, TakenLabels
<1> QED
  BY <1>6, <1>7, <1>8, <1>9, <1>10, <1>11, <1>12, <1>13, <1>14, <1>15, <1>16,
     <1>17, <1>18, <1>19, <1>20, <1>21, <1>22, <1>23, <1>24, <1>25, <1>26, <1>27,
     <1>28, <1>29, <1>30
  DEF Next, Loader, Environment, Flush

\* A slot that never reported success is started at most MaxRetry times after
\* it was armed, if at most one write is lost or the power is cut at most once.
THEOREM TriesInvariance == Spec => []AttemptsBounded
<1>1. Spec => []TriesInv
  BY TriesInvInit, TriesInvNext, PTL DEF Spec
<1>2. TriesInv => AttemptsBounded
  <2> SUFFICES ASSUME TriesInv, faults <= 1
               PROVE  Bounded(View, tries)
    BY DEF AttemptsBounded, Bounded
  <2>1. Bounded(gpt[Primary], tries) /\ Bounded(gpt[Backup], tries)
    BY CopiesDiffer DEF TriesInv, TriesTaken
  <2>2. \A s \in Slots : View["boot"][s] = gpt[Primary]["boot"][s]
                         \/ View["boot"][s] = gpt[Backup]["boot"][s]
    BY BootIsPtn DEF View, Presented
  <2> QED
    BY <2>1, <2>2, MixedBounded
<1> QED
  BY <1>1, <1>2, PTL

-----------------------------------------------------------------------------
(* The slot manager implements TableStore under one fault.                 *)

LEMMA StoreNames ==
  /\ Store!Luns = Luns
  /\ Store!Table = Table
  /\ \A t, l, u : Store!Put(t, l, u) = WithLun(t, l, u)
<1>1. Store!Luns = Luns
  BY DEF Store!Luns, Luns
<1>2. Store!Slots = Slots
  BY DEF Store!Slots, Slots
<1>3. Store!Entry = Entry
  BY DEF Store!Entry, Entry, Store!MaxPriority, MaxPriority
<1>4. Store!Table = Table
  BY <1>2, <1>3 DEF Store!Table, Table
<1>5. \A t, l, u : Store!Put(t, l, u) = WithLun(t, l, u)
  BY <1>2 DEF Store!Put, WithLun
<1> QED
  BY <1>1, <1>4, <1>5

\* What a unit presents changes when its primary copy is written and right, or
\* when its backup copy is written while the primary copy is broken.
UnitStored ==
  IF at.iter = Primary THEN <<at.lun, Primary>> \notin torn'
                       ELSE <<at.lun, Primary>> \in torn

LEMMA WriteView ==
  ASSUME CutInv, WriteCopy
  PROVE  View' = IF UnitStored THEN WithLun(View, at.lun, ram) ELSE View
<1>1. /\ gpt' = [gpt EXCEPT ![at.iter] = WithLun(@, at.lun, ram)]
      /\ torn' = torn \/ torn' = torn \ {<<at.lun, at.iter>>}
  BY DEF WriteCopy
<1>2. /\ gpt \in [Copies -> Table] /\ at \in [lun : Luns, iter : Copies]
      /\ ram \in Table
  BY DEF CutInv, TornInv, TypeInv, TypeOK
<1>3. ASSUME NEW p \in Ptns, NEW s \in Slots
      PROVE  View[p][s] = IF <<LunOf[p][s], Primary>> \in torn
                          THEN gpt[Backup][p][s] ELSE gpt[Primary][p][s]
  BY DEF View, Presented
<1>4. ASSUME NEW c \in Copies, NEW p \in Ptns, NEW s \in Slots
      PROVE  gpt'[c][p][s] = IF c = at.iter /\ LunOf[p][s] = at.lun
                             THEN ram[p][s] ELSE gpt[c][p][s]
  BY <1>1, <1>2, WithLunApply
<1>5. ASSUME NEW p \in Ptns, NEW s \in Slots
      PROVE  (IF <<LunOf[p][s], Primary>> \in torn'
              THEN gpt'[Backup][p][s] ELSE gpt'[Primary][p][s])
             = IF UnitStored /\ LunOf[p][s] = at.lun THEN ram[p][s] ELSE View[p][s]
  <2>1. CASE LunOf[p][s] # at.lun
    <3>1. <<LunOf[p][s], Primary>> \in torn' <=> <<LunOf[p][s], Primary>> \in torn
      BY <1>1, <2>1
    <3> QED
      BY <1>3, <1>4, <2>1, <3>1, CopiesDiffer
  <2>2. CASE LunOf[p][s] = at.lun /\ at.iter = Primary
    BY <1>1, <1>3, <1>4, <2>2, CopiesDiffer DEF UnitStored
  <2>3. CASE LunOf[p][s] = at.lun /\ at.iter # Primary
    <3>1. at.iter = Backup
      BY <1>2, <2>3 DEF Copies
    <3>2. <<at.lun, Primary>> \in torn' <=> <<at.lun, Primary>> \in torn
      BY <1>1, <3>1, CopiesDiffer
    <3> QED
      BY <1>3, <1>4, <2>3, <3>1, <3>2, CopiesDiffer DEF UnitStored
  <2> QED
    BY <2>1, <2>2, <2>3
<1>6. View' = [p \in Ptns |-> [s \in Slots |->
                 IF UnitStored /\ LunOf[p][s] = at.lun THEN ram[p][s] ELSE View[p][s]]]
  <2>1. View' = [p \in Ptns |-> [s \in Slots |->
                   IF <<LunOf[p][s], Primary>> \in torn'
                   THEN gpt'[Backup][p][s] ELSE gpt'[Primary][p][s]]]
    BY DEF View, Presented
  <2> QED
    BY <1>5, <2>1
<1>7. CASE UnitStored
  BY <1>6, <1>7 DEF WithLun
<1>8. CASE ~UnitStored
  <2>1. View = [p \in Ptns |-> [s \in Slots |-> View[p][s]]]
    BY DEF View, Presented
  <2> QED
    BY <1>6, <1>8, <2>1
<1> QED
  BY <1>7, <1>8

\* A copy that the firmware restores does not change what is presented.
LEMMA RestoreView ==
  ASSUME CutInv, RestoreCopy, \A x, y \in torn : x = y
  PROVE  View' = View
<1>1. PICK l \in Luns, c \in Copies :
        /\ <<l, c>> \in torn
        /\ gpt' = [gpt EXCEPT ![c] = WithLun(@, l, gpt[1 - c])]
        /\ torn' = torn \ {<<l, c>>}
  BY DEF RestoreCopy
<1>2. torn = {<<l, c>>} /\ torn' = {}
  BY <1>1
<1>3. gpt \in [Copies -> Table]
  BY DEF CutInv, TornInv, TypeInv, TypeOK
<1>4. View' = [p \in Ptns |-> [s \in Slots |-> gpt'[Primary][p][s]]]
  BY <1>2 DEF View, Presented
<1>5. CASE c = Backup
  <2>1. gpt'[Primary] = gpt[Primary]
    BY <1>1, <1>3, <1>5, CopiesDiffer
  <2>2. View = [p \in Ptns |-> [s \in Slots |-> gpt[Primary][p][s]]]
    BY <1>2, <1>5, CopiesDiffer DEF View, Presented
  <2> QED
    BY <1>4, <2>1, <2>2
<1>6. CASE c = Primary
  <2>1. gpt'[Primary] = WithLun(gpt[Primary], l, gpt[Backup])
    BY <1>1, <1>3, <1>6, CopiesDiffer DEF Primary, Backup
  <2>2. View = [p \in Ptns |-> [s \in Slots |->
                  IF LunOf[p][s] = l THEN gpt[Backup][p][s]
                  ELSE gpt[Primary][p][s]]]
    BY <1>2, <1>6 DEF View, Presented
  <2>3. View' = WithLun(gpt[Primary], l, gpt[Backup])
    BY <1>4, <2>1 DEF WithLun
  <2> QED
    BY <2>2, <2>3 DEF WithLun
<1> QED
  BY <1>5, <1>6 DEF Copies

-----------------------------------------------------------------------------
(* Where UpdatePartitionAttributes returns to                              *)

ReturnLabels == NeedsActive \cup
  {"idle", "validate", "found", "fallback", "setDone", "trail", "reset"}

ReturnInv == ret \in ReturnLabels

LEMMA ReturnInvNext == ReturnInv /\ [Next]_vars => ReturnInv'
<1> SUFFICES ASSUME ReturnInv, [Next]_vars
             PROVE  ReturnInv'
  OBVIOUS
<1> USE DEF ReturnInv, ReturnLabels, NeedsActive
<1>1. ASSUME UNCHANGED ret
      PROVE  ReturnInv'
  BY <1>1
<1>2. CASE UNCHANGED vars
  BY <1>1, <1>2 DEF vars
<1>3. CASE PowerUp \/ RestoreCopy \/ Present
  BY <1>3 DEF PowerUp, RestoreCopy, Present, Fault
<1>4. CASE Flush
  BY <1>4 DEF Flush, WriteCopy, IoError, Fault, HalfWritten
<1>5. CASE DefaultSlot \/ NoActiveSlot \/ Query
  BY <1>5 DEF DefaultSlot, NoActiveSlot, Query, FlushThen
<1>6. CASE FindProven \/ FindOnTrial \/ FindUnbootable
  BY <1>6 DEF FindProven, FindOnTrial, FindUnbootable, FlushThen
<1>7. CASE ValidateSlotGuids \/ MarkPtnActive
  BY <1>7 DEF ValidateSlotGuids, MarkPtnActive, FlushThen, Fault
<1>8. CASE MarkUnbootable \/ Fallback \/ ResetSystem
  BY <1>8 DEF MarkUnbootable, Fallback, ResetSystem, FlushThen
<1>9. CASE SetActiveSame \/ SetActiveOther \/ SetBootLun \/ FinishSetActive
  BY <1>9 DEF SetActiveSame, SetActiveOther, SetBootLun, FinishSetActive, FlushThen,
              RepairBootLun, LunSwitched, LunRequestFails, SwitchedLun, Fault
<1>10. CASE ClearUnbootable \/ FastbootUpdateAttr
  BY <1>10 DEF ClearUnbootable, FastbootUpdateAttr, FlushThen
<1>11. CASE Environment
  BY <1>11 DEF Environment, Call, Enter, VerifyFails, BootOs, BootLinuxReturns,
               OsMarkSuccessful, Reboot, PowerCut, Fault, HalfWritten
<1> QED
  BY <1>2, <1>3, <1>4, <1>5, <1>6, <1>7, <1>8, <1>9, <1>10, <1>11
  DEF Next, Loader

\* The units after n, with and without n
LEMMA LunOrder ==
  ASSUME NEW n \in Luns
  PROVE  /\ {l \in Luns : l > n} = {l \in Luns : l > n \/ l = n} \ {n}
         /\ {l \in Luns : l > n} = {l \in Luns : l > n + 1 \/ l = n + 1}
<1>1. n \in Int /\ MaxLuns \in Int
  BY TableAssumption DEF Luns
<1>2. \A l \in Luns : l \in Int
  BY <1>1 DEF Luns
<1>3. ASSUME NEW l \in Luns
      PROVE  /\ l > n <=> ((l > n \/ l = n) /\ l # n)
             /\ l > n <=> (l > n + 1 \/ l = n + 1)
  BY <1>1, <1>2
<1> HIDE DEF Luns
<1> QED
  BY <1>3, Zenon

-----------------------------------------------------------------------------
(* Every step is a step of TableStore or leaves its state as it is.        *)

StoreInv == CutInv /\ ReturnInv

LEMMA StoreStep ==
  ASSUME MaxFaults <= 1, StoreInv, StoreInv', [Next]_vars
  PROVE  [Store!StoreNext]_<<ram, View, Pending, Phase, faults>>
<1> DEFINE Abs == <<ram, View, Pending, Phase, faults>>
<1>1. /\ TypeOK /\ TypeOK' /\ TornBudget /\ CutInv
      /\ ret \in ReturnLabels
  BY DEF StoreInv, CutInv, TornInv, TypeInv, ReturnInv
<1>2. /\ faults \in 0 .. MaxFaults /\ MaxFaults \in Nat
      /\ at \in [lun : Luns, iter : Copies]
      /\ ram \in Table /\ ram' \in Table
  BY <1>1, ManagerAssumption DEF TypeOK
<1>3. View \in Table /\ View' \in Table
  <2>1. View \in Table
    BY <1>1, ViewType
  <2>2. View' \in Table
    BY <1>1 DEF TypeOK, View, Presented, Table, Copies, Primary, Backup
  <2> QED
    BY <2>1, <2>2
<1>4. Pending' = Luns \/ pc' # "flush" \/ at' # Start
  <2> SUFFICES ASSUME pc' = "flush", at' = Start
               PROVE  Pending' = Luns
    OBVIOUS
  <2>1. at'.lun = 0 /\ at'.iter = Primary
    BY DEF Start
  <2>2. \A l \in Luns : l > 0 \/ l = 0
    BY TableAssumption DEF Luns
  <2>3. Pending' = {l \in Luns : l > 0 \/ (l = 0 /\ TRUE)}
    BY <2>1 DEF Pending
  <2> QED
    BY <2>2, <2>3
<1>5. faults = 0 \/ faults = 1
  BY <1>2
<1>7. \A x, y \in torn : x = y
  BY <1>1, <1>5 DEF TornBudget
<1>8. pc # "flush" => Pending = {}
  BY DEF Pending
<1>9. pc' # "flush" => Pending' = {}
  BY DEF Pending
<1>10. ASSUME UNCHANGED <<gpt, torn>>
       PROVE  View' = View
  BY <1>10 DEF View
\* A step that at most changes the table in RAM and begins to store it
<1>11. ASSUME UNCHANGED <<gpt, torn>>, faults' = faults \/ Fault,
              Phase = "loader", Phase' = "loader",
              pc # "flush", pc' # "flush" \/ at' = Start
       PROVE  Store!Edit
  <2>1. Pending = {} /\ Pending' \in {{}, Luns}
    BY <1>4, <1>8, <1>9, <1>11
  <2>2. faults' \in {faults, faults + 1} \cap 0 .. MaxFaults
    BY <1>2, <1>11 DEF Fault
  <2> QED
    BY <1>2, <1>10, <1>11, <2>1, <2>2, StoreNames DEF Store!Edit
<1> USE DEF storage
<1>12. CASE UNCHANGED vars
  BY <1>12 DEF vars, View, Pending, Phase
<1>13. CASE PowerUp
  BY <1>8, <1>9, <1>10, <1>13 DEF PowerUp, Phase
<1>14. CASE RestoreCopy
  <2>1. View' = View
    BY <1>1, <1>7, <1>14, RestoreView
  <2> QED
    BY <1>8, <1>9, <1>14, <2>1 DEF RestoreCopy, Phase
<1>15. CASE Present
  <2>1. torn = {} /\ faults' = faults
    BY <1>1, <1>2, <1>5, <1>15 DEF Present, TornBudget, Fault
  <2>2. Phase = "off" /\ Phase' = "loader" /\ Pending = {} /\ Pending' = {}
    BY <1>8, <1>9, <1>15 DEF Present, Phase, Fault
  <2>3. View' = View /\ ram' = View
    BY <1>10, <1>15 DEF Present, Fault
  <2> QED
    BY <2>1, <2>2, <2>3 DEF Store!StoreNext, Store!Load
<1>16. CASE WriteCopy
  <2>1. pc = "flush" /\ Phase = "loader"
    BY <1>16 DEF WriteCopy, Phase
  <2>2. View' = IF UnitStored THEN WithLun(View, at.lun, ram) ELSE View
    BY <1>1, <1>16, WriteView
  <2>3. Phase' = "loader" /\ UNCHANGED <<ram, faults>>
    BY <1>1, <1>16 DEF WriteCopy, Phase, ReturnLabels, NeedsActive
  <2>4. at.lun \in Luns /\ Luns \subseteq Nat
    BY <1>2, TableAssumption DEF Luns
  \* A step that stores the unit at hand, and one that stores none
  <2>5. ASSUME UnitStored, at.lun \in Pending,
               \A k \in Pending : k \in Luns /\ (k > at.lun \/ k = at.lun),
               Pending' = Pending \ {at.lun}
        PROVE  Store!StoreUnit
    <3>1. ASSUME NEW k \in Pending
          PROVE  at.lun <= k
      <4>1. k \in Nat /\ at.lun \in Nat /\ (k > at.lun \/ k = at.lun)
        BY <2>4, <2>5, <3>1
      <4> QED
        BY <4>1
    <3>2. View' = Store!Put(View, at.lun, ram)
      BY <2>2, <2>5, StoreNames
    <3> QED
      BY <2>1, <2>3, <2>5, <3>1, <3>2 DEF Store!StoreUnit
  <2>6. ASSUME ~UnitStored, Pending' = Pending
        PROVE  UNCHANGED Abs
    BY <2>1, <2>2, <2>3, <2>6
  <2>7. CASE at.iter = Primary
    <3>1. pc' = "flush" /\ at'.lun = at.lun /\ at'.iter = Backup
      BY <1>2, <1>16, <2>7 DEF WriteCopy
    <3>2. Pending = {l \in Luns : l > at.lun \/ l = at.lun}
      BY <2>1, <2>7 DEF Pending
    <3>3. CASE UnitStored
      <4>1. <<at.lun, Primary>> \notin torn'
        BY <2>7, <3>3 DEF UnitStored
      <4>2. Pending' = {l \in Luns : l > at.lun}
        BY <3>1, <4>1, CopiesDiffer DEF Pending
      <4>3. Pending' = Pending \ {at.lun}
        BY <2>4, <3>2, <4>2, LunOrder
      <4> QED
        BY <2>4, <2>5, <3>2, <3>3, <4>3 DEF Store!StoreNext
    <3>4. CASE ~UnitStored
      <4>1. <<at.lun, Primary>> \in torn'
        BY <2>7, <3>4 DEF UnitStored
      <4>2. Pending' = {l \in Luns : l > at.lun \/ l = at.lun}
        BY <3>1, <4>1 DEF Pending
      <4> QED
        BY <2>6, <3>2, <3>4, <4>2
    <3> QED
      BY <3>3, <3>4
  <2>8. CASE at.iter # Primary
    <3>1. Pending' = {l \in Luns : l > at.lun}
      <4>1. CASE at.lun + 1 < MaxLuns
        <5>1. pc' = "flush" /\ at'.lun = at.lun + 1 /\ at'.iter = Primary
          BY <1>16, <2>1, <2>8, <4>1 DEF WriteCopy
        <5>2. Pending' = {l \in Luns : l > at.lun + 1 \/ l = at.lun + 1}
          BY <5>1 DEF Pending
        <5> QED
          BY <2>4, <5>2, LunOrder
      <4>2. CASE ~(at.lun + 1 < MaxLuns)
        <5>1. pc' # "flush"
          BY <1>1, <1>16, <2>8, <4>2 DEF WriteCopy, ReturnLabels, NeedsActive
        <5>2. {l \in Luns : l > at.lun} = {}
          BY <2>4, <4>2, TableAssumption DEF Luns
        <5> QED
          BY <1>9, <5>1, <5>2
      <4> QED
        BY <4>1, <4>2
    <3>2. CASE UnitStored
      <4>1. Pending = {l \in Luns : l > at.lun \/ l = at.lun}
        BY <2>1, <2>8, <3>2 DEF Pending, UnitStored
      <4>2. Pending' = Pending \ {at.lun}
        BY <2>4, <3>1, <4>1, LunOrder
      <4> QED
        BY <2>4, <2>5, <3>2, <4>1, <4>2 DEF Store!StoreNext
    <3>3. CASE ~UnitStored
      <4>1. Pending = {l \in Luns : l > at.lun}
        BY <2>1, <2>8, <3>3 DEF Pending, UnitStored
      <4> QED
        BY <2>6, <3>1, <3>3, <4>1
    <3> QED
      BY <3>2, <3>3
  <2> QED
    BY <2>7, <2>8
<1>17. CASE IoError
  <2>1. faults = 0 /\ faults < MaxFaults /\ faults' = faults + 1
    BY <1>2, <1>5, <1>17 DEF IoError, Fault
  <2>2. View' = View
    BY <1>1, <1>17, <2>1, HalfWrittenView DEF IoError
  <2>3. Phase = "loader" /\ Phase' = "loader" /\ Pending' = {} /\ ram' = ram
    BY <1>1, <1>9, <1>17 DEF IoError, Phase, ReturnLabels, NeedsActive
  <2> QED
    BY <2>1, <2>2, <2>3 DEF Store!StoreNext, Store!StoreFails
<1>18. CASE PowerCut
  <2>1. faults = 0
    BY <1>2, <1>5, <1>18 DEF PowerCut, Fault, HalfWritten
  <2>2. View' = View
    BY <1>1, <1>18, <2>1, CutStep
  <2>3. /\ Phase \in {"off", "loader"} /\ Phase' = "off" /\ Pending' = {}
        /\ faults < MaxFaults /\ faults' = faults + 1 /\ ram' = ram
    BY <1>9, <1>18 DEF PowerCut, Phase, Fault, HalfWritten
  <2> QED
    BY <2>2, <2>3 DEF Store!StoreNext, Store!Cut
<1>19. CASE OsMarkSuccessful
  <2>1. /\ Phase = "os" /\ Phase' = Phase /\ Pending' = Pending
        /\ ram' = ram /\ faults' = faults
    BY <1>8, <1>9, <1>19 DEF OsMarkSuccessful, Phase
  <2> QED
    BY <1>3, <2>1, StoreNames DEF Store!StoreNext, Store!OsWrite
<1>20. CASE BootOs
  <2>1. /\ Phase = "loader" /\ Phase' = "os" /\ Pending = {} /\ Pending' = {}
        /\ ram' = ram /\ faults' = faults /\ View' = View
    BY <1>8, <1>9, <1>10, <1>20 DEF BootOs, Phase
  <2> QED
    BY <2>1 DEF Store!StoreNext, Store!StartOs
<1>21. CASE Reboot \/ ResetSystem
  <2>1. /\ Phase \in {"loader", "os"} /\ Phase' = "off"
        /\ Pending = {} /\ Pending' = {}
        /\ ram' = ram /\ faults' = faults /\ View' = View
    BY <1>8, <1>9, <1>10, <1>21 DEF Reboot, ResetSystem, Phase
  <2> QED
    BY <2>1 DEF Store!StoreNext, Store!Down
<1>22. CASE DefaultSlot
  BY <1>11, <1>22 DEF DefaultSlot, FlushThen, NeedsActive, Phase, Store!StoreNext
<1>23. CASE NoActiveSlot
  BY <1>11, <1>23 DEF NoActiveSlot, Fail, NeedsActive, Phase, Store!StoreNext
<1>24. CASE Query \/ FindProven \/ FindUnbootable
  BY <1>11, <1>24 DEF Query, FindProven, FindUnbootable, Phase, Store!StoreNext
<1>25. CASE FindOnTrial
  BY <1>11, <1>25 DEF FindOnTrial, FlushThen, Phase, Store!StoreNext
<1>26. CASE ValidateSlotGuids
  BY <1>11, <1>26, LunOutcomes DEF ValidateSlotGuids, Fail, Phase, Store!StoreNext
<1>27. CASE MarkPtnActive
  BY <1>11, <1>27 DEF MarkPtnActive, FlushThen, Phase, Store!StoreNext
<1>28. CASE MarkUnbootable
  BY <1>11, <1>28 DEF MarkUnbootable, FlushThen, Phase, Store!StoreNext
<1>29. CASE Fallback
  BY <1>11, <1>29 DEF Fallback, Fail, Phase, Store!StoreNext
<1>30. CASE SetActiveSame \/ SetActiveOther \/ SetBootLun
  <2>1. /\ pc # "flush" /\ pc' # "flush" /\ Phase = "loader" /\ Phase' = "loader"
    BY <1>30 DEF SetActiveSame, SetActiveOther, SetBootLun, Phase
  <2>2. UNCHANGED <<gpt, torn>> /\ (faults' = faults \/ Fault)
    BY <1>30, LunOutcomes DEF SetActiveOther
  <2> QED
    BY <1>11, <2>1, <2>2 DEF Store!StoreNext
<1>31. CASE FinishSetActive
  BY <1>11, <1>31 DEF FinishSetActive, FlushThen, Phase, Store!StoreNext
<1>32. CASE ClearUnbootable \/ FastbootUpdateAttr
  BY <1>11, <1>32 DEF ClearUnbootable, FastbootUpdateAttr, FlushThen, Phase, Store!StoreNext
<1>33. CASE Call
  BY <1>11, <1>33 DEF Call, Enter, Phase, Store!StoreNext
<1>34. CASE VerifyFails \/ BootLinuxReturns
  BY <1>11, <1>34 DEF VerifyFails, BootLinuxReturns, Phase, Store!StoreNext
<1> QED
  BY <1>12, <1>13, <1>14, <1>15, <1>16, <1>17, <1>18, <1>19, <1>20, <1>21, <1>22,
     <1>23, <1>24, <1>25, <1>26, <1>27, <1>28, <1>29, <1>30, <1>31, <1>32, <1>33,
     <1>34
  DEF Next, Loader, Environment, Flush

LEMMA StoreStart == Init => Store!StoreInit
<1> SUFFICES ASSUME Init
             PROVE  Store!StoreInit
  OBVIOUS
<1>1. PICK t \in InitTables : ram = t /\ gpt = [c \in Copies |-> t] /\ torn = {}
  BY DEF Init
<1>2. t \in Table
  BY <1>1, ManagerAssumption
<1>3. View = t
  BY <1>1, <1>2, CopiesDiffer DEF View, Presented, Table
<1>4. Pending = {} /\ Phase = "off" /\ faults = 0
  BY DEF Init, Pending, Phase
<1> QED
  BY <1>1, <1>2, <1>3, <1>4, StoreNames DEF Store!StoreInit

\* With one power cut, failed request or failed repair, wherever it falls, the
\* two copies per unit, the order in which UpdatePartitionAttributes writes
\* them and the firmware's choice and repair behave like one register per
\* logical unit.
THEOREM StoreRefinement == MaxFaults <= 1 => (Spec => ImplementsStore)
<1> SUFFICES ASSUME MaxFaults <= 1
             PROVE  Spec => ImplementsStore
  OBVIOUS
<1>1. Init => StoreInv
  BY CutInvInit DEF StoreInv, ReturnInv, ReturnLabels, Init
<1>2. StoreInv /\ [Next]_vars => StoreInv'
  BY CutInvNext, ReturnInvNext DEF StoreInv
<1>3. StoreInv /\ StoreInv' /\ [Next]_vars => [Store!StoreNext]_(Store!storeVars)
  BY StoreStep DEF Store!storeVars
<1>4. Spec => Store!StoreInit /\ [][Store!StoreNext]_(Store!storeVars)
  BY <1>1, <1>2, <1>3, StoreStart, PTL DEF Spec
<1> QED
  BY <1>4 DEF ImplementsStore, Store!StoreSpec

-----------------------------------------------------------------------------
(* A table without an active slot is one that no loader has written.       *)

HasActive(t) == t["boot"]["_a"].act \/ t["boot"]["_b"].act

\* Slot _a as GetActiveSlot arms it on the first boot
Fresh(t) ==
  LET e == t["boot"]["_a"] IN e.act /\ ~e.suc /\ ~e.unb /\ e.ret = MaxRetry

\* The unit that holds the boot entries
BootUnit == LunOf["boot"]["_a"]

\* The faults so far, with the one that a running UpdatePartitionAttributes
\* needs if it is not to reach every copy
Spent == IF pc = "flush" THEN faults + 1 ELSE faults

\* A copy without an active slot is left.
BlankLeft == \E c \in Copies : ~HasActive(gpt[c])

\* Labels between a change of the attributes and its writing
Changing == {"setLun", "markSet", "setDone"}

\* Labels that are reached only over a second synchronisation
SecondLabels == {"validate", "markFound", "unbootable", "fallback", "trail", "reset"}

BlankIsNew ==
  \A t \in {ram, gpt[Primary], gpt[Backup]} : ~HasActive(t) => IsFirstBoot(t)

RamPrepared == pc \notin {"off", "firmware", "query"} => HasActive(ram)

FlushReached ==
  pc = "flush" =>
    /\ at.lun > BootUnit => ~BlankLeft
    /\ at.lun = BootUnit /\ at.iter = Backup => HasActive(gpt[Primary])

\* While a copy without an active slot is left, the loader has lost as many
\* writes as it has finished synchronisations, so that it gets to the system
\* only after three.
BlankCosts ==
  BlankLeft =>
    /\ HasActive(ram) \/ (\E c \in Copies : HasActive(gpt[c])) => Spent >= 1
    /\ Spent <= 1 => \A c \in Copies : ~HasActive(gpt[c]) \/ Fresh(gpt[c])
    /\ Spent <= 1 /\ pc \notin Changing => ~HasActive(ram) \/ Fresh(ram)
    /\ Ahead(SecondLabels) \/ (Ahead({"find"}) /\ op = "boot") => Spent >= 2
    /\ Ahead({"found", "os"}) => Spent >= 3

BlankInv ==
  /\ SelectionInv
  /\ ReturnInv
  /\ faults <= 2 => BlankIsNew /\ RamPrepared /\ FlushReached /\ BlankCosts

\* The hypothesis on the tables a device starts with
FactoryTables == \A t \in InitTables : ActiveOf(t) = NoSlot => IsFirstBoot(t)

LEMMA NoneActive ==
  ASSUME NEW t \in Table, OneActive(t)
  PROVE  ActiveOf(t) = NoSlot <=> ~HasActive(t)
<1>1. NoSlot \notin Slots /\ Slots = {"_a", "_b"}
  BY DEF NoSlot, Slots
<1>2. ASSUME HasActive(t)
      PROVE  ActiveOf(t) # NoSlot
  BY <1>1, <1>2, ActiveOfOne DEF HasActive
<1>3. ASSUME ActiveOf(t) # NoSlot
      PROVE  HasActive(t)
  BY <1>1, <1>3, ActiveOfActs, ActiveOfType DEF HasActive
<1> QED
  BY <1>2, <1>3

LEMMA FreshOnTrial ==
  ASSUME NEW t \in Table, OneActive(t), Fresh(t)
  PROVE  /\ HasActive(t)
         /\ ActiveOf(t) = "_a"
         /\ OnTrial(t["boot"]["_a"]) /\ ~Proven(t["boot"]["_a"])
BY ActiveOfOne, TableAssumption
   DEF Fresh, HasActive, OnTrial, Proven, Slots

SameBoot(t, u) == \A s \in Slots : t["boot"][s] = u["boot"][s]

LEMMA SameBootSame ==
  ASSUME NEW t, NEW u, SameBoot(t, u)
  PROVE  /\ HasActive(t) <=> HasActive(u)
         /\ Fresh(t) <=> Fresh(u)
         /\ IsFirstBoot(t) <=> IsFirstBoot(u)
BY DEF SameBoot, HasActive, Fresh, IsFirstBoot, Slots

\* boot_a and boot_b are written, restored and presented together.
LEMMA WithLunBoot ==
  ASSUME NEW t \in Table, NEW u \in Table, NEW l
  PROVE  SameBoot(WithLun(t, l, u), IF l = BootUnit THEN u ELSE t)
<1>1. \A s \in Slots : LunOf["boot"][s] = BootUnit
  BY LayoutAssumption DEF BootUnit, Slots
<1>2. \A s \in Slots :
        WithLun(t, l, u)["boot"][s] = IF l = BootUnit THEN u["boot"][s] ELSE t["boot"][s]
  BY <1>1, WithLunApply, BootIsPtn
<1> QED
  BY <1>2 DEF SameBoot

LEMMA ViewBoot ==
  ASSUME TypeOK
  PROVE  \E c \in Copies : SameBoot(View, gpt[c])
<1>1. \A s \in Slots : LunOf["boot"][s] = BootUnit
  BY LayoutAssumption DEF BootUnit, Slots
<1>2. \A s \in Slots :
        View["boot"][s] = IF <<BootUnit, Primary>> \in torn
                          THEN gpt[Backup]["boot"][s] ELSE gpt[Primary]["boot"][s]
  BY <1>1, BootIsPtn DEF View, Presented
<1> QED
  BY <1>2, CopiesDiffer DEF SameBoot

LEMMA EditsKeepActive ==
  ASSUME NEW t \in Table, NEW s \in Slots
  PROVE  /\ HasActive(WithTryUsed(t, s)) <=> HasActive(t)
         /\ HasActive(WithUnbootable(t, s)) <=> HasActive(t)
         /\ HasActive(WithUnbootableCleared(t, s)) <=> HasActive(t)
         /\ HasActive(WithFlashedAttr(t, s)) <=> HasActive(t)
         /\ HasActive(UpdBoot(t, s, [t["boot"][s] EXCEPT !.suc = TRUE]))
              <=> HasActive(t)
<1> DEFINE b == t["boot"][s]
<1>1. b \in Entry
  BY BootEntryType
<1>2. /\ [b EXCEPT !.ret = @ - 1].act = b.act
      /\ [b EXCEPT !.unb = TRUE].act = b.act
      /\ [b EXCEPT !.unb = FALSE].act = b.act
      /\ [b EXCEPT !.suc = FALSE, !.unb = FALSE, !.pri = MaxPriority,
                   !.ret = MaxRetry].act = b.act
      /\ [b EXCEPT !.suc = TRUE].act = b.act
  BY <1>1 DEF Entry
<1>3. ASSUME NEW e, e.act = b.act
      PROVE  HasActive(UpdBoot(t, s, e)) <=> HasActive(t)
  BY <1>3, UpdBootApply DEF HasActive, Slots
<1> QED
  BY <1>2, <1>3 DEF WithTryUsed, WithUnbootable, WithUnbootableCleared,
                    WithFlashedAttr

LEMMA SwitchesKeepActive ==
  ASSUME NEW t \in Table, NEW s \in Slots, NEW r \in BOOLEAN
  PROVE  /\ HasActive(WithActive(t, s, r))
         /\ HasActive(WithTypesSwapped(WithActive(t, s, r)))
         /\ HasActive(WithActiveBits(t, s))
<1>1. s = "_a" \/ s = "_b"
  BY DEF Slots
<1>2. WithActive(t, s, r) \in Table
  BY WithActiveType
<1>3. WithActive(t, s, r)["boot"][s].act
  BY OneActiveSet
<1>4. WithTypesSwapped(WithActive(t, s, r))["boot"][s].act
  BY <1>2, <1>3, OneActiveSwapped
<1>5. WithActiveBits(t, s)["boot"][s].act
  BY WithActiveBitsApply, BootIsPtn
<1> QED
  BY <1>1, <1>3, <1>4, <1>5 DEF HasActive

LEMMA DefaultFresh ==
  ASSUME NEW t \in Table
  PROVE  Fresh(WithDefault(t)) /\ HasActive(WithDefault(t))
<1> DEFINE e == [t["boot"]["_a"] EXCEPT
                   !.pri = MaxPriority, !.act = TRUE, !.ret = MaxRetry,
                   !.suc = FALSE, !.unb = FALSE]
<1>1. "_a" \in Slots
  BY DEF Slots
<1>2. e.act /\ ~e.suc /\ ~e.unb /\ e.ret = MaxRetry
  BY <1>1, BootEntryType DEF Entry
<1>3. WithDefault(t) = UpdBoot(t, "_a", e)
  BY DEF WithDefault
<1> HIDE DEF e
<1>4. WithDefault(t)["boot"]["_a"] = e
  BY <1>1, <1>3, UpdBootApply
<1> QED
  BY <1>2, <1>4 DEF Fresh, HasActive

LEMMA BlankInvInit == FactoryTables /\ Init => BlankInv
<1> SUFFICES ASSUME FactoryTables, Init
             PROVE  BlankInv
  OBVIOUS
<1>1. PICK t \in InitTables : ram = t /\ gpt = [c \in Copies |-> t]
  BY DEF Init
<1>2. SelectionInv
  BY SelectionInvInit
<1>3. t \in Table /\ OneActive(t)
  BY <1>1, <1>2, ManagerAssumption DEF SelectionInv, SelectionSane
<1>4. ~HasActive(t) => IsFirstBoot(t)
  BY <1>3, NoneActive DEF FactoryTables
<1>5. gpt[Primary] = t /\ gpt[Backup] = t /\ \A c \in Copies : gpt[c] = t
  BY <1>1, CopiesDiffer
<1>6. pc = "off" /\ ret = "idle"
  BY DEF Init
<1>7. ReturnInv
  BY <1>6 DEF ReturnInv, ReturnLabels
<1>8. BlankIsNew
  BY <1>1, <1>4, <1>5 DEF BlankIsNew
<1>9. RamPrepared /\ FlushReached
  BY <1>6 DEF RamPrepared, FlushReached
<1>10. BlankCosts
  BY <1>1, <1>5, <1>6 DEF BlankCosts, BlankLeft, Ahead, SecondLabels
<1> QED
  BY <1>2, <1>7, <1>8, <1>9, <1>10 DEF BlankInv

LEMMA FaultsGrow == TypeOK /\ [Next]_vars => faults <= faults'
<1> SUFFICES ASSUME TypeOK, [Next]_vars
             PROVE  faults <= faults'
  OBVIOUS
<1>1. faults \in Nat
  BY ManagerAssumption DEF TypeOK
<1>2. faults' = faults \/ faults' = faults + 1
  <2>1. CASE UNCHANGED vars
    BY <2>1 DEF vars
  <2>2. CASE PowerUp \/ RestoreCopy \/ Present \/ Flush
    BY <2>2 DEF PowerUp, RestoreCopy, Present, Flush, WriteCopy, IoError,
                Fault, HalfWritten
  <2>3. CASE DefaultSlot \/ NoActiveSlot \/ Query
    BY <2>3 DEF DefaultSlot, NoActiveSlot, Query
  <2>4. CASE FindProven \/ FindOnTrial \/ FindUnbootable
    BY <2>4 DEF FindProven, FindOnTrial, FindUnbootable
  <2>5. CASE ValidateSlotGuids \/ MarkPtnActive
    BY <2>5 DEF ValidateSlotGuids, MarkPtnActive, Fault
  <2>6. CASE MarkUnbootable \/ Fallback \/ ResetSystem
    BY <2>6 DEF MarkUnbootable, Fallback, ResetSystem
  <2>7. CASE SetActiveSame \/ SetActiveOther \/ SetBootLun \/ FinishSetActive
    BY <2>7 DEF SetActiveSame, SetActiveOther, SetBootLun, FinishSetActive,
                RepairBootLun, LunSwitched, LunRequestFails, SwitchedLun,
                Fault
  <2>8. CASE ClearUnbootable \/ FastbootUpdateAttr
    BY <2>8 DEF ClearUnbootable, FastbootUpdateAttr
  <2>9. CASE Environment
    BY <2>9 DEF Environment, Call, Enter, VerifyFails, BootOs, BootLinuxReturns,
                OsMarkSuccessful, Reboot, PowerCut, Fault, HalfWritten
  <2> QED
    BY <2>1, <2>2, <2>3, <2>4, <2>5, <2>6, <2>7, <2>8, <2>9 DEF Next, Loader
<1> QED
  BY <1>1, <1>2

LEMMA BlankInvNext == BlankInv /\ [Next]_vars => BlankInv'
<1> SUFFICES ASSUME BlankInv, [Next]_vars
             PROVE  BlankInv'
  OBVIOUS
<1>1. /\ SelectionInv /\ SelectionInv' /\ ReturnInv /\ ReturnInv'
      /\ TypeOK /\ TypeOK'
  BY SelectionInvNext, ReturnInvNext DEF BlankInv, SelectionInv, TypeInv
<1>2. SUFFICES ASSUME faults' <= 2
               PROVE  BlankIsNew' /\ RamPrepared' /\ FlushReached' /\ BlankCosts'
  BY <1>1 DEF BlankInv
<1>3. faults \in Nat /\ faults' \in Nat /\ faults <= 2
  BY <1>1, <1>2, FaultsGrow, ManagerAssumption DEF TypeOK
<1>4. BlankIsNew /\ RamPrepared /\ FlushReached /\ BlankCosts
  BY <1>3 DEF BlankInv
<1>5. /\ ram \in Table /\ gpt \in [Copies -> Table]
      /\ OneActive(ram)
      /\ ActiveOf(ram) \in Slots \cup {NoSlot}
      /\ ActiveOf(ram) = NoSlot <=> ~HasActive(ram)
      /\ at \in [lun : Luns, iter : Copies]
      /\ SlotKnown
  BY <1>1, NoneActive, ActiveOfType DEF TypeOK, SelectionInv, SelectionSane, TypeInv
<1>6. ret # "flush" /\ ret \notin {"off", "firmware"}
  BY <1>1 DEF ReturnInv, ReturnLabels, NeedsActive
<1>7. Copies = {Primary, Backup} /\ Primary # Backup
  BY CopiesDiffer DEF Copies
<1> USE DEF BlankIsNew, RamPrepared, FlushReached, BlankCosts, Spent, BlankLeft,
            Changing, SecondLabels, Ahead, storage
\* A step outside of UpdatePartitionAttributes that leaves the tables alone and
\* goes to no label with a higher price ...
<1>8. ASSUME UNCHANGED <<ram, gpt, faults>>, pc # "flush", pc' # "flush",
             pc \in Changing => pc' \in Changing \cup {"markSet"},
             pc' \in SecondLabels => pc \in SecondLabels \cup {"found"},
             pc' \in {"found", "os"} => pc = "found",
             pc' = "find" => op' # "boot",
             pc' \notin {"off", "firmware", "query"} => HasActive(ram)
      PROVE  BlankIsNew' /\ RamPrepared' /\ FlushReached' /\ BlankCosts'
  BY <1>3, <1>4, <1>8
\* ... the same for a step in which a request to the boot unit may fail ...
<1>37. ASSUME UNCHANGED <<ram, gpt>>, faults <= faults', pc # "flush", pc' # "flush",
              pc \in Changing => pc' \in Changing \cup {"markSet"},
              pc' \in SecondLabels => pc \in SecondLabels \cup {"found"},
              pc' \in {"found", "os"} => pc = "found",
              pc' = "find" => op' # "boot",
              pc' \notin {"off", "firmware", "query"} => HasActive(ram)
      PROVE  BlankIsNew' /\ RamPrepared' /\ FlushReached' /\ BlankCosts'
  BY <1>3, <1>4, <1>37
\* ... and one that begins to write a table with an active slot.
<1>9. ASSUME UNCHANGED <<gpt, faults>>, HasActive(ram), HasActive(ram'),
             pc # "flush", pc' = "flush", at' = Start,
             ret' = "found" => pc \in SecondLabels
      PROVE  BlankIsNew' /\ RamPrepared' /\ FlushReached' /\ BlankCosts'
  <2>1. ~(at'.lun > BootUnit) /\ at'.iter # Backup
    BY <1>9, <1>7, BootIsPtn, LunInLuns DEF BootUnit, Start, Slots
  <2>2. ret' # "os"
    BY <1>1 DEF ReturnInv, ReturnLabels, NeedsActive
  <2> QED
    BY <1>3, <1>4, <1>7, <1>9, <2>1, <2>2
<1>10. ASSUME vars' = vars
      PROVE  BlankIsNew' /\ RamPrepared' /\ FlushReached' /\ BlankCosts'
  BY <1>4, <1>10 DEF vars
<1>11. CASE PowerUp
  BY <1>8, <1>11 DEF PowerUp
<1>12. CASE RestoreCopy
  <2>1. PICK l \in Luns, c \in Copies :
          gpt' = [gpt EXCEPT ![c] = WithLun(@, l, gpt[1 - c])]
    BY <1>12 DEF RestoreCopy
  <2>2. 1 - c \in Copies
    BY DEF Copies, Primary, Backup
  <2>3. \A d \in Copies : \E e \in Copies : SameBoot(gpt'[d], gpt[e])
    <3>1. SameBoot(gpt'[c], IF l = BootUnit THEN gpt[1 - c] ELSE gpt[c])
      BY <1>5, <2>1, <2>2, WithLunBoot
    <3>2. ASSUME NEW d \in Copies, d # c
          PROVE  SameBoot(gpt'[d], gpt[d])
      BY <1>5, <2>1, <3>2 DEF SameBoot
    <3> QED
      BY <2>2, <3>1, <3>2
  <2>4. \A d \in Copies : \E e \in Copies :
          /\ HasActive(gpt'[d]) <=> HasActive(gpt[e])
          /\ Fresh(gpt'[d]) <=> Fresh(gpt[e])
          /\ IsFirstBoot(gpt'[d]) <=> IsFirstBoot(gpt[e])
    BY <2>3, SameBootSame
  <2>5. /\ UNCHANGED <<ram, faults>> /\ pc = "firmware" /\ pc' = "firmware"
    BY <1>12 DEF RestoreCopy
  <2> QED
    BY <1>3, <1>4, <1>7, <2>4, <2>5
<1>13. CASE Present
  <2>1. PICK c \in Copies : SameBoot(ram', gpt[c])
    BY <1>1, <1>13, ViewBoot DEF Present, Fault
  <2>2. /\ HasActive(ram') <=> HasActive(gpt[c])
        /\ Fresh(ram') <=> Fresh(gpt[c])
        /\ IsFirstBoot(ram') <=> IsFirstBoot(gpt[c])
    BY <2>1, SameBootSame
  <2>3. /\ gpt' = gpt /\ pc = "firmware" /\ pc' = "query"
        /\ faults' = faults \/ faults' = faults + 1
    BY <1>13 DEF Present, Fault
  <2> QED
    BY <1>3, <1>4, <1>7, <2>2, <2>3
<1>14. CASE WriteCopy
  <2>1. /\ pc = "flush" /\ UNCHANGED <<ram, ret, op, faults>>
        /\ gpt' = [gpt EXCEPT ![at.iter] = WithLun(@, at.lun, ram)]
    BY <1>14 DEF WriteCopy
  <2>2. HasActive(ram)
    BY <1>4, <2>1
  <2>3. /\ SameBoot(gpt'[at.iter], IF at.lun = BootUnit THEN ram ELSE gpt[at.iter])
        /\ \A d \in Copies : d # at.iter => gpt'[d] = gpt[d]
    BY <1>5, <2>1, WithLunBoot
  <2>4. IF at.lun = BootUnit
        THEN /\ HasActive(gpt'[at.iter])
             /\ Fresh(ram) => Fresh(gpt'[at.iter])
        ELSE /\ HasActive(gpt'[at.iter]) <=> HasActive(gpt[at.iter])
             /\ Fresh(gpt'[at.iter]) <=> Fresh(gpt[at.iter])
             /\ IsFirstBoot(gpt'[at.iter]) <=> IsFirstBoot(gpt[at.iter])
    BY <2>2, <2>3, SameBootSame
  <2>5. BlankLeft' => BlankLeft
    BY <1>5, <1>7, <2>3, <2>4
  <2>6. BlankIsNew'
    BY <1>4, <1>5, <1>7, <2>1, <2>3, <2>4
  <2>7. at.lun \in Int /\ BootUnit \in Int /\ BootUnit <= MaxLuns - 1 /\ MaxLuns \in Int
    BY <1>5, BootIsPtn, LunInLuns, TableAssumption DEF BootUnit, Slots, Luns
  <2>8. CASE at.iter = Primary
    <3>1. at' = [at EXCEPT !.iter = Backup] /\ pc' = pc
      BY <1>14, <2>8 DEF WriteCopy
    <3>2. at'.lun = at.lun /\ at'.iter = Backup
      BY <1>5, <3>1
    <3>3. FlushReached'
      BY <1>4, <2>1, <2>4, <2>5, <2>8, <3>2
    <3>4. RamPrepared'
      BY <2>1, <2>2
    <3>5. BlankCosts'
      BY <1>4, <1>5, <1>7, <2>1, <2>2, <2>3, <2>4, <2>5, <3>1
    <3> QED
      BY <2>6, <3>3, <3>4, <3>5
  <2>9. CASE at.iter # Primary /\ at.lun + 1 < MaxLuns
    <3>1. at' = [lun |-> at.lun + 1, iter |-> Primary] /\ pc' = pc
      BY <1>14, <2>9 DEF WriteCopy
    <3>2. at'.lun = at.lun + 1 /\ at'.iter # Backup
      BY <1>7, <3>1
    <3>3. at'.lun > BootUnit => ~BlankLeft'
      BY <1>4, <1>5, <1>7, <2>1, <2>3, <2>4, <2>5, <2>7, <2>9, <3>2
    <3>4. FlushReached' /\ RamPrepared'
      BY <2>1, <2>2, <3>2, <3>3
    <3>5. BlankCosts'
      BY <1>4, <1>5, <1>7, <2>1, <2>2, <2>3, <2>4, <2>5, <3>1
    <3> QED
      BY <2>6, <3>4, <3>5
  <2>10. CASE at.iter # Primary /\ ~(at.lun + 1 < MaxLuns)
    <3>1. pc' = ret
      BY <1>14, <2>10 DEF WriteCopy
    <3>2. ~BlankLeft'
      BY <1>4, <1>5, <1>7, <2>1, <2>3, <2>4, <2>5, <2>7, <2>10
    <3> QED
      BY <1>6, <2>1, <2>2, <2>6, <3>1, <3>2
  <2> QED
    BY <2>8, <2>9, <2>10
<1>15. CASE IoError
  <2>1. /\ pc = "flush" /\ pc' = ret /\ UNCHANGED <<ram, gpt, ret, op>>
        /\ faults' = faults + 1
    BY <1>15 DEF IoError, Fault, HalfWritten
  <2> QED
    BY <1>3, <1>4, <1>6, <2>1
<1>16. CASE DefaultSlot
  <2>1. /\ pc \in NeedsActive /\ ~HasActive(ram) /\ ram' = WithDefault(ram)
        /\ UNCHANGED <<gpt, op, faults>>
        /\ pc' = "flush" /\ ret' = pc /\ at' = Start
    BY <1>5, <1>16 DEF DefaultSlot, FlushThen
  <2>2. pc = "query"
    BY <1>4, <2>1 DEF NeedsActive
  <2>3. HasActive(ram') /\ Fresh(ram')
    BY <1>5, <2>1, DefaultFresh
  <2>4. ~(at'.lun > BootUnit) /\ at'.iter # Backup
    BY <1>7, <2>1, BootIsPtn, LunInLuns DEF BootUnit, Start, Slots
  <2> QED
    BY <1>3, <1>4, <1>7, <2>1, <2>2, <2>3, <2>4
<1>17. CASE NoActiveSlot
  BY <1>4, <1>5, <1>17 DEF NoActiveSlot, NeedsActive
<1>18. CASE Query
  BY <1>5, <1>8, <1>18 DEF Query
<1>19. ASSUME pc = "find", FindProven \/ FindUnbootable, BlankLeft
       PROVE  faults >= 2
  <2>1. HasActive(ram) /\ (faults <= 1 => Fresh(ram))
    BY <1>3, <1>4, <1>19
  <2> QED
    BY <1>3, <1>5, <1>19, <2>1, FreshOnTrial DEF FindProven, FindUnbootable
<1>20. CASE FindProven \/ FindUnbootable
  <2>1. /\ pc = "find" /\ pc' \in {"validate", "unbootable"}
        /\ UNCHANGED <<ram, gpt, faults>>
    BY <1>20 DEF FindProven, FindUnbootable
  <2> QED
    BY <1>3, <1>4, <1>19, <1>20, <2>1
<1>21. CASE FindOnTrial
  <2>1. pc = "find" /\ ActiveOf(ram) \in Slots /\ UNCHANGED <<gpt, op, faults>>
    BY <1>5, <1>21 DEF FindOnTrial
  <2>2. CASE op = "boot"
    <3>1. pc' = "validate" /\ ram' = ram
      BY <1>21, <2>2 DEF FindOnTrial
    <3> QED
      BY <1>3, <1>4, <2>1, <2>2, <3>1
  <2>3. CASE op # "boot"
    <3>1. /\ ram' = WithTryUsed(ram, ActiveOf(ram))
          /\ pc' = "flush" /\ ret' = "validate" /\ at' = Start
      BY <1>21, <2>3 DEF FindOnTrial, FlushThen
    <3>2. HasActive(ram) /\ HasActive(ram')
      BY <1>4, <1>5, <2>1, <3>1, EditsKeepActive
    <3> QED
      BY <1>9, <2>1, <3>1, <3>2
  <2> QED
    BY <2>2, <2>3
<1>22. CASE ValidateSlotGuids
  <2>1. UNCHANGED <<ram, gpt>> /\ faults <= faults'
    BY <1>1, <1>22, FaultsGrow DEF ValidateSlotGuids
  <2>2. pc = "validate" /\ pc' \in {"markFound", "idle"}
    BY <1>22 DEF ValidateSlotGuids, Fail
  <2> QED
    BY <1>4, <1>37, <2>1, <2>2
<1>23. CASE MarkPtnActive
  <2>1. slot \in Slots
    BY <1>5, <1>23 DEF MarkPtnActive, SlotKnown, SlotLabels
  <2>2. HasActive(ram) /\ HasActive(ram')
    BY <1>4, <1>5, <1>23, <2>1, SwitchesKeepActive DEF MarkPtnActive
  <2> QED
    BY <1>9, <1>23, <2>2 DEF MarkPtnActive, FlushThen
<1>24. CASE MarkUnbootable
  <2>1. pc = "unbootable" /\ ActiveOf(ram) \in Slots /\ UNCHANGED <<gpt, faults>>
        /\ HasActive(ram)
    BY <1>5, <1>24 DEF MarkUnbootable
  <2>2. CASE pc' = "fallback" /\ ram' = ram
    BY <1>8, <2>1, <2>2
  <2>3. CASE ram' = WithUnbootable(ram, ActiveOf(ram)) /\ FlushThen("fallback")
    <3>1. HasActive(ram')
      BY <1>5, <2>1, <2>3, EditsKeepActive
    <3> QED
      BY <1>9, <2>1, <2>3, <3>1 DEF FlushThen
  <2> QED
    BY <1>24, <2>2, <2>3 DEF MarkUnbootable
<1>25. CASE Fallback
  BY <1>4, <1>8, <1>25 DEF Fallback, Fail
<1>26. CASE ResetSystem
  BY <1>8, <1>26 DEF ResetSystem
<1>27. CASE SetActiveSame \/ SetActiveOther
  <2>1. /\ pc = "setActive" /\ pc' \in Changing /\ UNCHANGED <<gpt, op>>
        /\ faults <= faults'
    BY <1>1, <1>27, FaultsGrow DEF SetActiveSame, SetActiveOther
  <2>2. slot \in Slots /\ (op = "setActive") \in BOOLEAN
    BY <1>5, <2>1 DEF SlotKnown, SlotLabels
  <2>3. HasActive(ram) /\ HasActive(ram')
    BY <1>4, <1>5, <1>27, <2>1, <2>2, SwitchesKeepActive
       DEF SetActiveSame, SetActiveOther
  <2>4. BlankIsNew' /\ RamPrepared' /\ FlushReached'
    BY <1>3, <1>4, <2>1, <2>3
  <2>5. BlankCosts'
    <3>1. Spent = faults /\ Spent' = faults' /\ (BlankLeft' <=> BlankLeft)
      BY <2>1
    <3>2. ~Ahead(SecondLabels)' /\ ~Ahead({"find"})' /\ ~Ahead({"found", "os"})'
      BY <2>1
    <3>3. BlankLeft => /\ faults >= 1
                       /\ faults <= 1 => \A c \in Copies : ~HasActive(gpt[c]) \/ Fresh(gpt[c])
      BY <1>4, <2>3, <3>1
    <3> HIDE DEF Spent, BlankLeft, SecondLabels, Ahead
    <3> QED
      BY <1>3, <2>1, <3>1, <3>2, <3>3
  <2> QED
    BY <2>4, <2>5
<1>28. CASE SetBootLun
  <2>1. UNCHANGED <<ram, gpt>> /\ faults <= faults'
    BY <1>1, <1>28, FaultsGrow DEF SetBootLun
  <2>2. pc = "setLun" /\ pc' = "markSet"
    BY <1>28 DEF SetBootLun
  <2> QED
    BY <1>4, <1>37, <2>1, <2>2
<1>29. CASE FinishSetActive
  <2>1. /\ pc \in {"setDone", "trail"} /\ UNCHANGED <<ram, gpt, faults>>
        /\ pc' = "flush" /\ at' = Start /\ ret' \in {"trail", "reset", "idle"}
    BY <1>29 DEF FinishSetActive, FlushThen
  <2>2. HasActive(ram)
    BY <1>4, <2>1
  <2> QED
    BY <1>9, <2>1, <2>2
<1>30. CASE ClearUnbootable
  <2>1. HasActive(ram) /\ HasActive(ram')
    BY <1>5, <1>30, EditsKeepActive DEF ClearUnbootable
  <2> QED
    BY <1>9, <1>30, <2>1 DEF ClearUnbootable, FlushThen
<1>31. CASE FastbootUpdateAttr
  <2>1. slot \in Slots
    BY <1>5, <1>31 DEF FastbootUpdateAttr, SlotKnown, SlotLabels
  <2>2. HasActive(ram) /\ HasActive(ram')
    BY <1>4, <1>5, <1>31, <2>1, EditsKeepActive DEF FastbootUpdateAttr
  <2> QED
    BY <1>9, <1>31, <2>2 DEF FastbootUpdateAttr, FlushThen
<1>32. CASE Call
  <2>1. /\ pc = "idle" /\ UNCHANGED <<ram, gpt, faults>>
        /\ pc' \in {"find", "clear", "setActive", "flashAttr"}
        /\ pc' = "find" => op' # "boot"
    BY <1>32 DEF Call, Enter
  <2> QED
    BY <1>4, <1>8, <2>1
<1>33. CASE VerifyFails \/ BootOs \/ BootLinuxReturns
  <2>1. /\ pc = "found" /\ UNCHANGED <<ram, gpt, faults>>
        /\ pc' \in {"unbootable", "os", "idle"}
    BY <1>33 DEF VerifyFails, BootOs, BootLinuxReturns
  <2> QED
    BY <1>4, <1>8, <2>1
<1>34. CASE OsMarkSuccessful
  <2>1. /\ pc = "os" /\ UNCHANGED <<ram, pc, faults>>
        /\ gpt' = [c \in Copies |->
             UpdBoot(gpt[c], slot, [gpt[c]["boot"][slot] EXCEPT !.suc = TRUE])]
    BY <1>34 DEF OsMarkSuccessful
  <2>2. slot \in Slots
    BY <1>5, <2>1 DEF SlotKnown, SlotLabels
  <2>3. \A c \in Copies : HasActive(gpt'[c]) <=> HasActive(gpt[c])
    BY <1>5, <2>1, <2>2, EditsKeepActive
  <2>4. ~BlankLeft
    BY <1>3, <1>4, <2>1
  <2> QED
    BY <1>4, <1>7, <2>1, <2>3, <2>4
<1>35. CASE Reboot
  BY <1>8, <1>35 DEF Reboot
<1>36. CASE PowerCut
  <2>1. UNCHANGED <<ram, gpt>> /\ faults' = faults + 1 /\ pc' = "off"
        /\ pc \notin {"off", "idle", "os"}
    BY <1>36 DEF PowerCut, Fault, HalfWritten
  <2> QED
    BY <1>3, <1>4, <2>1
<1> QED
  BY <1>10, <1>11, <1>12, <1>13, <1>14, <1>15, <1>16, <1>17, <1>18, <1>20,
     <1>21, <1>22, <1>23, <1>24, <1>25, <1>26, <1>27, <1>28, <1>29, <1>30,
     <1>31, <1>32, <1>33, <1>34, <1>35, <1>36
  DEF Next, Loader, Environment, Flush

\* From tables that have an active slot or that no loader has written yet,
\* GetActiveSlot finds a slot or the first boot, unless three writes were lost
\* or the power was cut as often: no single entry point, interrupted at any
\* write, leaves a table it would give up on.
THEOREM ActiveSlotInvariance == FactoryTables => (Spec => []ActiveSlotFound)
<1> SUFFICES ASSUME FactoryTables
             PROVE  Spec => []ActiveSlotFound
  OBVIOUS
<1>1. Init => BlankInv
  BY BlankInvInit
<1>2. BlankInv => ActiveSlotFound
  <2> SUFFICES ASSUME BlankInv, faults <= 2,
                      NEW t \in {ram, gpt[Primary], gpt[Backup]}, ActiveOf(t) = NoSlot
               PROVE  IsFirstBoot(t)
    BY DEF ActiveSlotFound
  <2>1. t \in Table /\ OneActive(t)
    BY CopiesDiffer DEF BlankInv, SelectionInv, SelectionSane, TypeInv, TypeOK
  <2> QED
    BY <2>1, NoneActive DEF BlankInv, BlankIsNew
<1> QED
  BY <1>1, <1>2, BlankInvNext, PTL DEF Spec
=============================================================================
