------------------------------ MODULE SlotTable ------------------------------
(***************************************************************************)
(* The partition table as the boot loader keeps it in RAM (PtnEntries in   *)
(* PartitionTableUpdate.c), restricted to the partitions that exist twice, *)
(* once with the suffix _a and once with _b, and the functions that read   *)
(* it or change it without touching the storage.                           *)
(*                                                                         *)
(* A partition name "x_a" is the pair of "x" \in Ptns and "_a" \in Slots.  *)
(* An entry keeps the fields the A/B code looks at: the attribute bits     *)
(* 48..55 and the partition type GUID.  A pair has two type GUIDs, one     *)
(* that identifies the partition and one, shared by all pairs, that marks  *)
(* the unused twin; the code only swaps and compares them.                 *)
(***************************************************************************)
EXTENDS Integers

CONSTANTS
  Ptns,       \* base names of the partitions that have an _a and a _b twin
  LunOf,      \* LunOf[x][s]: the logical unit whose table holds x_s
  MaxLuns,    \* number of logical units (MaxLuns; 1 on eMMC)
  MaxRetry    \* MAX_RETRY_COUNT (7 in PartitionTableUpdate.h)

Luns == 0 .. MaxLuns - 1

Slots == {"_a", "_b"}
NoSlot == "none"
OtherSlot(s) == IF s = "_a" THEN "_b" ELSE "_a"

ASSUME TableAssumption ==
  /\ {"boot", "system"} \subseteq Ptns
  /\ MaxLuns \in Nat \ {0}
  /\ LunOf \in [Ptns -> [Slots -> Luns]]
  /\ MaxRetry \in Nat \ {0}

MaxPriority == 3

Entry == [type : {"own", "idle"},   \* PartitionTypeGUID
          pri  : 0 .. MaxPriority,  \* PART_ATT_PRIORITY_VAL
          act  : BOOLEAN,           \* PART_ATT_ACTIVE_VAL
          ret  : 0 .. MaxRetry,     \* PART_ATT_MAX_RETRY_COUNT_VAL
          suc  : BOOLEAN,           \* PART_ATT_SUCCESSFUL_VAL
          unb  : BOOLEAN]           \* PART_ATT_UNBOOTABLE_VAL

Table == [Ptns -> [Slots -> Entry]]

-----------------------------------------------------------------------------
(* Reading the table                                                       *)

\* GetActiveSlot: an entry competes with its priority if it is marked active;
\* the comparison is strict, so _a wins a tie and priority 0 never wins.
Rank(t, s) == IF t["boot"][s].act THEN t["boot"][s].pri ELSE 0

ActiveOf(t) ==
  IF Rank(t, "_b") > Rank(t, "_a") THEN "_b"
  ELSE IF Rank(t, "_a") > 0 THEN "_a"
  ELSE NoSlot

\* GetActiveSlot's test for a table that no loader has written yet.
IsFirstBoot(t) ==
  LET a == t["boot"]["_a"] IN ~a.act /\ ~a.suc /\ ~a.unb /\ a.pri = 0

\* The test FindBootableSlot, HandleActiveSlotUnbootable and
\* IsCurrentSlotBootable share.
Proven(e) == ~e.unb /\ e.suc

\* Mutant of OnTrial: the last try is not the last.
OnTrialAtZero(e) == ~e.unb /\ ~e.suc /\ e.ret >= 0

\* Mutant of OnTrial: the last try is never used.
OnTrialButLast(e) == ~e.unb /\ ~e.suc /\ e.ret > 1

\* FindBootableSlot: a slot that may still be tried.
OnTrial(e) == ~e.unb /\ ~e.suc /\ e.ret > 0

\* ValidateSlotGuids compares the two type GUIDs of a slot and refuses equal
\* ones; identifying GUIDs differ from pair to pair, the unused mark does not.
SlotGuidsDiffer(t, s) ==
  ~(t["boot"][s].type = "idle" /\ t["system"][s].type = "idle")

-----------------------------------------------------------------------------
(* Changing the table                                                      *)

UpdBoot(t, s, e) == [t EXCEPT !["boot"] = [@ EXCEPT ![s] = e]]

\* GetActiveSlot, first boot: slot _a becomes the default.
WithDefault(t) ==
  UpdBoot(t, "_a", [t["boot"]["_a"] EXCEPT
            !.pri = MaxPriority, !.act = TRUE, !.ret = MaxRetry,
            !.suc = FALSE, !.unb = FALSE])

\* Mutant of WithActive: the alternate slot keeps its active bit.
WithActiveBoth(t, s, resetSuccess) ==
  UpdBoot(t, s, [t["boot"][s] EXCEPT
    !.pri = MaxPriority, !.act = TRUE, !.ret = MaxRetry,
    !.unb = FALSE, !.suc = @ /\ ~resetSuccess])

\* Mutant of WithActive: the unbootable bit stays.
WithActiveUnbootable(t, s, resetSuccess) ==
  LET new == [t["boot"][s] EXCEPT
                !.pri = MaxPriority, !.act = TRUE, !.ret = MaxRetry,
                !.suc = @ /\ ~resetSuccess]
      old == [t["boot"][OtherSlot(s)] EXCEPT
                !.pri = MaxPriority - 1, !.act = FALSE]
  IN  UpdBoot(UpdBoot(t, s, new), OtherSlot(s), old)

\* SetActiveSlot: the attributes of the two boot entries.
WithActive(t, s, resetSuccess) ==
  LET new == [t["boot"][s] EXCEPT
                !.pri = MaxPriority, !.act = TRUE, !.ret = MaxRetry,
                !.unb = FALSE, !.suc = @ /\ ~resetSuccess]
      old == [t["boot"][OtherSlot(s)] EXCEPT
                !.pri = MaxPriority - 1, !.act = FALSE]
  IN  UpdBoot(UpdBoot(t, s, new), OtherSlot(s), old)

\* SwitchPtnSlots and SwapPtnGuid: every pair exchanges its type GUIDs.
WithTypesSwapped(t) ==
  [p \in Ptns |-> [s \in Slots |->
     [t[p][s] EXCEPT !.type = t[p][OtherSlot(s)].type]]]

\* MarkPtnActive: the active bit of every entry follows its suffix.
WithActiveBits(t, s) ==
  [p \in Ptns |-> [x \in Slots |-> [t[p][x] EXCEPT !.act = (x = s)]]]

\* Mutant of WithTryUsed: the new count is or-ed into the old one.
WithTryKept(t, s) == UpdBoot(t, s, [t["boot"][s] EXCEPT !.ret = @])

\* FindBootableSlot: one try of a slot on trial is used up.
WithTryUsed(t, s) ==
  UpdBoot(t, s, [t["boot"][s] EXCEPT !.ret = @ - 1])

\* HandleActiveSlotUnbootable: "|= UNBOOTABLE & ~SUCCESSFUL" sets the first
\* bit and leaves the second as it is.
WithUnbootable(t, s) == UpdBoot(t, s, [t["boot"][s] EXCEPT !.unb = TRUE])

\* ClearUnbootable
WithUnbootableCleared(t, s) ==
  UpdBoot(t, s, [t["boot"][s] EXCEPT !.unb = FALSE])

\* Mutant of WithFlashedAttr: all attributes start from 0.
WithFlashedAttrCleared(t, s) ==
  UpdBoot(t, s, [t["boot"][s] EXCEPT
            !.suc = FALSE, !.unb = FALSE, !.act = FALSE,
            !.pri = MaxPriority, !.ret = MaxRetry])

\* FastbootUpdateAttr, after boot_x was flashed or erased.
WithFlashedAttr(t, s) ==
  UpdBoot(t, s, [t["boot"][s] EXCEPT
            !.suc = FALSE, !.unb = FALSE,
            !.pri = MaxPriority, !.ret = MaxRetry])
=============================================================================
