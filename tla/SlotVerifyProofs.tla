-------------------------- MODULE SlotVerifyProofs --------------------------
(***************************************************************************)
(* What a locked device runs is verified and not older than stored, and    *)
(* stored indexes never fall: for every set of images, every initial table *)
(* and any number of installations, power cuts and failing calls.  As long *)
(* as nothing fails and it stays locked it has a slot to fall back to.     *)
(***************************************************************************)
EXTENDS SlotVerify, TLAPS

-----------------------------------------------------------------------------
(* The tables                                                              *)

\* Every operation on the attributes of a slot yields a table.
LEMMA BootEntryType ==
  ASSUME NEW t \in Table, NEW s \in Slots, NEW e \in Entry
  PROVE  UpdBoot(t, s, e) \in Table
<1>1. "boot" \in Ptns
  BY TableAssumption
<1>2. [t["boot"] EXCEPT ![s] = e] \in [Slots -> Entry]
  BY <1>1 DEF Table
<1> QED
  BY <1>1, <1>2, Zenon DEF Table, UpdBoot

\* The entries of the boot partitions are entries.
LEMMA BootEntries ==
  ASSUME NEW t \in Table, NEW s \in Slots
  PROVE  t["boot"][s] \in Entry
BY TableAssumption DEF Table

\* The other slot is a slot, and another one.
LEMMA OtherSlotType ==
  ASSUME NEW s \in Slots
  PROVE  OtherSlot(s) \in Slots /\ OtherSlot(s) # s
BY DEF Slots, OtherSlot

\* SetActiveSlot
LEMMA ActiveType ==
  ASSUME NEW t \in Table, NEW s \in Slots, NEW r \in BOOLEAN
  PROVE  WithActive(t, s, r) \in Table
<1> DEFINE e == t["boot"][s]
           o == t["boot"][OtherSlot(s)]
           new == [e EXCEPT !.pri = MaxPriority, !.act = TRUE, !.ret = MaxRetry,
                            !.unb = FALSE, !.suc = @ /\ ~r]
           old == [o EXCEPT !.pri = MaxPriority - 1, !.act = FALSE]
<1>0. MaxRetry \in 0 .. MaxRetry /\ MaxPriority \in 0 .. MaxPriority
      /\ MaxPriority - 1 \in 0 .. MaxPriority
  BY TableAssumption DEF MaxPriority
<1>1. e \in Entry /\ o \in Entry
  BY BootEntries, OtherSlotType
<1>2. new \in Entry
  BY <1>0, <1>1, Zenon DEF Entry
<1>3. old \in Entry
  BY <1>0, <1>1, Zenon DEF Entry
<1>4. UpdBoot(t, s, new) \in Table
  BY <1>2, BootEntryType
<1>5. UpdBoot(UpdBoot(t, s, new), OtherSlot(s), old) \in Table
  BY <1>3, <1>4, OtherSlotType, BootEntryType
<1> QED
  BY <1>5, Zenon DEF WithActive

\* HandleActiveSlotUnbootable
LEMMA CondemnedType ==
  ASSUME NEW t \in Table, NEW s \in Slots
  PROVE  Condemned(t, s) \in Table
<1>1. t["boot"][s] \in Entry
  BY BootEntries
<1>2. [t["boot"][s] EXCEPT !.unb = TRUE] \in Entry
  BY <1>1, Zenon DEF Entry
<1>3. WithUnbootable(t, s) \in Table
  BY <1>2, BootEntryType, Zenon DEF WithUnbootable
<1> QED
  BY <1>3, ActiveType, OtherSlotType DEF Condemned

\* FindBootableSlot, one try less
LEMMA TryUsedType ==
  ASSUME NEW t \in Table, NEW s \in Slots, OnTrial(t["boot"][s])
  PROVE  WithTryUsed(t, s) \in Table
<1>1. t["boot"][s] \in Entry
  BY BootEntries
<1>2. t["boot"][s].ret - 1 \in 0 .. MaxRetry
  BY <1>1, TableAssumption DEF Entry, OnTrial
<1>3. [t["boot"][s] EXCEPT !.ret = @ - 1] \in Entry
  BY <1>1, <1>2, Zenon DEF Entry
<1> QED
  BY <1>3, BootEntryType, Zenon DEF WithTryUsed

\* FastbootUpdateAttr
LEMMA FlashedType ==
  ASSUME NEW t \in Table, NEW s \in Slots
  PROVE  WithFlashedAttr(t, s) \in Table
<1>0. MaxRetry \in 0 .. MaxRetry /\ MaxPriority \in 0 .. MaxPriority
  BY TableAssumption DEF MaxPriority
<1>1. t["boot"][s] \in Entry
  BY BootEntries
<1>2. [t["boot"][s] EXCEPT !.suc = FALSE, !.unb = FALSE,
                           !.pri = MaxPriority, !.ret = MaxRetry] \in Entry
  BY <1>0, <1>1, Zenon DEF Entry
<1> QED
  BY <1>2, BootEntryType, Zenon DEF WithFlashedAttr

\* The system marks its slot successful.
LEMMA SuccessfulType ==
  ASSUME NEW t \in Table, NEW s \in Slots
  PROVE  UpdBoot(t, s, [t["boot"][s] EXCEPT !.suc = TRUE]) \in Table
<1>1. [t["boot"][s] EXCEPT !.suc = TRUE] \in Entry
  BY BootEntries, Zenon DEF Entry
<1> QED
  BY <1>1, BootEntryType

-----------------------------------------------------------------------------
(* There is always an active slot                                          *)

HasActive(t) ==
  \E s \in Slots : t["boot"][s].act /\ t["boot"][s].pri = MaxPriority

\* GetActiveSlot then finds one.
LEMMA ActiveFound ==
  ASSUME NEW t \in Table, HasActive(t)
  PROVE  ActiveOf(t) \in Slots
<1>1. t["boot"]["_a"] \in Entry /\ t["boot"]["_b"] \in Entry
  BY BootEntries DEF Slots
<1>2. Rank(t, "_a") \in Nat /\ Rank(t, "_b") \in Nat
  BY <1>1 DEF Rank, Entry
<1>3. Rank(t, "_a") > 0 \/ Rank(t, "_b") > 0
  BY <1>1, SMT DEF HasActive, Rank, Slots, MaxPriority, Entry
<1> QED
  BY <1>2, <1>3 DEF ActiveOf, Slots

\* What UpdBoot leaves in the two entries.
LEMMA UpdBootEntries ==
  ASSUME NEW t \in Table, NEW s \in Slots, NEW e \in Entry
  PROVE  /\ UpdBoot(t, s, e)["boot"][s] = e
         /\ \A x \in Slots : x # s => UpdBoot(t, s, e)["boot"][x] = t["boot"][x]
<1>1. "boot" \in Ptns /\ t["boot"] \in [Slots -> Entry]
  BY TableAssumption DEF Table
<1>2. UpdBoot(t, s, e)["boot"] = [t["boot"] EXCEPT ![s] = e]
  BY <1>1, Zenon DEF UpdBoot, Table
<1> QED
  BY <1>1, <1>2, Zenon

\* A change that keeps the active bit, and the priority or makes it the
\* highest, keeps an active slot.
LEMMA ActiveKept ==
  ASSUME NEW t \in Table, HasActive(t), NEW s \in Slots, NEW e \in Entry,
         e.act = t["boot"][s].act,
         e.pri \in {t["boot"][s].pri, MaxPriority}
  PROVE  HasActive(UpdBoot(t, s, e))
<1>1. PICK a \in Slots : t["boot"][a].act /\ t["boot"][a].pri = MaxPriority
  BY DEF HasActive
<1> DEFINE u == UpdBoot(t, s, e)
<1>2. u["boot"][a].act /\ u["boot"][a].pri = MaxPriority
  <2>1. CASE a = s
    <3>1. u["boot"][a] = e
      BY <2>1, UpdBootEntries, Zenon
    <3>2. e.pri = MaxPriority
      BY <1>1, <2>1
    <3> QED
      BY <1>1, <2>1, <3>1, <3>2, Zenon
  <2>2. CASE a # s
    <3>1. u["boot"][a] = t["boot"][a]
      BY <2>2, UpdBootEntries, Zenon
    <3> QED
      BY <1>1, <3>1, Zenon
  <2> QED
    BY <2>1, <2>2
<1> QED
  BY <1>2, Zenon DEF HasActive

\* SetActiveSlot leaves an active slot.
LEMMA ActiveSet ==
  ASSUME NEW t \in Table, NEW s \in Slots, NEW r \in BOOLEAN
  PROVE  HasActive(WithActive(t, s, r))
<1> DEFINE e == t["boot"][s]
           o == t["boot"][OtherSlot(s)]
           new == [e EXCEPT !.pri = MaxPriority, !.act = TRUE, !.ret = MaxRetry,
                            !.unb = FALSE, !.suc = @ /\ ~r]
           old == [o EXCEPT !.pri = MaxPriority - 1, !.act = FALSE]
<1>0. MaxRetry \in 0 .. MaxRetry /\ MaxPriority \in 0 .. MaxPriority
      /\ MaxPriority - 1 \in 0 .. MaxPriority
  BY TableAssumption DEF MaxPriority
<1>1. e \in Entry /\ o \in Entry
  BY BootEntries, OtherSlotType
<1>2. new \in Entry /\ new.act /\ new.pri = MaxPriority
  BY <1>0, <1>1, Zenon DEF Entry
<1>3. old \in Entry
  BY <1>0, <1>1, Zenon DEF Entry
<1> HIDE DEF new, old
<1>4. UpdBoot(t, s, new) \in Table /\ UpdBoot(t, s, new)["boot"][s] = new
  BY <1>2, BootEntryType, UpdBootEntries, Zenon
<1>5. UpdBoot(UpdBoot(t, s, new), OtherSlot(s), old)["boot"][s] = new
  <2>1. OtherSlot(s) \in Slots /\ s # OtherSlot(s)
    BY OtherSlotType
  <2> QED
    BY <1>3, <1>4, <2>1, UpdBootEntries, Zenon
<1>6. WithActive(t, s, r)["boot"][s] = new
  BY <1>5, Zenon DEF WithActive, new, old
<1> QED
  BY <1>2, <1>6, Zenon DEF HasActive

-----------------------------------------------------------------------------
(* The inductive invariant                                                 *)

SlotKnown == pc \in {"verify", "os"} => slot \in Slots

IndexesOrdered == \A l \in Locations : stored[l] <= mem[l]

\* What is known of the slot when the checks before this one went well.
\* "dtbo" is checked last, so only then may it be loaded.
Passed(i) ==
  /\ check # "main" => i.key \in {"oem", "user"} /\ i.index >= mem[0]
  /\ check = "load" => i.disabled
  /\ check \in {"boot", "dtbo"} => i.chainKey = "oem" /\ i.chainIndex >= mem[1]
  /\ check = "dtbo" => i.boot = "good"
  /\ check # "done" => "dtbo" \notin loaded
  /\ (check = "done" /\ loaded = Requested) => Sound(i) /\ NotOlder(i, mem)

PassedSoFar ==
  (pc = "verify" /\ ~unlocked /\ ret = "ok") => Passed(images[slot])

Running ==
  (pc = "os" /\ ~unlocked) => Sound(images[slot]) /\ NotOlder(images[slot], mem)

IInv ==
  /\ TypeOK
  /\ HasActive(table)
  /\ SlotKnown
  /\ IndexesOrdered
  /\ PassedSoFar
  /\ Running

\* NotOlder compares with smaller indexes as well.
LEMMA NotOlderStored ==
  ASSUME NEW i \in Image, IndexesOrdered, NotOlder(i, mem),
         stored \in [Locations -> 0 .. MaxIndex],
         mem \in [Locations -> 0 .. MaxIndex]
  PROVE  NotOlder(i, stored)
<1>1. stored[0] <= mem[0] /\ stored[1] <= mem[1]
  BY DEF IndexesOrdered, Locations
<1>2. /\ stored[0] \in Int /\ stored[1] \in Int
      /\ mem[0] \in Int /\ mem[1] \in Int
      /\ i.index \in Int /\ i.chainIndex \in Int
  BY DEF Locations, Image
<1> QED
  BY <1>1, <1>2 DEF NotOlder

LEMMA InvImpliesLocked == IInv => LockedRunsVerified
<1> SUFFICES ASSUME IInv, pc = "os", ~unlocked
             PROVE  Sound(images[slot]) /\ NotOlder(images[slot], stored)
  BY DEF LockedRunsVerified
<1>1. Sound(images[slot]) /\ NotOlder(images[slot], mem)
  BY DEF IInv, Running
<1>2. images[slot] \in Image
  BY DEF IInv, SlotKnown, TypeOK
<1> QED
  BY <1>1, <1>2, NotOlderStored DEF IInv, TypeOK

LEMMA InitInv == Init => IInv
<1> SUFFICES ASSUME Init PROVE IInv
  OBVIOUS
<1>1. MaxIndex \in Nat /\ MaxInstalls \in Nat /\ MaxMishaps \in Nat
  BY VerifyAssumption
<1>2. mem \in [Locations -> 0 .. MaxIndex] /\ stored \in [Locations -> 0 .. MaxIndex]
  BY <1>1 DEF Init, Locations
<1>3. images \in [Slots -> Image]
  BY VerifyAssumption DEF Init
<1>4. TypeOK
  <2>1. table \in Table
    BY VerifyAssumption DEF Init
  <2>2. unlocked \in BOOLEAN /\ pristine \in BOOLEAN /\ loaded \subseteq Requested
    BY DEF Init
  <2>3. /\ pc \in {"off", "find", "verify", "os", "fastboot"}
        /\ slot \in Slots \cup {NoSlot}
        /\ check \in Checks /\ ret \in Results
    BY DEF Init, Checks, Results
  <2>4. installs \in 0 .. MaxInstalls /\ mishaps \in 0 .. MaxMishaps
    BY <1>1 DEF Init
  <2> QED
    BY <1>2, <1>3, <2>1, <2>2, <2>3, <2>4 DEF TypeOK
<1>5. HasActive(table)
  BY VerifyAssumption DEF Init, HasActive
<1>6. IndexesOrdered
  BY <1>1, <1>2 DEF Init, IndexesOrdered
<1> QED
  BY <1>4, <1>5, <1>6 DEF Init, IInv, SlotKnown, PassedSoFar, Running

\* A failing call is counted.
LEMMA MishapLemma ==
  ASSUME TypeOK, Mishap
  PROVE  /\ installs' = installs /\ mishaps' \in 0 .. MaxMishaps
         /\ pristine' \in BOOLEAN
<1>1. mishaps' \in 0 .. MaxMishaps
  BY VerifyAssumption, SMT DEF TypeOK, Mishap
<1>2. pristine' \in BOOLEAN /\ installs' = installs
  BY Zenon DEF Mishap
<1> QED
  BY <1>1, <1>2

\* What the head of a vbmeta struct does to the indexes and to the result.
LEMMA HeadLemma ==
  ASSUME TypeOK, IndexesOrdered,
         NEW key, NEW trusted, NEW l \in Locations, NEW index \in 0 .. MaxIndex,
         NEW c1 \in Checks, NEW c \in Checks,
         VerifyHead(key, trusted, l, index, c1, c)
  PROVE  /\ mem' \in [Locations -> 0 .. MaxIndex]
         /\ stored' \in [Locations -> 0 .. MaxIndex]
         /\ \A x \in Locations : stored'[x] >= stored[x] /\ stored'[x] <= mem'[x]
         /\ \A x \in Locations : x # l => mem'[x] = mem[x]
         /\ slot' = slot /\ loaded' = loaded
         /\ ret' \in Results /\ check' \in Checks
         /\ installs' = installs /\ mishaps' \in 0 .. MaxMishaps
         /\ pristine' \in BOOLEAN
         /\ (~unlocked /\ ret' = "ok") =>
              ret = "ok" /\ check' = c /\ key \in trusted /\ index >= mem'[l]
<1>0. /\ mem \in [Locations -> 0 .. MaxIndex] /\ stored \in [Locations -> 0 .. MaxIndex]
      /\ ret \in Results /\ mishaps \in 0 .. MaxMishaps /\ pristine \in BOOLEAN
      /\ MaxMishaps \in Nat /\ MaxIndex \in Nat
      /\ "done" \in Checks /\ "fatal" \in Results /\ "error" \in Results
  BY VerifyAssumption DEF TypeOK, Checks, Results
<1>1. \A x \in Locations : mem[x] \in Nat /\ stored[x] \in Nat /\ stored[x] <= mem[x]
  BY <1>0 DEF IndexesOrdered
<1> DEFINE ok == key \in trusted /\ index >= mem[l]
<1>2. CASE key = "broken" /\ Goto("fatal", "done") /\ UNCHANGED <<indexes, counts>>
  BY <1>0, <1>1, <1>2 DEF Goto, After, indexes, counts
<1>3. CASE key # "broken" /\ ~ok /\ ~unlocked /\ Goto("error", c1)
           /\ UNCHANGED <<indexes, counts>>
  BY <1>0, <1>1, <1>3 DEF Goto, After, indexes, counts
<1>4. CASE key # "broken" /\ (ok \/ unlocked)
           /\ StoreIndex(l, index, IF ok THEN "ok" ELSE "error", c)
  <2> DEFINE r == IF ok THEN "ok" ELSE "error"
  <2>1. CASE /\ Newer(l, index) /\ mem' = [mem EXCEPT ![l] = index]
             /\ stored' = mem' /\ Goto(r, c) /\ UNCHANGED counts
    <3>1. /\ mem' \in [Locations -> 0 .. MaxIndex] /\ mem'[l] = index
          /\ \A x \in Locations : x # l => mem'[x] = mem[x]
      BY <1>0, <2>1
    <3>2. mem[l] < index
      BY <2>1 DEF Newer
    <3>3. \A x \in Locations : stored'[x] >= stored[x] /\ stored'[x] <= mem'[x]
      BY <1>1, <2>1, <3>1, <3>2
    <3>4. /\ slot' = slot /\ loaded' = loaded /\ ret' = After(r) /\ check' = c
          /\ installs' = installs /\ mishaps' = mishaps /\ pristine' = pristine
      BY <2>1 DEF Goto, counts
    <3>5. ret' \in Results
      BY <1>0, <3>4 DEF After
    <3>6. ~unlocked => ok
      BY <1>4
    <3>7. (~unlocked /\ ret' = "ok") =>
             ret = "ok" /\ key \in trusted /\ index >= mem'[l]
      <4> SUFFICES ASSUME ~unlocked, ret' = "ok"
                   PROVE  ret = "ok" /\ key \in trusted /\ index >= mem'[l]
        OBVIOUS
      <4>1. ok
        BY <3>6
      <4>2. ret = "ok"
        BY <3>4, <4>1 DEF After
      <4> QED
        BY <3>1, <4>1, <4>2
    <3>8. stored' \in [Locations -> 0 .. MaxIndex]
      BY <2>1, <3>1
    <3> QED
      BY <1>0, <3>1, <3>3, <3>4, <3>5, <3>7, <3>8
  <2>2. CASE /\ Newer(l, index) /\ mem' = [mem EXCEPT ![l] = index]
             /\ Goto("fatal", "done") /\ Mishap /\ UNCHANGED stored
    <3>1. /\ mem' \in [Locations -> 0 .. MaxIndex] /\ mem'[l] = index
          /\ \A x \in Locations : x # l => mem'[x] = mem[x]
      BY <1>0, <2>2
    <3>2. mem[l] < index
      BY <2>2 DEF Newer
    <3>3. \A x \in Locations : stored'[x] >= stored[x] /\ stored'[x] <= mem'[x]
      BY <1>1, <2>2, <3>1, <3>2
    <3>4. slot' = slot /\ loaded' = loaded /\ ret' = "fatal" /\ check' = "done"
      BY <2>2 DEF Goto, After
    <3>5. /\ installs' = installs /\ mishaps' \in 0 .. MaxMishaps
          /\ pristine' \in BOOLEAN
      BY <2>2, MishapLemma
    <3> QED
      BY <1>0, <2>2, <3>1, <3>3, <3>4, <3>5
  <2>3. CASE Goto(r, c) /\ UNCHANGED <<indexes, counts>>
             /\ ~(Newer(l, index) /\ IsCurrentSlotBootable)
    BY <1>0, <1>1, <1>4, <2>3 DEF Goto, After, indexes, counts
  <2> QED
    BY <1>4, <2>1, <2>2, <2>3 DEF StoreIndex
<1> QED
  BY <1>2, <1>3, <1>4 DEF VerifyHead

-----------------------------------------------------------------------------
(* Every step keeps the invariant                                          *)

\* HandleActiveSlotUnbootable leaves an active slot.
LEMMA CondemnedActive ==
  ASSUME NEW t \in Table, HasActive(t), NEW s \in Slots
  PROVE  HasActive(Condemned(t, s))
<1> DEFINE e == [t["boot"][s] EXCEPT !.unb = TRUE]
<1>1. t["boot"][s] \in Entry
  BY BootEntries
<1>2. e \in Entry /\ e.act = t["boot"][s].act /\ e.pri = t["boot"][s].pri
  BY <1>1, Zenon DEF Entry
<1> HIDE DEF e
<1>3. HasActive(UpdBoot(t, s, e)) /\ UpdBoot(t, s, e) \in Table
  BY <1>2, ActiveKept, BootEntryType
<1>4. HasActive(WithUnbootable(t, s)) /\ WithUnbootable(t, s) \in Table
  BY <1>3, Zenon DEF WithUnbootable, e
<1> QED
  BY <1>4, ActiveSet, OtherSlotType DEF Condemned

\* So does the try FindBootableSlot uses up.
LEMMA TryUsedActive ==
  ASSUME NEW t \in Table, HasActive(t), NEW s \in Slots, OnTrial(t["boot"][s])
  PROVE  HasActive(WithTryUsed(t, s))
<1> DEFINE e == [t["boot"][s] EXCEPT !.ret = @ - 1]
<1>1. t["boot"][s] \in Entry
  BY BootEntries
<1>2. t["boot"][s].ret - 1 \in 0 .. MaxRetry
  BY <1>1, TableAssumption DEF Entry, OnTrial
<1>3. e \in Entry /\ e.act = t["boot"][s].act /\ e.pri = t["boot"][s].pri
  BY <1>1, <1>2, Zenon DEF Entry
<1> HIDE DEF e
<1>4. HasActive(UpdBoot(t, s, e))
  BY <1>3, ActiveKept
<1> QED
  BY <1>4, Zenon DEF WithTryUsed, e

\* So do flashing and a system's success.
LEMMA FlashedActive ==
  ASSUME NEW t \in Table, HasActive(t), NEW s \in Slots
  PROVE  HasActive(WithFlashedAttr(t, s))
<1> DEFINE e == [t["boot"][s] EXCEPT !.suc = FALSE, !.unb = FALSE,
                                     !.pri = MaxPriority, !.ret = MaxRetry]
<1>0. MaxRetry \in 0 .. MaxRetry /\ MaxPriority \in 0 .. MaxPriority
  BY TableAssumption DEF MaxPriority
<1>1. t["boot"][s] \in Entry
  BY BootEntries
<1>2. e \in Entry /\ e.act = t["boot"][s].act /\ e.pri = MaxPriority
  BY <1>0, <1>1, Zenon DEF Entry
<1> HIDE DEF e
<1>3. HasActive(UpdBoot(t, s, e))
  BY <1>2, ActiveKept
<1> QED
  BY <1>3, Zenon DEF WithFlashedAttr, e

LEMMA SuccessfulActive ==
  ASSUME NEW t \in Table, HasActive(t), NEW s \in Slots
  PROVE  HasActive(UpdBoot(t, s, [t["boot"][s] EXCEPT !.suc = TRUE]))
<1> DEFINE e == [t["boot"][s] EXCEPT !.suc = TRUE]
<1>1. e \in Entry /\ e.act = t["boot"][s].act /\ e.pri = t["boot"][s].pri
  BY BootEntries, Zenon DEF Entry
<1> HIDE DEF e
<1>2. HasActive(UpdBoot(t, s, e))
  BY <1>1, ActiveKept
<1> QED
  BY <1>2, Zenon DEF e

\* What every step leaves true, whatever it does
Plain ==
  /\ table' \in Table /\ HasActive(table')
  /\ images' \in [Slots -> Image]
  /\ unlocked' \in BOOLEAN /\ pristine' \in BOOLEAN
  /\ installs' \in 0 .. MaxInstalls /\ mishaps' \in 0 .. MaxMishaps

Rising ==
  /\ mem' \in [Locations -> 0 .. MaxIndex]
  /\ stored' \in [Locations -> 0 .. MaxIndex]
  /\ \A x \in Locations : stored'[x] >= stored[x] /\ stored'[x] <= mem'[x]

\* Out of the verification and of the system nothing else is claimed.
LEMMA AwayInv ==
  ASSUME IInv, Plain, Rising, pc' \in {"off", "find", "fastboot"},
         slot' = slot, check' \in Checks, ret' \in Results, loaded' \subseteq Requested
  PROVE  IInv'
<1>1. TypeOK'
  BY DEF IInv, TypeOK, Plain, Rising
<1>2. SlotKnown' /\ PassedSoFar' /\ Running'
  BY Zenon DEF SlotKnown, PassedSoFar, Running
<1>3. IndexesOrdered' /\ HasActive(table)'
  BY Zenon DEF IndexesOrdered, Rising, Plain
<1> QED
  BY <1>1, <1>2, <1>3 DEF IInv

\* During the verification only the claim about the checks is at stake.
LEMMA VerifyInv ==
  ASSUME IInv, Plain, Rising, pc' = "verify", slot' \in Slots,
         check' \in Checks, ret' \in Results, loaded' \subseteq Requested,
         (~unlocked' /\ ret' = "ok") => Passed(images[slot])'
  PROVE  IInv'
<1>1. TypeOK'
  BY DEF IInv, TypeOK, Plain, Rising
<1>2. SlotKnown' /\ Running'
  BY Zenon DEF SlotKnown, Running
<1>3. PassedSoFar'
  BY Zenon DEF PassedSoFar
<1>4. IndexesOrdered' /\ HasActive(table)'
  BY Zenon DEF IndexesOrdered, Rising, Plain
<1> QED
  BY <1>1, <1>2, <1>3, <1>4 DEF IInv

\* The parts of a step that changes none of them
LEMMA PlainKept ==
  ASSUME IInv, UNCHANGED device, UNCHANGED installs,
         mishaps' \in 0 .. MaxMishaps, pristine' \in BOOLEAN
  PROVE  Plain
BY Zenon DEF IInv, TypeOK, Plain, device

LEMMA IndexesKept ==
  ASSUME IInv, UNCHANGED indexes
  PROVE  Rising
<1>1. \A x \in Locations : stored[x] \in Int /\ stored[x] <= mem[x]
  BY DEF IInv, TypeOK, IndexesOrdered
<1>2. stored' = stored /\ mem' = mem
  BY DEF indexes
<1> QED
  BY <1>1, <1>2 DEF Rising, IInv, TypeOK

\* DeviceInfoInit
LEMMA IndexesRead ==
  ASSUME IInv, mem' = stored, stored' = stored
  PROVE  Rising
<1>1. stored \in [Locations -> 0 .. MaxIndex]
  BY DEF IInv, TypeOK
<1>2. \A x \in Locations : stored[x] \in Int
  BY <1>1
<1> QED
  BY <1>1, <1>2 DEF Rising

\* HandleActiveSlotUnbootable, whoever calls it
LEMMA UnbootableInv ==
  ASSUME IInv, HandleActiveSlotUnbootable, UNCHANGED verdict,
         installs' = installs, mishaps' \in 0 .. MaxMishaps, pristine' \in BOOLEAN
  PROVE  IInv' /\ Rising
<1>1. ActiveOf(table) \in Slots
  BY ActiveFound DEF IInv, TypeOK
<1>2. table' \in Table /\ HasActive(table')
  BY <1>1, CondemnedType, CondemnedActive
     DEF HandleActiveSlotUnbootable, IInv, TypeOK
<1>3. Plain
  BY <1>2, Zenon DEF HandleActiveSlotUnbootable, Plain, IInv, TypeOK
<1>4. Rising
  BY IndexesKept DEF HandleActiveSlotUnbootable
<1>5. /\ pc' \in {"off", "find", "fastboot"} /\ slot' = slot
      /\ check' \in Checks /\ ret' \in Results /\ loaded' \subseteq Requested
  BY DEF HandleActiveSlotUnbootable, verdict, IInv, TypeOK
<1> QED
  BY <1>3, <1>4, <1>5, AwayInv

\* The loader until it starts to verify
LEMMA FindInv ==
  ASSUME IInv, PowerOn \/ FindBootableSlot
  PROVE  IInv' /\ Rising
<1>0. TypeOK /\ HasActive(table)
  BY DEF IInv
<1>1. CASE PowerOn
  <2>1. Rising
    BY <1>1, IndexesRead DEF PowerOn
  <2>2. Plain
    BY <1>0, <1>1, PlainKept DEF PowerOn, counts, TypeOK
  <2>3. /\ pc' \in {"off", "find", "fastboot"} /\ slot' = slot
        /\ check' \in Checks /\ ret' \in Results /\ loaded' \subseteq Requested
    BY <1>0, <1>1 DEF PowerOn, verdict, TypeOK
  <2> QED
    BY <2>1, <2>2, <2>3, AwayInv
<1>2. CASE FindBootableSlot
  <2> DEFINE a == ActiveOf(table)
  <2>1. a \in Slots
    BY <1>0, ActiveFound DEF TypeOK
  <2>2. /\ installs' = installs /\ mishaps' = mishaps /\ pristine' = pristine
        /\ mishaps' \in 0 .. MaxMishaps /\ pristine' \in BOOLEAN
    BY <1>0, <1>2 DEF FindBootableSlot, counts, TypeOK
  <2>3. ASSUME StartVerify(a), UNCHANGED <<images, unlocked, indexes>>,
               table' \in Table, HasActive(table')
        PROVE  IInv' /\ Rising
    <3>1. Rising
      BY <2>3, IndexesKept
    <3>2. Plain
      BY <1>0, <2>2, <2>3, Zenon DEF Plain, TypeOK
    <3>3. /\ pc' = "verify" /\ slot' \in Slots /\ check' = "main" /\ ret' = "ok"
          /\ loaded' = {}
      BY <2>1, <2>3 DEF StartVerify
    <3>4. check' \in Checks /\ ret' \in Results /\ loaded' \subseteq Requested
      BY <3>3 DEF Checks, Results
    <3>5. Passed(images[slot])'
      BY <3>3 DEF Passed
    <3> QED
      BY <3>1, <3>2, <3>3, <3>4, <3>5, VerifyInv
  <2>4. CASE StartVerify(a) /\ UNCHANGED <<device, indexes>>
    BY <1>0, <2>3, <2>4 DEF device, TypeOK
  <2>5. CASE /\ OnTrial(table["boot"][a]) /\ table' = WithTryUsed(table, a)
             /\ StartVerify(a) /\ UNCHANGED <<images, unlocked, indexes>>
    <3>1. table' \in Table /\ HasActive(table')
      BY <1>0, <2>1, <2>5, TryUsedType, TryUsedActive DEF TypeOK
    <3> QED
      BY <2>3, <2>5, <3>1
  <2>6. CASE HandleActiveSlotUnbootable /\ UNCHANGED verdict
    BY <2>2, <2>6, UnbootableInv
  <2> QED
    BY <1>2, <2>4, <2>5, <2>6 DEF FindBootableSlot
<1> QED
  BY <1>1, <1>2

\* What holds of the slot that is being verified
LEMMA VerifyingFacts ==
  ASSUME IInv, pc = "verify"
  PROVE  /\ slot \in Slots /\ images[slot] \in Image
         /\ TypeOK /\ IndexesOrdered
         /\ 0 \in Locations /\ 1 \in Locations
         /\ mem[0] \in Int /\ mem[1] \in Int
         /\ (~unlocked /\ ret = "ok") => Passed(images[slot])
BY DEF IInv, SlotKnown, TypeOK, PassedSoFar, Locations

\* The checks of the two vbmeta structs
LEMMA HeadsInv ==
  ASSUME IInv, VerifyMain \/ VerifyDisabled \/ VerifyChain
  PROVE  IInv' /\ Rising
<1> DEFINE i == images[slot]
<1>1. pc = "verify"
  BY DEF VerifyMain, VerifyDisabled, VerifyChain, Verifying
<1>2. /\ slot \in Slots /\ i \in Image /\ TypeOK /\ IndexesOrdered
      /\ 0 \in Locations /\ 1 \in Locations /\ mem[0] \in Int /\ mem[1] \in Int
      /\ (~unlocked /\ ret = "ok") => Passed(i)
  BY <1>1, VerifyingFacts
<1>3. i.index \in 0 .. MaxIndex /\ i.chainIndex \in 0 .. MaxIndex
  BY <1>2 DEF Image
<1>4. {"done", "chain", "load", "boot"} \subseteq Checks
  BY DEF Checks
<1>5. pc' = "verify" /\ UNCHANGED device /\ i' = images[slot']
  BY <1>1 DEF VerifyMain, VerifyDisabled, VerifyChain, device
\* What is left to show of each of the three
<1>6. ASSUME Rising, slot' = slot, loaded' = loaded, ret' \in Results,
             check' \in Checks, installs' = installs,
             mishaps' \in 0 .. MaxMishaps, pristine' \in BOOLEAN,
             (~unlocked /\ ret' = "ok") => Passed(i)'
      PROVE  IInv' /\ Rising
  <2>1. Plain
    BY <1>5, <1>6, PlainKept
  <2>2. slot' \in Slots /\ loaded' \subseteq Requested /\ unlocked' = unlocked
    BY <1>2, <1>5, <1>6 DEF TypeOK, device
  <2> QED
    BY <1>5, <1>6, <2>1, <2>2, VerifyInv
<1>7. CASE VerifyMain
  <2>0. check = "main" /\ ~i.disabled
        /\ VerifyHead(i.key, {"oem", "user"}, 0, i.index, "done", "chain")
    BY <1>7 DEF VerifyMain, Verifying, Examined
  <2>1. /\ Rising /\ slot' = slot /\ loaded' = loaded /\ ret' \in Results
        /\ check' \in Checks /\ installs' = installs
        /\ mishaps' \in 0 .. MaxMishaps /\ pristine' \in BOOLEAN
        /\ (~unlocked /\ ret' = "ok") =>
             ret = "ok" /\ check' = "chain" /\ i.key \in {"oem", "user"}
             /\ i.index >= mem'[0]
    BY <1>2, <1>3, <1>4, <2>0, HeadLemma DEF Rising
  <2>2. ASSUME ~unlocked, ret' = "ok" PROVE Passed(i)'
    <3>1. i' = i
      BY <1>5, <2>1 DEF device
    <3>2. "dtbo" \notin loaded
      BY <1>2, <2>0, <2>1, <2>2 DEF Passed
    <3> QED
      BY <2>1, <2>2, <3>1, <3>2 DEF Passed
  <2> QED
    BY <1>6, <2>1, <2>2
<1>8. CASE VerifyDisabled
  <2>0. check = "main" /\ i.disabled
        /\ VerifyHead(i.key, {"oem", "user"}, 0, i.index, "done", "load")
    BY <1>8 DEF VerifyDisabled, Verifying, Examined
  <2>1. /\ Rising /\ slot' = slot /\ loaded' = loaded /\ ret' \in Results
        /\ check' \in Checks /\ installs' = installs
        /\ mishaps' \in 0 .. MaxMishaps /\ pristine' \in BOOLEAN
        /\ (~unlocked /\ ret' = "ok") =>
             ret = "ok" /\ check' = "load" /\ i.key \in {"oem", "user"}
             /\ i.index >= mem'[0]
    BY <1>2, <1>3, <1>4, <2>0, HeadLemma DEF Rising
  <2>2. ASSUME ~unlocked, ret' = "ok" PROVE Passed(i)'
    <3>1. i' = i
      BY <1>5, <2>1 DEF device
    <3>2. "dtbo" \notin loaded
      BY <1>2, <2>0, <2>1, <2>2 DEF Passed
    <3> QED
      BY <2>0, <2>1, <2>2, <3>1, <3>2 DEF Passed
  <2> QED
    BY <1>6, <2>1, <2>2
<1>9. CASE VerifyChain
  <2>0. check = "chain"
        /\ VerifyHead(i.chainKey, {"oem"}, 1, i.chainIndex, "boot", "boot")
    BY <1>9 DEF VerifyChain, Verifying, Examined
  <2>1. /\ Rising /\ slot' = slot /\ loaded' = loaded /\ ret' \in Results
        /\ check' \in Checks /\ installs' = installs
        /\ mishaps' \in 0 .. MaxMishaps /\ pristine' \in BOOLEAN
        /\ \A x \in Locations : x # 1 => mem'[x] = mem[x]
        /\ (~unlocked /\ ret' = "ok") =>
             ret = "ok" /\ check' = "boot" /\ i.chainKey \in {"oem"}
             /\ i.chainIndex >= mem'[1]
    BY <1>2, <1>3, <1>4, <2>0, HeadLemma DEF Rising
  <2>2. ASSUME ~unlocked, ret' = "ok" PROVE Passed(i)'
    <3>1. i' = i
      BY <1>5, <2>1 DEF device
    <3>2. "dtbo" \notin loaded /\ i.key \in {"oem", "user"} /\ i.index >= mem[0]
      BY <1>2, <2>0, <2>1, <2>2 DEF Passed
    <3>3. mem'[0] = mem[0]
      BY <2>1 DEF Locations
    <3> QED
      BY <2>1, <2>2, <3>1, <3>2, <3>3 DEF Passed
  <2> QED
    BY <1>6, <2>1, <2>2
<1> QED
  BY <1>7, <1>8, <1>9

\* The checks that leave the indexes alone
LEMMA HashesInv ==
  ASSUME IInv,
         \/ VerifyHash("boot", "dtbo") \/ VerifyHash("dtbo", "done")
         \/ LoadRequestedPartitions \/ ReadFails
  PROVE  IInv' /\ Rising
<1> DEFINE i == images[slot]
<1>1. /\ pc = "verify" /\ pc' = "verify" /\ slot' = slot
      /\ UNCHANGED device /\ UNCHANGED indexes
  BY DEF VerifyHash, LoadRequestedPartitions, ReadFails, Verifying, Goto
<1>2. /\ slot \in Slots /\ i \in Image /\ TypeOK
      /\ (~unlocked /\ ret = "ok") => Passed(i)
  BY <1>1, VerifyingFacts
<1>3. i' = i /\ unlocked' = unlocked /\ mem' = mem /\ slot' \in Slots
  BY <1>1, <1>2 DEF device, indexes
<1>4. Rising
  BY <1>1, IndexesKept
<1>5. ASSUME ret' \in Results, check' \in Checks, loaded' \subseteq Requested,
             UNCHANGED counts, (~unlocked /\ ret' = "ok") => Passed(i)'
      PROVE  IInv' /\ Rising
  <2>1. Plain
    BY <1>1, <1>2, <1>5, PlainKept DEF counts, TypeOK
  <2> QED
    BY <1>1, <1>3, <1>4, <1>5, <2>1, VerifyInv
<1>6. CASE VerifyHash("boot", "dtbo")
  <2>1. /\ check = "boot" /\ UNCHANGED counts
        /\ loaded' = (IF i.boot = "absent" THEN loaded ELSE loaded \cup {"boot"})
        /\ ret' = After(IF i.boot = "bad" THEN "error" ELSE "ok")
        /\ check' = (IF i.boot = "bad" /\ ~unlocked THEN "done" ELSE "dtbo")
    BY <1>6 DEF VerifyHash, Verifying, Examined
  <2>2. ret' \in Results /\ check' \in Checks /\ loaded' \subseteq Requested
    BY <1>2, <2>1 DEF TypeOK, After, Results, Checks, Requested
  <2>3. ASSUME ~unlocked, ret' = "ok" PROVE Passed(i)'
    <3>1. i.boot # "bad" /\ ret = "ok" /\ check' = "dtbo"
      BY <2>1, <2>3 DEF After
    <3>2. Passed(i)
      BY <1>2, <2>3, <3>1
    <3>3. i.boot = "good"
      BY <1>2, <3>1 DEF Image
    <3> QED
      BY <1>3, <2>1, <3>1, <3>2, <3>3 DEF Passed
  <2> QED
    BY <1>5, <2>1, <2>2, <2>3
<1>7. CASE VerifyHash("dtbo", "done")
  <2>1. /\ check = "dtbo" /\ UNCHANGED counts
        /\ loaded' = (IF i.dtbo = "absent" THEN loaded ELSE loaded \cup {"dtbo"})
        /\ ret' = After(IF i.dtbo = "bad" THEN "error" ELSE "ok")
        /\ check' = "done"
    BY <1>7 DEF VerifyHash, Verifying, Examined
  <2>2. ret' \in Results /\ check' \in Checks /\ loaded' \subseteq Requested
    BY <1>2, <2>1 DEF TypeOK, After, Results, Checks, Requested
  <2>3. ASSUME ~unlocked, ret' = "ok" PROVE Passed(i)'
    <3>1. i.dtbo # "bad" /\ ret = "ok"
      BY <2>1, <2>3 DEF After
    <3>2. Passed(i)
      BY <1>2, <2>3, <3>1
    <3>3. loaded' = Requested => i.dtbo = "good"
      BY <1>2, <2>1, <3>1, <3>2 DEF Image, Requested, Passed
    <3>4. loaded' = Requested => Sound(i) /\ NotOlder(i, mem)
      BY <2>1, <3>2, <3>3 DEF Passed, Sound, HashesMatch, NotOlder
    <3> QED
      BY <1>3, <2>1, <3>2, <3>4 DEF Passed, NotOlder
  <2> QED
    BY <1>5, <2>1, <2>2, <2>3
<1>8. CASE LoadRequestedPartitions
  <2>1. /\ check = "load" /\ loaded' = Requested /\ check' = "done" /\ ret' = ret
        /\ UNCHANGED counts
    BY <1>8 DEF LoadRequestedPartitions, Verifying
  <2>2. ret' \in Results /\ check' \in Checks /\ loaded' \subseteq Requested
    BY <1>2, <2>1 DEF TypeOK, Checks
  <2>3. ASSUME ~unlocked, ret' = "ok" PROVE Passed(i)'
    <3>1. Passed(i)
      BY <1>2, <2>1, <2>3
    <3>2. Sound(i) /\ NotOlder(i, mem)
      BY <2>1, <3>1 DEF Passed, Sound, NotOlder
    <3> QED
      BY <1>3, <2>1, <3>1, <3>2 DEF Passed, NotOlder
  <2> QED
    BY <1>5, <2>1, <2>2, <2>3
<1>9. CASE ReadFails
  <2>1. ret' = "fatal" /\ check' = "done" /\ loaded' = loaded
    BY <1>9 DEF ReadFails, Goto, After
  <2>2. /\ installs' = installs /\ mishaps' \in 0 .. MaxMishaps
        /\ pristine' \in BOOLEAN
    BY <1>2, <1>9, MishapLemma DEF ReadFails
  <2>3. Plain
    BY <1>1, <2>2, PlainKept
  <2>4. ret' \in Results /\ check' \in Checks /\ loaded' \subseteq Requested
    BY <1>2, <2>1 DEF TypeOK, Results, Checks
  <2> QED
    BY <1>1, <1>3, <1>4, <2>1, <2>3, <2>4, VerifyInv
<1> QED
  BY <1>6, <1>7, <1>8, <1>9

\* The system in the slot, which was accepted or goes on running
LEMMA RunningInv ==
  ASSUME IInv, Plain, Rising, pc' = "os", slot' = slot, slot \in Slots,
         check' \in Checks, ret' \in Results, loaded' \subseteq Requested,
         ~unlocked' => Sound(images'[slot]) /\ NotOlder(images'[slot], mem')
  PROVE  IInv'
<1>1. TypeOK'
  BY DEF IInv, TypeOK, Plain, Rising
<1>2. SlotKnown' /\ PassedSoFar'
  BY Zenon DEF SlotKnown, PassedSoFar
<1>3. Running'
  BY DEF Running, NotOlder
<1>4. IndexesOrdered' /\ HasActive(table)'
  BY Zenon DEF IndexesOrdered, Rising, Plain
<1> QED
  BY <1>1, <1>2, <1>3, <1>4 DEF IInv

LEMMA VerdictInv ==
  ASSUME IInv, HandOver \/ AuthFails \/ KeyMasterFails
  PROVE  IInv' /\ Rising
<1>0. TypeOK
  BY DEF IInv
<1>1. CASE HandOver
  <2>1. /\ pc = "verify" /\ check = "done" /\ Accepted /\ pc' = "os"
        /\ UNCHANGED device /\ UNCHANGED indexes /\ UNCHANGED verdict
        /\ UNCHANGED counts
    BY <1>1 DEF HandOver, Verifying
  <2>2. Plain /\ Rising
    BY <1>0, <2>1, PlainKept, IndexesKept DEF counts, TypeOK
  <2>3. /\ slot' = slot /\ slot \in Slots /\ check' \in Checks /\ ret' \in Results
        /\ loaded' \subseteq Requested /\ unlocked' = unlocked
        /\ images' = images /\ mem' = mem
    BY <1>0, <2>1, VerifyingFacts DEF verdict, device, indexes, TypeOK
  <2>4. ASSUME ~unlocked PROVE Sound(images[slot]) /\ NotOlder(images[slot], mem)
    BY <2>1, <2>4, VerifyingFacts DEF Accepted, Passed
  <2> QED
    BY <2>1, <2>2, <2>3, <2>4, RunningInv
<1>2. CASE AuthFails
  BY <1>0, <1>2, UnbootableInv DEF AuthFails, counts, TypeOK
<1>3. CASE KeyMasterFails
  BY <1>0, <1>3, UnbootableInv, MishapLemma DEF KeyMasterFails
<1> QED
  BY <1>1, <1>2, <1>3

\* A running system, which may mark itself or install the other slot
LEMMA OsInv ==
  ASSUME IInv,
         \/ OsMarkSuccessful
         \/ \E i \in Images : OsUpdate(i)
  PROVE  IInv' /\ Rising
<1>0. TypeOK /\ HasActive(table) /\ Running /\ SlotKnown
  BY DEF IInv
<1>1. /\ pc = "os" /\ pc' = "os" /\ UNCHANGED indexes /\ UNCHANGED verdict
      /\ unlocked' = unlocked /\ mishaps' = mishaps /\ pristine' = pristine
  BY DEF OsMarkSuccessful, OsUpdate, Install, counts
<1>2. slot \in Slots
  BY <1>0, <1>1 DEF SlotKnown
<1>3. Rising
  BY <1>1, IndexesKept
<1>4. /\ slot' = slot /\ check' \in Checks /\ ret' \in Results
      /\ loaded' \subseteq Requested /\ mem' = mem
  BY <1>0, <1>1 DEF verdict, indexes, TypeOK
<1>5. ~unlocked => Sound(images[slot]) /\ NotOlder(images[slot], mem)
  BY <1>0, <1>1 DEF Running
<1>6. ASSUME table' \in Table, HasActive(table'), images' \in [Slots -> Image],
             installs' \in 0 .. MaxInstalls, images'[slot] = images[slot]
      PROVE  IInv' /\ Rising
  <2>1. Plain
    BY <1>0, <1>1, <1>6 DEF Plain, TypeOK
  <2> QED
    BY <1>1, <1>2, <1>3, <1>4, <1>5, <1>6, <2>1, RunningInv
<1>7. CASE OsMarkSuccessful
  <2>1. table' \in Table /\ HasActive(table')
    BY <1>0, <1>2, <1>7, SuccessfulType, SuccessfulActive
       DEF OsMarkSuccessful, TypeOK
  <2>2. images' = images /\ installs' = installs
    BY <1>7 DEF OsMarkSuccessful, counts
  <2> QED
    BY <1>0, <1>6, <2>1, <2>2 DEF TypeOK
<1>8. CASE \E i \in Images : OsUpdate(i)
  <2>1. PICK i \in Images : OsUpdate(i)
    BY <1>8
  <2>2. OtherSlot(slot) \in Slots /\ OtherSlot(slot) # slot
    BY <1>2, OtherSlotType
  <2>3. table' \in Table /\ HasActive(table')
    BY <1>0, <2>1, <2>2, ActiveType, ActiveSet DEF OsUpdate, TypeOK
  <2>4. i \in Image
    BY VerifyAssumption
  <2>5. images' = [images EXCEPT ![OtherSlot(slot)] = i]
        /\ installs < MaxInstalls /\ installs' = installs + 1
    BY <2>1 DEF OsUpdate, Install
  <2>6. images' \in [Slots -> Image] /\ images'[slot] = images[slot]
    BY <1>0, <1>2, <2>2, <2>4, <2>5 DEF TypeOK
  <2>7. installs' \in 0 .. MaxInstalls
    BY <1>0, <2>5, VerifyAssumption DEF TypeOK
  <2> QED
    BY <1>6, <2>3, <2>6, <2>7
<1> QED
  BY <1>7, <1>8

\* Fastboot, the way down and the power supply
LEMMA OutsideInv ==
  ASSUME IInv,
         \/ OsReboots \/ EnterFastboot \/ CmdFlashingLock \/ CmdReboot \/ PowerCut
         \/ \E s \in Slots : CmdSetActive(s) \/ (\E i \in Images : CmdFlash(s, i))
  PROVE  IInv' /\ Rising
<1>0. TypeOK /\ HasActive(table)
  BY DEF IInv
<1>1. /\ pc' \in {"off", "find", "fastboot"} /\ UNCHANGED verdict
  BY Zenon DEF OsReboots, EnterFastboot, CmdFlashingLock, CmdReboot, PowerCut,
               CmdSetActive, CmdFlash, TypeOK
<1>2. /\ slot' = slot /\ check' \in Checks /\ ret' \in Results
      /\ loaded' \subseteq Requested
  BY <1>0, <1>1 DEF verdict, TypeOK
<1>3. Rising
  <2>1. CASE EnterFastboot
    BY <2>1, IndexesRead DEF EnterFastboot
  <2>2. CASE ~EnterFastboot
    <3>1. UNCHANGED indexes
      BY <2>2, Zenon DEF OsReboots, CmdFlashingLock, CmdReboot, PowerCut,
                         CmdSetActive, CmdFlash
    <3> QED
      BY <3>1, IndexesKept
  <2> QED
    BY <2>1, <2>2
<1>4. SUFFICES Plain
  BY <1>1, <1>2, <1>3, AwayInv
<1>5. CASE OsReboots \/ EnterFastboot \/ CmdReboot
  BY <1>0, <1>5, PlainKept DEF OsReboots, EnterFastboot, CmdReboot, counts, TypeOK
<1>6. CASE CmdFlashingLock
  <2>1. unlocked' \in BOOLEAN /\ pristine' \in BOOLEAN
    BY <1>6, Zenon DEF CmdFlashingLock
  <2>2. /\ table' = table /\ images' = images
        /\ installs' = installs /\ mishaps' = mishaps
    BY <1>6 DEF CmdFlashingLock
  <2> QED
    BY <1>0, <2>1, <2>2, Zenon DEF Plain, TypeOK
<1>7. CASE PowerCut
  <2>1. mishaps' \in 0 .. MaxMishaps
    BY <1>0, <1>7, VerifyAssumption DEF PowerCut, TypeOK
  <2> QED
    BY <1>0, <1>7, <2>1, PlainKept DEF PowerCut, TypeOK
<1>8. CASE \E s \in Slots : CmdSetActive(s)
  <2>1. PICK s \in Slots : CmdSetActive(s)
    BY <1>8
  <2>2. table' \in Table /\ HasActive(table')
    BY <1>0, <2>1, ActiveType, ActiveSet DEF CmdSetActive, TypeOK
  <2>3. UNCHANGED <<images, unlocked, counts>>
    BY <2>1 DEF CmdSetActive
  <2> QED
    BY <1>0, <2>2, <2>3, Zenon DEF Plain, TypeOK, counts
<1>9. CASE \E s \in Slots : \E i \in Images : CmdFlash(s, i)
  <2>1. PICK s \in Slots, i \in Images : CmdFlash(s, i)
    BY <1>9
  <2>2. table' \in Table /\ HasActive(table')
    BY <1>0, <2>1, FlashedType, FlashedActive DEF CmdFlash, TypeOK
  <2>3. /\ images' = [images EXCEPT ![s] = i] /\ i \in Image
        /\ installs < MaxInstalls /\ installs' = installs + 1
        /\ mishaps' = mishaps /\ unlocked' = unlocked /\ pristine' = pristine
    BY <2>1, VerifyAssumption DEF CmdFlash, Install
  <2>4. images' \in [Slots -> Image]
    BY <1>0, <2>3 DEF TypeOK
  <2>5. installs' \in 0 .. MaxInstalls
    BY <1>0, <2>3, VerifyAssumption DEF TypeOK
  <2> QED
    BY <1>0, <2>2, <2>3, <2>4, <2>5, Zenon DEF Plain, TypeOK
<1> QED
  BY <1>5, <1>6, <1>7, <1>8, <1>9

LEMMA NextInv ==
  ASSUME IInv, [Next]_vars
  PROVE  IInv' /\ \A l \in Locations : stored'[l] >= stored[l]
<1>1. CASE Next
  <2>1. IInv' /\ Rising
    BY <1>1, FindInv, HeadsInv, HashesInv, VerdictInv, OsInv, OutsideInv
       DEF Next, Loader, Others
  <2> QED
    BY <2>1, Zenon DEF Rising
<1>2. CASE UNCHANGED vars
  <2>1. IInv'
    BY <1>2 DEF vars, IInv, TypeOK, HasActive, SlotKnown, IndexesOrdered,
                PassedSoFar, Passed, Running, Sound, HashesMatch, NotOlder
  <2>2. stored' = stored /\ \A l \in Locations : stored[l] \in Int
    BY <1>2 DEF vars, IInv, TypeOK
  <2> QED
    BY <2>1, <2>2
<1> QED
  BY <1>1, <1>2

-----------------------------------------------------------------------------
(* The theorems                                                            *)

\* Every variable keeps its type, in every device and for any bounds.
THEOREM TypeCorrect == Spec => []TypeOK
<1>1. IInv /\ [Next]_vars => IInv'
  BY NextInv
<1>2. IInv => TypeOK
  BY DEF IInv
<1> QED
  BY <1>1, <1>2, InitInv, PTL DEF Spec

\* load_and_verify_vbmeta and LoadImageAndAuthVB2: what a locked device runs
\* was verified as a whole and is not older than the stored indexes.
THEOREM LockedVerified == Spec => []LockedRunsVerified
<1>1. IInv /\ [Next]_vars => IInv'
  BY NextInv
<1> QED
  BY <1>1, InvImpliesLocked, InitInv, PTL DEF Spec

\* AvbWriteRollbackIndex: no step takes a stored index back.
THEOREM IndexesRise == Spec => IndexMonotone
<1>1. IInv /\ [Next]_vars => IInv'
  BY NextInv
<1>2. IInv /\ [Next]_vars => [\A l \in Locations : stored'[l] >= stored[l]]_vars
  BY NextInv
<1> QED
  BY <1>1, <1>2, InitInv, PTL DEF Spec, IndexMonotone

-----------------------------------------------------------------------------
(* A slot to fall back to.  The invariant says which slot that is: the     *)
(* active one if it has proved itself, the other one while the active one  *)
(* is on trial.                                                            *)

Active == ActiveOf(table)
Entries == table["boot"]

Good(s) == Sound(images[s]) /\ NotOlder(images[s], stored)

\* A good slot passes every check.
AllPassed ==
  /\ ret = "ok"
  /\ check = "load" => images[slot].disabled
  /\ check \in {"chain", "boot", "dtbo"} => ~images[slot].disabled
  /\ check = "dtbo" => "boot" \in loaded
  /\ check = "done" => loaded = Requested

Safe ==
  /\ ~unlocked /\ mem = stored
  /\ pc = "verify" => slot = Active
  /\ pc = "os" => slot = Active \/ ~Proven(Entries[Active])
  /\ Proven(Entries[Active]) => Good(Active)
  /\ ~Proven(Entries[Active]) =>
        Proven(Entries[OtherSlot(Active)]) /\ Good(OtherSlot(Active))
  /\ (pc = "verify" /\ Proven(Entries[Active])) => AllPassed

FInv == IInv /\ (pristine => Safe)

LEMMA FInvImpliesFallback == FInv => FallbackVerifies
<1> SUFFICES ASSUME FInv, pristine PROVE FallbackVerifies
  BY DEF FallbackVerifies
<1>1. Active \in Slots
  BY ActiveFound DEF FInv, IInv, TypeOK, Active
<1>2. \E s \in Slots : Proven(Entries[s]) /\ Good(s)
  BY <1>1, OtherSlotType DEF FInv, Safe
<1> QED
  BY <1>2 DEF FallbackVerifies, Good, Entries

LEMMA InitFInv == Init => FInv
<1> SUFFICES ASSUME Init PROVE FInv
  OBVIOUS
<1>1. IInv
  BY InitInv
<1>2. Active \in Slots
  BY <1>1, ActiveFound DEF IInv, TypeOK, Active
<1>3. Proven(Entries[Active])
  BY InUseAssumption DEF Init, Active, Entries
<1>4. /\ Sound(images[Active]) /\ images[Active].index = 0
      /\ images[Active].chainIndex = 0
  BY <1>2 DEF Init
<1>5. stored[0] = 0 /\ stored[1] = 0
  BY DEF Init, Locations
<1>6. Good(Active)
  BY <1>4, <1>5 DEF Good, NotOlder
<1>7. Safe
  BY <1>3, <1>6 DEF Init, Safe
<1> QED
  BY <1>1, <1>7 DEF FInv

-----------------------------------------------------------------------------
(* Which slot is active after a change of the table                        *)

\* It depends on the active bits and the priorities alone.
LEMMA SameActive ==
  ASSUME NEW t \in Table, NEW s \in Slots, NEW e \in Entry,
         e.act = t["boot"][s].act, e.pri = t["boot"][s].pri
  PROVE  ActiveOf(UpdBoot(t, s, e)) = ActiveOf(t)
<1> DEFINE u == UpdBoot(t, s, e)
<1>1. u["boot"][s] = e /\ \A x \in Slots : x # s => u["boot"][x] = t["boot"][x]
  BY UpdBootEntries
<1> HIDE DEF u
<1>2. \A x \in Slots : u["boot"][x].act = t["boot"][x].act
                       /\ u["boot"][x].pri = t["boot"][x].pri
  BY <1>1, Zenon
<1>3. "_a" \in Slots /\ "_b" \in Slots
  BY DEF Slots
<1>4. Rank(u, "_a") = Rank(t, "_a") /\ Rank(u, "_b") = Rank(t, "_b")
  BY <1>2, <1>3, Zenon DEF Rank
<1>5. ActiveOf(u) = ActiveOf(t)
  BY <1>4, Zenon DEF ActiveOf
<1> QED
  BY <1>5 DEF u

\* SetActiveSlot makes its slot the active one; a slot stays proven if its
\* success is kept, and the other slot's entry keeps its proof.
LEMMA SetActive ==
  ASSUME NEW t \in Table, NEW s \in Slots, NEW r \in BOOLEAN
  PROVE  LET u == WithActive(t, s, r)
         IN  /\ ActiveOf(u) = s
             /\ (~r /\ t["boot"][s].suc) => Proven(u["boot"][s])
             /\ r => ~Proven(u["boot"][s])
             /\ Proven(t["boot"][OtherSlot(s)]) => Proven(u["boot"][OtherSlot(s)])
<1> DEFINE e == t["boot"][s]
           o == t["boot"][OtherSlot(s)]
           new == [e EXCEPT !.pri = MaxPriority, !.act = TRUE, !.ret = MaxRetry,
                            !.unb = FALSE, !.suc = @ /\ ~r]
           old == [o EXCEPT !.pri = MaxPriority - 1, !.act = FALSE]
           u == WithActive(t, s, r)
<1>0. MaxRetry \in 0 .. MaxRetry /\ MaxPriority \in 0 .. MaxPriority
      /\ MaxPriority - 1 \in 0 .. MaxPriority
  BY TableAssumption DEF MaxPriority
<1>1. e \in Entry /\ o \in Entry
  BY BootEntries, OtherSlotType
<1>2. /\ new \in Entry /\ new.act /\ new.pri = MaxPriority
      /\ ~new.unb /\ (new.suc <=> e.suc /\ ~r)
  BY <1>0, <1>1, Zenon DEF Entry
<1>3. old \in Entry /\ ~old.act /\ old.unb = o.unb /\ old.suc = o.suc
  BY <1>0, <1>1, Zenon DEF Entry
<1>4. u = UpdBoot(UpdBoot(t, s, new), OtherSlot(s), old)
  BY Zenon DEF WithActive
<1> HIDE DEF new, old, u
<1>5. OtherSlot(s) \in Slots /\ s # OtherSlot(s)
  BY OtherSlotType
<1>6. UpdBoot(t, s, new) \in Table /\ UpdBoot(t, s, new)["boot"][s] = new
  BY <1>2, BootEntryType, UpdBootEntries, Zenon
<1>7. u["boot"][s] = new /\ u["boot"][OtherSlot(s)] = old
  <2> DEFINE v == UpdBoot(t, s, new)
  <2>0. v \in Table
    BY <1>6
  <2>1. v["boot"][s] = new
    BY <1>6
  <2>2. u = UpdBoot(v, OtherSlot(s), old)
    BY <1>4
  <2> HIDE DEF v
  <2>3. OtherSlot(s) \in Slots /\ s # OtherSlot(s) /\ old \in Entry
    BY <1>3, <1>5
  <2>4. UpdBoot(v, OtherSlot(s), old)["boot"][OtherSlot(s)] = old
    BY <2>0, <2>3, UpdBootEntries, Zenon
  <2>5. UpdBoot(v, OtherSlot(s), old)["boot"][s] = v["boot"][s]
    <3>1. \A x \in Slots : x # OtherSlot(s) =>
            UpdBoot(v, OtherSlot(s), old)["boot"][x] = v["boot"][x]
      BY <2>0, <2>3, UpdBootEntries, Zenon
    <3> QED
      BY <2>3, <3>1, Zenon
  <2> QED
    BY <2>1, <2>2, <2>4, <2>5, Zenon
<1>8. Rank(u, s) = MaxPriority /\ Rank(u, OtherSlot(s)) = 0
  BY <1>2, <1>3, <1>7, Zenon DEF Rank
<1>9. ActiveOf(u) = s
  BY <1>8, SMT DEF ActiveOf, Slots, OtherSlot, MaxPriority
<1>10. (~r /\ e.suc) => Proven(u["boot"][s])
  BY <1>2, <1>7, Zenon DEF Proven
<1>11. r => ~Proven(u["boot"][s])
  BY <1>2, <1>7, Zenon DEF Proven
<1>12. Proven(o) => Proven(u["boot"][OtherSlot(s)])
  BY <1>3, <1>7, Zenon DEF Proven
<1> QED
  BY <1>9, <1>10, <1>11, <1>12, Zenon DEF u

\* HandleActiveSlotUnbootable, called for a slot that has not proved itself
\* while the other one has: the other one becomes active and stays proven.
LEMMA CondemnedSwitches ==
  ASSUME NEW t \in Table, NEW s \in Slots, Proven(t["boot"][OtherSlot(s)])
  PROVE  LET u == Condemned(t, s)
         IN  ActiveOf(u) = OtherSlot(s) /\ Proven(u["boot"][OtherSlot(s)])
<1> DEFINE e == [t["boot"][s] EXCEPT !.unb = TRUE]
           v == WithUnbootable(t, s)
           o == OtherSlot(s)
<1>1. e \in Entry
  BY BootEntries, Zenon DEF Entry
<1>2. o \in Slots /\ o # s
  BY OtherSlotType
<1>3. v = UpdBoot(t, s, e)
  BY Zenon DEF WithUnbootable
<1> HIDE DEF e, v
<1>4. v \in Table /\ v["boot"][o] = t["boot"][o]
  BY <1>1, <1>2, <1>3, BootEntryType, UpdBootEntries, Zenon
<1>5. v["boot"][o].suc
  BY <1>4 DEF Proven
<1>6. ActiveOf(WithActive(v, o, FALSE)) = o
      /\ Proven(WithActive(v, o, FALSE)["boot"][o])
  BY <1>2, <1>4, <1>5, SetActive
<1>7. Condemned(t, s) = WithActive(v, o, FALSE)
  BY Zenon DEF Condemned, v
<1> QED
  BY <1>6, <1>7, Zenon

-----------------------------------------------------------------------------
(* Every step keeps Safe                                                   *)

\* What the invariant gives a pristine device
LEMMA Given ==
  ASSUME FInv, pristine
  PROVE  /\ IInv /\ Safe /\ TypeOK /\ HasActive(table)
         /\ Active \in Slots /\ OtherSlot(Active) \in Slots
         /\ OtherSlot(Active) # Active
         /\ OtherSlot(OtherSlot(Active)) = Active
<1>1. IInv /\ Safe /\ TypeOK /\ HasActive(table)
  BY DEF FInv, IInv
<1>2. Active \in Slots
  BY <1>1, ActiveFound DEF TypeOK, Active
<1> QED
  BY <1>1, <1>2 DEF Slots, OtherSlot

\* Steps that leave the slots and the indexes alone and do not verify
LEMMA SafeElsewhere ==
  ASSUME FInv, pristine, UNCHANGED <<table, images, unlocked, stored>>,
         mem' = stored, pc' \in {"off", "find", "fastboot"}
  PROVE  Safe'
<1>1. Safe
  BY DEF FInv
<1>2. Active' = Active /\ Entries' = Entries
  BY DEF Active, Entries
<1>3. \A s \in {Active, OtherSlot(Active)} : Good(s)' <=> Good(s)
  BY DEF Good, Sound, HashesMatch, NotOlder
<1> QED
  BY <1>1, <1>2, <1>3, Zenon DEF Safe

\* HandleActiveSlotUnbootable is only called for a slot on trial.
LEMMA SafeUnbootable ==
  ASSUME FInv, pristine, ~Proven(Entries[Active]), HandleActiveSlotUnbootable
  PROVE  Safe'
<1>1. /\ TypeOK /\ Safe /\ Active \in Slots
      /\ OtherSlot(Active) \in Slots
  BY Given
<1> DEFINE o == OtherSlot(Active)
<1>2. Proven(Entries[o]) /\ Good(o)
  BY <1>1 DEF Safe
<1>3. /\ table' = Condemned(table, Active) /\ pc' = "off"
      /\ UNCHANGED <<images, unlocked, stored, mem>>
  BY DEF HandleActiveSlotUnbootable, Active, indexes
<1>4. Active' = o /\ Proven(Entries'[o])
  BY <1>1, <1>2, <1>3, CondemnedSwitches DEF Active, Entries, TypeOK
<1>5. Good(Active)'
  BY <1>2, <1>3, <1>4 DEF Good, Sound, HashesMatch, NotOlder
<1>6. Proven(Entries[Active])'
  BY <1>4 DEF Proven
<1> QED
  BY <1>1, <1>3, <1>5, <1>6, Zenon DEF Safe

\* FindBootableSlot starts to verify the active slot, with its last entry.
LEMMA SafeFind ==
  ASSUME FInv, pristine, pristine', FindBootableSlot
  PROVE  Safe'
<1>1. /\ TypeOK /\ Safe /\ Active \in Slots /\ OtherSlot(Active) \in Slots
      /\ OtherSlot(Active) # Active
  BY Given
<1> DEFINE a == Active
           o == OtherSlot(Active)
<1>2. ASSUME StartVerify(a), UNCHANGED <<images, unlocked, indexes>>,
             Active' = a, Entries'[o] = Entries[o],
             \/ Entries' = Entries
             \/ ~Proven(Entries[a]) /\ ~Proven(Entries'[a])
      PROVE  Safe'
  <2>1. pc' = "verify" /\ slot' = Active /\ check' = "main" /\ ret' = "ok"
    BY <1>2 DEF StartVerify
  <2>2. UNCHANGED <<images, unlocked, stored, mem>>
    BY <1>2 DEF indexes
  <2>3. AllPassed'
    BY <2>1 DEF AllPassed
  <2> QED
    BY <1>1, <1>2, <2>1, <2>2, <2>3
       DEF Safe, Good, Sound, HashesMatch, NotOlder
<1>3. CASE Proven(Entries[a]) /\ StartVerify(a) /\ UNCHANGED <<device, indexes>>
  <2>1. table' = table /\ UNCHANGED <<images, unlocked, indexes>>
    BY <1>3 DEF device
  <2>2. Active' = a /\ Entries' = Entries
    BY <2>1 DEF Active, Entries
  <2> QED
    BY <1>2, <1>3, <2>1, <2>2
<1>4. CASE /\ OnTrial(Entries[a]) /\ table' = WithTryUsed(table, a)
           /\ StartVerify(a) /\ UNCHANGED <<images, unlocked, indexes>>
  <2> DEFINE e == [Entries[a] EXCEPT !.ret = @ - 1]
  <2>1. Entries[a] \in Entry
    BY <1>1, BootEntries DEF Entries, TypeOK
  <2>2. Entries[a].ret - 1 \in 0 .. MaxRetry
    BY <1>4, <2>1, TableAssumption DEF Entry, OnTrial
  <2>3. /\ e \in Entry /\ e.act = Entries[a].act /\ e.pri = Entries[a].pri
        /\ e.suc = Entries[a].suc
    BY <2>1, <2>2, Zenon DEF Entry
  <2>4. table' = UpdBoot(table, a, e)
    BY <1>4, Zenon DEF WithTryUsed, Entries
  <2> HIDE DEF e
  <2>5. ActiveOf(table') = a
    BY <1>1, <2>3, <2>4, SameActive DEF Entries, TypeOK, Active
  <2>6. Entries'[a] = e /\ Entries'[o] = Entries[o]
    BY <1>1, <2>3, <2>4, UpdBootEntries DEF Entries, TypeOK
  <2>7. ~Proven(Entries[a]) /\ ~Proven(Entries'[a])
    BY <1>4, <2>3, <2>6 DEF Proven, OnTrial
  <2>8. Active' = a
    BY <2>5 DEF Active
  <2> QED
    BY <1>2, <1>4, <2>6, <2>7, <2>8
<1>5. CASE ~Proven(Entries[a]) /\ HandleActiveSlotUnbootable
  BY <1>5, SafeUnbootable
<1> QED
  BY <1>3, <1>4, <1>5, Zenon DEF FindBootableSlot, Active, Entries

\* The head of a vbmeta struct when nothing fails: a struct that is in order
\* passes, and only the index of a proven slot is stored.
LEMMA HeadSafe ==
  ASSUME FInv, pristine, pristine',
         NEW key, NEW trusted, NEW l, NEW index, NEW c1, NEW c,
         VerifyHead(key, trusted, l, index, c1, c)
  PROVE  /\ mem' = stored' /\ slot' = slot /\ loaded' = loaded
         /\ ~Proven(Entries[Active]) => stored' = stored
         /\ stored' \in {stored, [stored EXCEPT ![l] = index]}
         /\ (key \in trusted /\ key # "broken" /\ index >= mem[l]) =>
              ret' = ret /\ check' = c
<1>1. mem = stored
  BY DEF FInv, Safe
<1> DEFINE ok == key \in trusted /\ index >= mem[l]
           r == IF ok THEN "ok" ELSE "error"
<1>2. CASE key = "broken" /\ Goto("fatal", "done") /\ UNCHANGED <<indexes, counts>>
  BY <1>1, <1>2 DEF Goto, indexes
<1>3. CASE key # "broken" /\ ~ok /\ ~unlocked /\ Goto("error", c1)
           /\ UNCHANGED <<indexes, counts>>
  BY <1>1, <1>3 DEF Goto, indexes
<1>4. CASE key # "broken" /\ (ok \/ unlocked) /\ StoreIndex(l, index, r, c)
  <2>1. CASE /\ IsCurrentSlotBootable /\ mem' = [mem EXCEPT ![l] = index]
             /\ stored' = mem' /\ Goto(r, c)
    BY <1>1, <2>1 DEF Goto, After, IsCurrentSlotBootable, Active, Entries
  <2>2. CASE Mishap
    BY <2>2 DEF Mishap
  <2>3. CASE Goto(r, c) /\ UNCHANGED <<indexes, counts>>
    BY <1>1, <2>3 DEF Goto, After, indexes
  <2> QED
    BY <1>4, <2>1, <2>2, <2>3 DEF StoreIndex
<1> QED
  BY <1>2, <1>3, <1>4 DEF VerifyHead

\* A step of the verification: the active slot stays good, and passes.
LEMMA SafeVerify ==
  ASSUME FInv, pristine, pc = "verify", pc' = "verify", slot' = slot,
         UNCHANGED device, mem' = stored',
         ~Proven(Entries[Active]) => stored' = stored,
         Proven(Entries[Active]) =>
           NotOlder(images[slot], stored') /\ AllPassed'
  PROVE  Safe'
<1>1. Safe
  BY Given
<1>2. UNCHANGED <<table, images, unlocked>>
  BY DEF device
<1>3. Active' = Active /\ Entries' = Entries /\ slot = Active
  BY <1>1, <1>2 DEF Active, Entries, Safe
<1>4. CASE Proven(Entries[Active])
  <2>1. Sound(images[Active])
    BY <1>1, <1>4 DEF Safe, Good
  <2>2. Good(Active)'
    BY <1>2, <1>3, <1>4, <2>1 DEF Good, Sound, HashesMatch, NotOlder
  <2> QED
    BY <1>1, <1>2, <1>3, <1>4, <2>2, Zenon DEF Safe
<1>5. CASE ~Proven(Entries[Active])
  <2>1. Good(OtherSlot(Active)) /\ Proven(Entries[OtherSlot(Active)])
    BY <1>1, <1>5 DEF Safe
  <2>2. Good(OtherSlot(Active))'
    BY <1>2, <1>3, <1>5, <2>1 DEF Good, Sound, HashesMatch, NotOlder
  <2> QED
    BY <1>1, <1>2, <1>3, <1>5, <2>1, <2>2, Zenon DEF Safe
<1> QED
  BY <1>4, <1>5

\* The three checks of vbmeta structs
LEMMA SafeHeads ==
  ASSUME FInv, pristine, pristine',
         VerifyMain \/ VerifyDisabled \/ VerifyChain
  PROVE  Safe'
<1> DEFINE i == images[slot]
<1>1. /\ pc = "verify" /\ pc' = "verify" /\ UNCHANGED device
  BY DEF VerifyMain, VerifyDisabled, VerifyChain, Verifying
<1>2. /\ slot \in Slots /\ i \in Image /\ TypeOK /\ Safe
      /\ slot = Active /\ mem = stored
  BY <1>1, Given, VerifyingFacts DEF Safe, FInv
<1>3. /\ stored \in [Locations -> 0 .. MaxIndex]
      /\ i.index \in Int /\ i.chainIndex \in Int
  BY <1>2 DEF TypeOK, Image
<1>4. Proven(Entries[Active]) =>
         Sound(i) /\ NotOlder(i, stored) /\ AllPassed
  BY <1>1, <1>2 DEF Safe, Good
<1>5. CASE VerifyMain
  <2>0. check = "main" /\ ~i.disabled
        /\ VerifyHead(i.key, {"oem", "user"}, 0, i.index, "done", "chain")
    BY <1>5 DEF VerifyMain, Verifying, Examined
  <2>1. /\ mem' = stored' /\ slot' = slot /\ loaded' = loaded
        /\ ~Proven(Entries[Active]) => stored' = stored
        /\ stored' \in {stored, [stored EXCEPT ![0] = i.index]}
        /\ (i.key \in {"oem", "user"} /\ i.key # "broken" /\ i.index >= mem[0]) =>
             ret' = ret /\ check' = "chain"
    BY <2>0, HeadSafe
  <2>2. ASSUME Proven(Entries[Active])
        PROVE  NotOlder(i, stored') /\ AllPassed'
    <3>1. Sound(i) /\ NotOlder(i, stored) /\ AllPassed
      BY <1>4, <2>2
    <3>2. ret' = ret /\ check' = "chain"
      BY <1>2, <2>1, <3>1 DEF Sound, NotOlder
    <3>3. NotOlder(i, stored')
      BY <1>3, <2>1, <3>1 DEF NotOlder, Locations
    <3>4. images' = images /\ slot' = slot
      BY <1>1, <2>1 DEF device
    <3>5. AllPassed'
      BY <2>0, <3>1, <3>2, <3>4 DEF AllPassed
    <3> QED
      BY <3>3, <3>5
  <2> QED
    BY <1>1, <2>1, <2>2, SafeVerify
<1>6. CASE VerifyDisabled
  <2>0. check = "main" /\ i.disabled
        /\ VerifyHead(i.key, {"oem", "user"}, 0, i.index, "done", "load")
    BY <1>6 DEF VerifyDisabled, Verifying, Examined
  <2>1. /\ mem' = stored' /\ slot' = slot /\ loaded' = loaded
        /\ ~Proven(Entries[Active]) => stored' = stored
        /\ stored' \in {stored, [stored EXCEPT ![0] = i.index]}
        /\ (i.key \in {"oem", "user"} /\ i.key # "broken" /\ i.index >= mem[0]) =>
             ret' = ret /\ check' = "load"
    BY <2>0, HeadSafe
  <2>2. ASSUME Proven(Entries[Active])
        PROVE  NotOlder(i, stored') /\ AllPassed'
    <3>1. Sound(i) /\ NotOlder(i, stored) /\ AllPassed
      BY <1>4, <2>2
    <3>2. ret' = ret /\ check' = "load"
      BY <1>2, <2>1, <3>1 DEF Sound, NotOlder
    <3>3. NotOlder(i, stored')
      BY <1>3, <2>1, <3>1 DEF NotOlder, Locations
    <3>4. images' = images /\ slot' = slot
      BY <1>1, <2>1 DEF device
    <3>5. AllPassed'
      BY <2>0, <3>1, <3>2, <3>4 DEF AllPassed
    <3> QED
      BY <3>3, <3>5
  <2> QED
    BY <1>1, <2>1, <2>2, SafeVerify
<1>7. CASE VerifyChain
  <2>0. check = "chain"
        /\ VerifyHead(i.chainKey, {"oem"}, 1, i.chainIndex, "boot", "boot")
    BY <1>7 DEF VerifyChain, Verifying, Examined
  <2>1. /\ mem' = stored' /\ slot' = slot /\ loaded' = loaded
        /\ ~Proven(Entries[Active]) => stored' = stored
        /\ stored' \in {stored, [stored EXCEPT ![1] = i.chainIndex]}
        /\ (i.chainKey \in {"oem"} /\ i.chainKey # "broken"
            /\ i.chainIndex >= mem[1]) => ret' = ret /\ check' = "boot"
    BY <2>0, HeadSafe
  <2>2. ASSUME Proven(Entries[Active])
        PROVE  NotOlder(i, stored') /\ AllPassed'
    <3>1. Sound(i) /\ NotOlder(i, stored) /\ AllPassed /\ ~i.disabled
      BY <1>4, <2>0, <2>2 DEF AllPassed
    <3>2. ret' = ret /\ check' = "boot"
      BY <1>2, <2>1, <3>1 DEF Sound, NotOlder
    <3>3. NotOlder(i, stored')
      BY <1>3, <2>1, <3>1 DEF NotOlder, Locations
    <3>4. images' = images /\ slot' = slot
      BY <1>1, <2>1 DEF device
    <3>5. AllPassed'
      BY <2>0, <3>1, <3>2, <3>4 DEF AllPassed
    <3> QED
      BY <3>3, <3>5
  <2> QED
    BY <1>1, <2>1, <2>2, SafeVerify
<1> QED
  BY <1>5, <1>6, <1>7

\* The hash descriptors: those of a sound image match.
LEMMA SafeHashes ==
  ASSUME FInv, pristine, pristine',
         VerifyHash("boot", "dtbo") \/ VerifyHash("dtbo", "done")
           \/ LoadRequestedPartitions \/ ReadFails
  PROVE  Safe'
<1>1. TypeOK /\ Safe
  BY Given
<1>2. CASE ReadFails
  BY <1>2 DEF ReadFails, Mishap
<1>3. ASSUME pc = "verify", UNCHANGED <<device, indexes, pc, slot>>,
             Proven(Entries[Active]) => AllPassed'
      PROVE  Safe'
  <2>1. pc' = "verify" /\ stored' = stored /\ mem' = stored'
    BY <1>1, <1>3 DEF indexes, Safe
  <2>2. Proven(Entries[Active]) => NotOlder(images[slot], stored')
    BY <1>1, <1>3, <2>1 DEF Safe, Good
  <2> QED
    BY <1>3, <2>1, <2>2, SafeVerify
<1>4. (pc = "verify" /\ Proven(Entries[Active])) =>
         AllPassed /\ Sound(images[slot])
  BY <1>1 DEF Safe, Good
<1>5. CASE VerifyHash("boot", "dtbo")
  <2>1. /\ pc = "verify" /\ check = "boot"
        /\ UNCHANGED <<device, indexes, pc, slot>> /\ images' = images
        /\ loaded' = IF images[slot].boot = "absent" THEN loaded
                                                    ELSE loaded \cup {"boot"}
        /\ ret' = After(IF images[slot].boot = "bad" THEN "error" ELSE "ok")
        /\ check' = IF images[slot].boot = "bad" /\ ~unlocked THEN "done" ELSE "dtbo"
    BY <1>5 DEF VerifyHash, Verifying, Examined, device
  <2>2. ASSUME Proven(Entries[Active]) PROVE AllPassed'
    <3>1. AllPassed /\ Sound(images[slot])
      BY <1>4, <2>1, <2>2
    <3>2. ret = "ok" /\ ~images[slot].disabled /\ images[slot].boot = "good"
      BY <2>1, <3>1 DEF AllPassed, Sound, HashesMatch
    <3>3. ret' = "ok" /\ check' = "dtbo" /\ "boot" \in loaded'
      BY <2>1, <3>2 DEF After
    <3>4. images' = images /\ slot' = slot
      BY <2>1
    <3> QED
      BY <3>2, <3>3, <3>4 DEF AllPassed
  <2> QED
    BY <1>3, <2>1, <2>2
<1>6. CASE VerifyHash("dtbo", "done")
  <2>1. /\ pc = "verify" /\ check = "dtbo"
        /\ UNCHANGED <<device, indexes, pc, slot>> /\ images' = images
        /\ loaded' = IF images[slot].dtbo = "absent" THEN loaded
                                                    ELSE loaded \cup {"dtbo"}
        /\ ret' = After(IF images[slot].dtbo = "bad" THEN "error" ELSE "ok")
        /\ check' = IF images[slot].dtbo = "bad" /\ ~unlocked THEN "done" ELSE "done"
    BY <1>6 DEF VerifyHash, Verifying, Examined, device
  <2>2. ASSUME Proven(Entries[Active]) PROVE AllPassed'
    <3>1. AllPassed /\ Sound(images[slot])
      BY <1>4, <2>1, <2>2
    <3>2. /\ ret = "ok" /\ "boot" \in loaded /\ ~images[slot].disabled
          /\ images[slot].dtbo = "good"
      BY <2>1, <3>1 DEF AllPassed, Sound, HashesMatch
    <3>3. ret' = "ok" /\ check' = "done" /\ loaded' = loaded \cup {"dtbo"}
      BY <2>1, <3>2 DEF After
    <3>4. loaded' = Requested
      BY <1>1, <3>2, <3>3 DEF TypeOK, Requested
    <3> QED
      BY <3>3, <3>4 DEF AllPassed
  <2> QED
    BY <1>3, <2>1, <2>2
<1>7. CASE LoadRequestedPartitions
  <2>1. /\ pc = "verify" /\ check = "load"
        /\ UNCHANGED <<device, indexes, pc, slot, ret>>
        /\ loaded' = Requested /\ check' = "done"
    BY <1>7 DEF LoadRequestedPartitions, Verifying
  <2>2. ASSUME Proven(Entries[Active]) PROVE AllPassed'
    BY <1>4, <2>1, <2>2 DEF AllPassed
  <2> QED
    BY <1>3, <2>1, <2>2
<1> QED
  BY <1>2, <1>5, <1>6, <1>7

\* The verdict: a proven slot is accepted, so only a slot on trial is marked.
LEMMA SafeVerdict ==
  ASSUME FInv, pristine, pristine', HandOver \/ AuthFails \/ KeyMasterFails
  PROVE  Safe'
<1>1. Safe
  BY Given
<1>2. CASE HandOver
  <2>1. /\ pc = "verify" /\ pc' = "os"
        /\ UNCHANGED <<table, images, unlocked, stored, mem, slot>>
    BY <1>2 DEF HandOver, Verifying, device, indexes, verdict
  <2>2. Active' = Active /\ Entries' = Entries
    BY <2>1 DEF Active, Entries
  <2>3. \A s \in {Active, OtherSlot(Active)} : Good(s)' <=> Good(s)
    BY <2>1, <2>2 DEF Good, Sound, HashesMatch, NotOlder
  <2> QED
    BY <1>1, <2>1, <2>2, <2>3, Zenon DEF Safe
<1>3. CASE AuthFails
  <2>1. pc = "verify" /\ check = "done" /\ ~Accepted /\ HandleActiveSlotUnbootable
    BY <1>3 DEF AuthFails, Verifying
  <2>2. ~AllPassed
    BY <2>1 DEF Accepted, AllPassed
  <2>3. ~Proven(Entries[Active])
    BY <1>1, <2>1, <2>2 DEF Safe
  <2> QED
    BY <2>1, <2>3, SafeUnbootable
<1>4. CASE KeyMasterFails
  BY <1>4 DEF KeyMasterFails, Mishap
<1> QED
  BY <1>2, <1>3, <1>4

-----------------------------------------------------------------------------
(* The system                                                              *)

\* OsMarkSuccessful proves the slot that runs, and what runs is good.
LEMMA SafeMark ==
  ASSUME FInv, pristine, OsMarkSuccessful
  PROVE  Safe'
<1> DEFINE e == [Entries[slot] EXCEPT !.suc = TRUE]
           o == OtherSlot(Active)
<1>1. /\ IInv /\ TypeOK /\ Safe /\ Active \in Slots /\ o \in Slots
      /\ o # Active /\ OtherSlot(o) = Active
  BY Given
<1>2. /\ pc = "os" /\ pc' = "os"
      /\ UNCHANGED <<images, unlocked, stored, mem, slot>>
      /\ table' = UpdBoot(table, slot, e)
  BY DEF OsMarkSuccessful, indexes, verdict, Entries
<1>3. slot \in Slots
  BY <1>1, <1>2 DEF IInv, SlotKnown
<1>4. Entries[slot] \in Entry
  BY <1>1, <1>3, BootEntries DEF Entries, TypeOK
<1>5. /\ e \in Entry /\ e.act = Entries[slot].act /\ e.pri = Entries[slot].pri
      /\ e.suc /\ e.unb = Entries[slot].unb
  BY <1>4, Zenon DEF Entry
<1> HIDE DEF e
<1>6. ActiveOf(table') = Active
  BY <1>1, <1>2, <1>3, <1>5, SameActive DEF Entries, TypeOK, Active
<1>7. Active' = Active
  BY <1>6 DEF Active
<1>8. Entries'[slot] = e /\ \A x \in Slots : x # slot => Entries'[x] = Entries[x]
  BY <1>1, <1>2, <1>3, <1>5, UpdBootEntries DEF Entries, TypeOK
<1>9. \A x \in {Active, o} : Good(x)' <=> Good(x)
  BY <1>2 DEF Good, Sound, HashesMatch, NotOlder
<1>10. CASE slot = Active
  <2>1. Good(slot)
    BY <1>1, <1>2 DEF IInv, Running, Safe, Good
  <2>2. Proven(Entries[Active]) => Proven(Entries'[Active])
    BY <1>5, <1>8, <1>10 DEF Proven
  <2>3. ~Proven(Entries'[Active]) => Proven(Entries'[o]) /\ Good(o)
    BY <1>1, <1>8, <1>10, <2>2 DEF Safe
  <2> QED
    BY <1>1, <1>2, <1>7, <1>9, <1>10, <2>1, <2>3, Zenon DEF Safe
<1>11. CASE slot # Active
  <2>1. slot = o /\ ~Proven(Entries[Active])
    BY <1>1, <1>2, <1>3, <1>11 DEF Safe, Slots
  <2>2. Proven(Entries[o]) /\ Good(o)
    BY <1>1, <2>1 DEF Safe
  <2>3. Proven(Entries'[o])
    BY <1>5, <1>8, <2>1, <2>2 DEF Proven
  <2>4. Entries'[Active] = Entries[Active]
    BY <1>1, <1>8, <1>11
  <2>5. ~Proven(Entries'[Active])
    BY <2>1, <2>4
  <2> QED
    BY <1>1, <1>2, <1>7, <1>9, <2>2, <2>3, <2>5, Zenon DEF Safe
<1> QED
  BY <1>10, <1>11

\* An update leaves the slot that installs it, a proven one, alone.
LEMMA SafeUpdate ==
  ASSUME FInv, pristine, NEW i \in Images, OsUpdate(i)
  PROVE  Safe'
<1> DEFINE n == OtherSlot(slot)
<1>1. IInv /\ TypeOK /\ Safe
  BY Given
<1>2. /\ pc = "os" /\ pc' = "os" /\ Proven(Entries[slot])
      /\ UNCHANGED <<unlocked, stored, mem, slot>>
      /\ images' = [images EXCEPT ![n] = i]
      /\ table' = WithActive(table, n, TRUE)
  BY DEF OsUpdate, Install, indexes, verdict, Entries
<1>3. /\ slot \in Slots /\ n \in Slots /\ n # slot /\ OtherSlot(n) = slot
  BY <1>1, <1>2 DEF IInv, SlotKnown, Slots, OtherSlot
<1>4. Good(slot)
  BY <1>1, <1>2 DEF IInv, Running, Safe, Good
<1>5. /\ ActiveOf(table') = n /\ ~Proven(table'["boot"][n])
      /\ Proven(table'["boot"][slot])
  <2>1. Proven(table["boot"][OtherSlot(n)])
    BY <1>2, <1>3 DEF Entries
  <2> QED
    BY <1>1, <1>2, <1>3, <2>1, SetActive DEF TypeOK
<1>6. images'[slot] = images[slot]
  BY <1>1, <1>2, <1>3 DEF TypeOK
<1>7. Sound(images'[slot]) /\ NotOlder(images'[slot], stored')
  BY <1>2, <1>4, <1>6 DEF Good
<1>8. Active' = n /\ ~Proven(Entries'[n]) /\ Proven(Entries'[slot])
  BY <1>5 DEF Active, Entries
<1>9. OtherSlot(Active') = slot
  BY <1>3, <1>8
<1>10. ~Proven(Entries[Active])'
  BY <1>8 DEF Proven
<1>11. Proven(Entries[OtherSlot(Active)])'
  BY <1>8, <1>9 DEF Proven
<1>12. Good(OtherSlot(Active))'
  BY <1>7, <1>9 DEF Good
<1> QED
  BY <1>1, <1>2, <1>10, <1>11, <1>12, Zenon DEF Safe

\* What happens away from the checks, the table unchanged; an owner who
\* unlocks the device, or a call that fails, ends the promise.
LEMMA SafeOutside ==
  ASSUME FInv, pristine, pristine',
         \/ PowerOn \/ OsReboots \/ EnterFastboot \/ CmdFlashingLock \/ CmdReboot
         \/ PowerCut
         \/ \E s \in Slots : CmdSetActive(s) \/ (\E i \in Images : CmdFlash(s, i))
  PROVE  Safe'
<1>1. mem = stored /\ ~unlocked
  BY Given DEF Safe
<1>2. CASE PowerOn \/ OsReboots \/ EnterFastboot \/ CmdReboot \/ PowerCut
  <2>1. UNCHANGED <<table, images, unlocked, stored>>
    BY <1>2, Zenon DEF PowerOn, OsReboots, EnterFastboot, CmdReboot, PowerCut,
                       device, indexes
  <2>2. mem' = stored
    BY <1>1, <1>2, Zenon DEF PowerOn, OsReboots, EnterFastboot, CmdReboot,
                             PowerCut, indexes
  <2>3. pc' \in {"off", "find", "fastboot"}
    BY <1>2, Zenon DEF PowerOn, OsReboots, EnterFastboot, CmdReboot, PowerCut
  <2> QED
    BY <2>1, <2>2, <2>3, SafeElsewhere
<1>3. CASE CmdFlashingLock
  BY <1>3 DEF CmdFlashingLock
<1>4. CASE \E s \in Slots : CmdSetActive(s) \/ (\E i \in Images : CmdFlash(s, i))
  BY <1>1, <1>4, Zenon DEF CmdSetActive, CmdFlash
<1> QED
  BY <1>2, <1>3, <1>4

\* A promise that has ended stays so.
LEMMA PristineBefore ==
  ASSUME FInv, Next, pristine'
  PROVE  pristine
<1>1. pristine' = pristine \/ pristine' = FALSE
  <2>1. CASE Loader
    BY <2>1, Zenon DEF Loader, PowerOn, FindBootableSlot, VerifyMain, VerifyDisabled,
      VerifyChain, VerifyHead, StoreIndex, VerifyHash, LoadRequestedPartitions,
      ReadFails, HandOver, AuthFails, KeyMasterFails, Mishap, counts
  <2>2. CASE Others
    BY <2>2, Zenon DEF Others, OsMarkSuccessful, OsReboots, OsUpdate, EnterFastboot,
      CmdFlashingLock, CmdReboot, CmdSetActive, CmdFlash, PowerCut, counts
  <2> QED
    BY <2>1, <2>2 DEF Next
<1> QED
  BY <1>1

LEMMA NextFInv ==
  ASSUME FInv, [Next]_vars
  PROVE  FInv'
<1>1. IInv'
  BY NextInv DEF FInv
<1>2. ASSUME Next, pristine' PROVE Safe'
  <2>1. pristine
    BY <1>2, PristineBefore
  <2>2. ASSUME NEW i \in Images, OsUpdate(i) PROVE Safe'
    BY <2>1, <2>2, SafeUpdate
  <2>3. \/ PowerOn \/ FindBootableSlot \/ VerifyMain \/ VerifyDisabled \/ VerifyChain
        \/ VerifyHash("boot", "dtbo") \/ VerifyHash("dtbo", "done")
        \/ LoadRequestedPartitions \/ ReadFails
        \/ HandOver \/ AuthFails \/ KeyMasterFails
        \/ OsMarkSuccessful \/ OsReboots \/ (\E i \in Images : OsUpdate(i))
        \/ EnterFastboot \/ CmdFlashingLock \/ CmdReboot \/ PowerCut
        \/ \E s \in Slots : CmdSetActive(s) \/ (\E i \in Images : CmdFlash(s, i))
    BY <1>2, Zenon DEF Next, Loader, Others
  <2> QED
    BY <1>2, <2>1, <2>2, <2>3, SafeFind, SafeHeads, SafeHashes, SafeVerdict,
       SafeMark, SafeOutside, Zenon
<1>3. CASE UNCHANGED vars
  <2>1. Safe => Safe'
    BY <1>3 DEF vars, Safe, AllPassed, Good, Active, Entries, Sound, HashesMatch,
                NotOlder
  <2>2. pristine' = pristine
    BY <1>3 DEF vars
  <2> QED
    BY <1>1, <2>1, <2>2 DEF FInv
<1> QED
  BY <1>1, <1>2, <1>3 DEF FInv

-----------------------------------------------------------------------------

\* While nothing fails and the device stays locked, one slot was successful
\* and has images that verify and are new enough: the update that is on
\* trial never takes away what the device falls back to.
THEOREM FallbackVerified == Spec => []FallbackVerifies
<1>1. FInv /\ [Next]_vars => FInv'
  BY NextFInv
<1> QED
  BY <1>1, FInvImpliesFallback, InitFInv, PTL DEF Spec
=============================================================================
