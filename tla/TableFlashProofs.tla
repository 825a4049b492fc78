--------------------------- MODULE TableFlashProofs ---------------------------
(***************************************************************************)
(* The safety properties of TableFlash for all layouts and images and any  *)
(* number of flashes, failing requests and power cuts.                     *)
(*                                                                         *)
(* The invariants are about the two copies of the table: how far WriteGpt  *)
(* has come (Written), that the pieces a boot could put together belong to *)
(* one layout (OneLayout), that some copy can be read (Legible), and that  *)
(* RAM, the variables of getvar and the boot unit follow (Current, Known,  *)
(* LunSet).                                                                *)
(***************************************************************************)
EXTENDS TableFlash, TLAPS

USE DEF Mishap

-----------------------------------------------------------------------------
(* Types                                                                   *)

Labels == {"off", "ready", "refresh", "active", "populate", "store", "setActive",
           "setVars", "attrVars", "spin"} \cup Writing

Headers == [sig : BOOLEAN, my : BOOLEAN, far : BOOLEAN, crc : Partitions]

Disks == [mbr : BOOLEAN, priHdr : Headers, priEnt : Partitions,
          bakHdr : Headers, bakEnt : Partitions, farEnt : Partitions]

Attributes == [suc : BOOLEAN, unb : BOOLEAN, ret : 0 .. MaxRetry]

Variables == [pop : BOOLEAN, info : BOOLEAN, cur : Slots \cup {NoSlot},
              att : [Slots -> Attributes]]

TypeInv ==
  /\ ufs \in BOOLEAN /\ disk \in Disks /\ ram \in Partitions
  /\ bootLun \in {0, 1, 2} /\ lun \in {NoLun, Home, BadLun}
  /\ fbvars \in Variables
  /\ pc \in Labels /\ at \in {0, 1} /\ left \in {1, 2}
  /\ ret \in {"ready", "populate", "setActive", "setVars", "attrVars"}
  /\ img.home \in BOOLEAN /\ img.parts \in Partitions
  /\ slot \in Slots
  /\ open \in BOOLEAN /\ failed \in BOOLEAN
  /\ faults \in Nat /\ cuts \in Nat

\* The remaining facts about where the loader is: a copy is looked for from
\* the primary one on, attributes are changed only where there are two slots,
\* a table is written only where a unit answers.
Placed ==
  /\ pc # "store" => at = 0
  /\ pc \in {"active", "populate", "store", "setActive", "setVars", "attrVars", "spin"}
       => MultiSlot(ram)
  /\ pc \in Writing => Found(lun)
  /\ pc \in Writing \cup {"refresh"} =>
       img.parts.name \in ImgNames /\ reply = "none" /\ forced
  /\ faults = 0 => ~failed

TypeOK == TypeInv /\ Placed

\* The labels one by one
LEMMA LabelKinds ==
  /\ Writing \subseteq Labels
  /\ \A l \in Writing : After(l) \in (Writing \cup {"refresh"}) \ {"erase"}
BY DEF Writing, Labels, After

LEMMA NamesAre ==
  /\ AbNames \subseteq BootNames /\ BootNames \subseteq ImgNames /\ ImgNames \subseteq Names
  /\ "none" \in Names \ ImgNames /\ "mixed" \in Names \ ImgNames
  /\ "torn" \in Names \ ImgNames
BY DEF AbNames, BootNames, ImgNames, Names

\* Partitions without a table in use
LEMMA PartsType ==
  ASSUME NEW n \in Names
  PROVE  Parts(n) \in Partitions /\ Parts(n).name = n
<1>1. [type |-> "idle", pri |-> 0, act |-> FALSE, ret |-> 0, suc |-> FALSE,
       unb |-> FALSE] \in Entry
  BY TableAssumption DEF Entry, MaxPriority
<1>2. ZeroTable \in Table
  BY <1>1 DEF ZeroTable, Table
<1> QED
  BY <1>2 DEF Parts, Partitions

LEMMA NoneType ==
  /\ None \in Partitions /\ None.name = "none"
  /\ NoHeader \in Headers /\ ~NoHeader.sig
  /\ Parts("torn") \in Partitions /\ Parts("torn").name = "torn"
  /\ Parts("mixed") \in Partitions /\ Parts("mixed").name = "mixed"
<1>1. None \in Partitions /\ None.name = "none"
  BY PartsType, NamesAre DEF None
<1> QED
  BY <1>1, PartsType, NamesAre DEF NoHeader, Headers

LEMMA HeaderType ==
  ASSUME NEW m \in BOOLEAN, NEW f \in BOOLEAN, NEW p \in Partitions
  PROVE  /\ Header(m, f, p) \in Headers /\ Header(m, f, p).sig
         /\ Header(m, f, p).my = m /\ Header(m, f, p).far = f
         /\ Header(m, f, p).crc = p
BY DEF Header, Headers

LEMMA DiskType ==
  ASSUME NEW d \in Disks
  PROVE  /\ d.mbr \in BOOLEAN /\ d.priHdr \in Headers /\ d.bakHdr \in Headers
         /\ d.priEnt \in Partitions /\ d.bakEnt \in Partitions
         /\ d.farEnt \in Partitions /\ BakEntries(d) \in Partitions
BY DEF Disks, BakEntries

LEMMA PresentedType ==
  ASSUME NEW d \in Disks
  PROVE  Presented(d) \in Partitions
BY DiskType, NoneType DEF Presented

-----------------------------------------------------------------------------
(* What each change leaves on the storage                                  *)

\* The entries of a backup copy
LEMMA PutBakDisk ==
  ASSUME NEW d \in Disks, NEW h \in Headers, NEW e \in Partitions
  PROVE  LET r == PutBak(d, h, e) IN
         /\ r \in Disks
         /\ r.mbr = d.mbr /\ r.priHdr = d.priHdr /\ r.priEnt = d.priEnt
         /\ r.bakHdr = h /\ BakEntries(r) = e
         /\ h.far => r.farEnt = e /\ r.bakEnt = d.bakEnt
         /\ ~h.far => r.bakEnt = e /\ r.farEnt = d.farEnt
BY DEF PutBak, Disks, BakEntries, Headers

\* What PartitionRestoreGptTable makes of a unit, in its three cases
LEMMA RestoredDisk ==
  ASSUME NEW d \in Disks
  PROVE  LET r == Restored(d) IN
         /\ r \in Disks /\ r.mbr = d.mbr /\ Presented(r) = Presented(d)
         /\ \/ /\ d.mbr /\ PriValid(d) /\ ~BakValid(d)
               /\ r = PutBak(d, d.priHdr, d.priEnt)
               /\ r.priHdr = d.priHdr /\ r.priEnt = d.priEnt
               /\ PriValid(r) /\ BakValid(r)
            \/ /\ d.mbr /\ ~PriValid(d) /\ BakValid(d)
               /\ r.priHdr = d.bakHdr /\ r.priEnt = BakEntries(d)
               /\ r.bakHdr = d.bakHdr /\ r.bakEnt = d.bakEnt /\ r.farEnt = d.farEnt
               /\ PriValid(r) /\ BakValid(r)
            \/ /\ r = d
               /\ ~d.mbr \/ (PriValid(d) /\ BakValid(d)) \/ (~PriValid(d) /\ ~BakValid(d))
<1> DEFINE r == Restored(d)
<1>0. d.mbr \in BOOLEAN /\ d.priHdr \in Headers /\ d.bakHdr \in Headers
      /\ d.priEnt \in Partitions /\ BakEntries(d) \in Partitions
  BY DiskType
<1>1. CASE d.mbr /\ PriValid(d) /\ ~BakValid(d)
  <2>1. r = PutBak(d, d.priHdr, d.priEnt)
    BY <1>1 DEF Restored
  <2>2. /\ r \in Disks /\ r.mbr = d.mbr /\ r.priHdr = d.priHdr
        /\ r.priEnt = d.priEnt /\ r.bakHdr = d.priHdr /\ BakEntries(r) = d.priEnt
    BY <1>0, <2>1, PutBakDisk
  <2>3. PriValid(r) /\ BakValid(r)
    BY <1>1, <2>2 DEF PriValid, BakValid
  <2>4. Presented(r) = Presented(d)
    BY <1>1, <2>2, <2>3 DEF Presented
  <2> QED
    BY <1>1, <2>1, <2>2, <2>3, <2>4
<1>2. CASE d.mbr /\ ~PriValid(d) /\ BakValid(d)
  <2>1. r = [d EXCEPT !.priHdr = d.bakHdr, !.priEnt = BakEntries(d)]
    BY <1>2 DEF Restored
  <2>2. /\ r \in Disks /\ r.mbr = d.mbr /\ r.priHdr = d.bakHdr
        /\ r.priEnt = BakEntries(d) /\ r.bakHdr = d.bakHdr
        /\ r.bakEnt = d.bakEnt /\ r.farEnt = d.farEnt
    BY <1>0, <2>1 DEF Disks
  <2>3. BakEntries(r) = BakEntries(d)
    BY <2>2 DEF BakEntries
  <2>4. PriValid(r) /\ BakValid(r)
    BY <1>2, <2>2, <2>3 DEF PriValid, BakValid
  <2>5. Presented(r) = Presented(d)
    BY <1>2, <2>2, <2>4 DEF Presented
  <2> QED
    BY <1>2, <2>2, <2>4, <2>5
<1>3. CASE ~d.mbr \/ (PriValid(d) /\ BakValid(d)) \/ (~PriValid(d) /\ ~BakValid(d))
  BY <1>3 DEF Restored
<1> QED
  BY <1>1, <1>2, <1>3

\* What is left of EraseBlocks
LEMMA PartlyErasedDisk ==
  ASSUME NEW d \in Disks, NEW e \in PartlyErased(d)
  PROVE  /\ e \in Disks /\ (e.mbr => d.mbr)
         /\ e.priHdr \in {d.priHdr, NoHeader} /\ e.bakHdr \in {d.bakHdr, NoHeader}
         /\ e.priEnt = d.priEnt /\ e.bakEnt = d.bakEnt /\ e.farEnt = d.farEnt
<1>1. PICK m \in BOOLEAN, p \in BOOLEAN, b \in BOOLEAN : e = Spared(d, m, p, b)
  BY DEF PartlyErased
<1>2. /\ e.mbr = (d.mbr /\ m) /\ e.priHdr = IF p THEN d.priHdr ELSE NoHeader
      /\ e.bakHdr = IF b THEN d.bakHdr ELSE NoHeader
      /\ e.priEnt = d.priEnt /\ e.bakEnt = d.bakEnt /\ e.farEnt = d.farEnt
  BY <1>1 DEF Disks, Spared
<1>3. (d.mbr /\ m) \in BOOLEAN
  OBVIOUS
<1>4. e \in Disks
  BY <1>1, <1>3, NoneType DEF Disks, Spared
<1> QED
  BY <1>2, <1>4

\* A request of WriteGpt that succeeds
LEMMA PieceDisk ==
  ASSUME TypeInv, pc \in Writing
  PROVE  LET r == Piece(disk) IN
         /\ r \in Disks
         /\ pc = "erase" => r = Erased
         /\ pc = "mbr" => /\ r.mbr /\ r.priHdr = disk.priHdr
                          /\ r.bakHdr = disk.bakHdr /\ r.priEnt = disk.priEnt
                          /\ r.bakEnt = disk.bakEnt /\ r.farEnt = disk.farEnt
         /\ pc = "priHdr" => /\ r.mbr = disk.mbr /\ r.priHdr = PatchedPri
                             /\ r.bakHdr = disk.bakHdr /\ r.priEnt = disk.priEnt
                             /\ r.bakEnt = disk.bakEnt /\ r.farEnt = disk.farEnt
         /\ pc = "bakHdr" => /\ r.mbr = disk.mbr /\ r.priHdr = disk.priHdr
                             /\ r.bakHdr = PatchedBak /\ r.priEnt = disk.priEnt
                             /\ r.bakEnt = disk.bakEnt /\ r.farEnt = disk.farEnt
         /\ pc = "priEnt" => /\ r.mbr = disk.mbr /\ r.priHdr = disk.priHdr
                             /\ r.bakHdr = disk.bakHdr /\ r.priEnt = img.parts
                             /\ r.bakEnt = disk.bakEnt /\ r.farEnt = disk.farEnt
         /\ pc = "bakEnt" => r = PutBak(disk, disk.bakHdr, img.parts)
<1>1. disk \in Disks /\ img.parts \in Partitions /\ disk.bakHdr \in Headers
  BY DiskType DEF TypeInv
<1>2. PatchedPri \in Headers /\ PatchedBak \in Headers
  BY HeaderType DEF TypeInv, PatchedPri, PatchedBak
<1>3. CASE pc = "erase"
  <2>1. Erased \in Disks
    BY NoneType DEF Erased, Disks
  <2> QED
    BY <1>3, <2>1 DEF Piece
<1>4. CASE pc = "mbr"
  BY <1>1, <1>4 DEF Piece, Disks
<1>5. CASE pc = "priHdr"
  BY <1>1, <1>2, <1>5 DEF Piece, Disks
<1>6. CASE pc = "bakHdr"
  BY <1>1, <1>2, <1>6 DEF Piece, Disks
<1>7. CASE pc = "priEnt"
  BY <1>1, <1>7 DEF Piece, Disks
<1>8. CASE pc = "bakEnt"
  BY <1>1, <1>8, PutBakDisk DEF Piece
<1> QED
  BY <1>3, <1>4, <1>5, <1>6, <1>7, <1>8 DEF Writing

\* ... and what is left of one that does not
LEMMA PartialDisk ==
  ASSUME TypeInv, pc \in Writing, NEW e \in Partial(disk)
  PROVE  /\ e \in Disks
         /\ pc = "erase" => e \in PartlyErased(disk)
         /\ pc \in {"mbr", "priHdr", "bakHdr"} => e = disk
         /\ pc = "priEnt" => \/ e = disk
                             \/ /\ e.mbr = disk.mbr /\ e.priHdr = disk.priHdr
                                /\ e.bakHdr = disk.bakHdr /\ e.priEnt = Parts("torn")
                                /\ e.bakEnt = disk.bakEnt /\ e.farEnt = disk.farEnt
         /\ pc = "bakEnt" => /\ e.mbr = disk.mbr /\ e.priHdr = disk.priHdr
                             /\ e.bakHdr = disk.bakHdr /\ e.priEnt = disk.priEnt
                             /\ e.farEnt \in {disk.farEnt, Parts("torn")}
                             /\ e.bakEnt \in {disk.bakEnt, Parts("torn")}
<1>1. disk \in Disks /\ disk.bakHdr \in Headers
  BY DiskType DEF TypeInv
<1>2. CASE pc = "erase"
  BY <1>1, <1>2, PartlyErasedDisk DEF Partial
<1>3. CASE pc \in {"mbr", "priHdr", "bakHdr"}
  BY <1>1, <1>3 DEF Partial
<1>4. CASE pc = "priEnt"
  BY <1>1, <1>4, NoneType DEF Partial, Disks
<1>5. CASE pc = "bakEnt"
  <2>1. e = disk \/ e = PutBak(disk, disk.bakHdr, Parts("torn"))
    BY <1>5 DEF Partial
  <2> DEFINE torn == Parts("torn")
  <2>2. torn \in Partitions
    BY NoneType
  <2> HIDE DEF torn
  <2>3. CASE e = PutBak(disk, disk.bakHdr, torn)
    <3>1. disk.bakHdr.far \in BOOLEAN
      BY <1>1 DEF Headers
    <3> QED
      BY <1>1, <1>5, <2>2, <2>3, <3>1, PutBakDisk DEF torn
  <2>4. CASE e = disk
    BY <1>1, <1>5, <2>4
  <2> QED
    BY <2>1, <2>3, <2>4 DEF torn
<1> QED
  BY <1>2, <1>3, <1>4, <1>5 DEF Writing

\* Entries with the attributes of the table in RAM
LEMMA OverType ==
  ASSUME NEW e \in Partitions, NEW r \in Partitions
  PROVE  /\ Over(e, r) \in {e, r, Parts("mixed")} /\ Over(e, r) \in Partitions
         /\ r.name = e.name /\ r.name # "none" => Over(e, r) = r
         /\ Over(e, r) = e \/ Over(e, r).name # "none"
BY NoneType DEF Over

\* A copy that UpdatePartitionAttributes writes
LEMMA StoredDisk ==
  ASSUME TypeInv
  PROVE  LET r == Stored(disk)
             pri == Over(disk.priEnt, ram)
             bak == Over(disk.bakEnt, ram)
         IN
         /\ r \in Disks /\ r.mbr = disk.mbr /\ r.farEnt = disk.farEnt
         /\ at = 0 =>
              /\ r.bakHdr = disk.bakHdr /\ r.bakEnt = disk.bakEnt
              /\ r.priEnt = pri
              /\ r.priHdr.sig = disk.priHdr.sig /\ r.priHdr.my = disk.priHdr.my
              /\ r.priHdr.far = disk.priHdr.far
              /\ \/ r = disk /\ pri = disk.priEnt
                 \/ r.priHdr.crc = pri /\ pri # disk.priEnt
         /\ at = 1 =>
              /\ r.priHdr = disk.priHdr /\ r.priEnt = disk.priEnt
              /\ r.bakEnt = bak
              /\ r.bakHdr.sig = disk.bakHdr.sig /\ r.bakHdr.my = disk.bakHdr.my
              /\ r.bakHdr.far = disk.bakHdr.far
              /\ \/ r = disk /\ bak = disk.bakEnt
                 \/ r.bakHdr.crc = bak /\ bak # disk.bakEnt
<1> DEFINE pri == Over(disk.priEnt, ram)
           bak == Over(disk.bakEnt, ram)
<1>1. /\ disk \in Disks /\ disk.priHdr \in Headers /\ disk.bakHdr \in Headers
      /\ pri \in Partitions /\ bak \in Partitions /\ at \in {0, 1}
  BY DiskType, OverType DEF TypeInv
<1>2. CASE at = 0
  <2>1. Stored(disk) = IF pri = disk.priEnt THEN disk
                       ELSE [disk EXCEPT !.priEnt = pri, !.priHdr.crc = pri]
    BY <1>2, Zenon DEF Stored
  <2> HIDE DEF pri, bak
  <2>2. CASE pri = disk.priEnt
    BY <1>1, <1>2, <2>1, <2>2 DEF pri
  <2>3. CASE pri # disk.priEnt
    <3>1. Stored(disk) = [disk EXCEPT !.priEnt = pri, !.priHdr.crc = pri]
      BY <2>1, <2>3
    <3> DEFINE h == [disk.priHdr EXCEPT !.crc = pri]
    <3>2. /\ h \in Headers /\ h.crc = pri /\ h.sig = disk.priHdr.sig
          /\ h.my = disk.priHdr.my /\ h.far = disk.priHdr.far
      BY <1>1 DEF Headers
    <3> HIDE DEF h
    <3>3. [disk EXCEPT !.priEnt = pri, !.priHdr.crc = pri]
            = [disk EXCEPT !.priEnt = pri, !.priHdr = h]
      BY <1>1, Zenon DEF h, Disks
    <3>4. LET r == [disk EXCEPT !.priEnt = pri, !.priHdr = h] IN
          /\ r \in Disks /\ r.mbr = disk.mbr /\ r.farEnt = disk.farEnt
          /\ r.priHdr = h /\ r.priEnt = pri
          /\ r.bakHdr = disk.bakHdr /\ r.bakEnt = disk.bakEnt
      BY <1>1, <3>2 DEF Disks
    <3>5. Stored(disk) = [disk EXCEPT !.priEnt = pri, !.priHdr = h]
      BY <3>1, <3>3, Zenon
    <3> QED
      BY <1>2, <2>3, <3>2, <3>4, <3>5 DEF pri
  <2> QED
    BY <2>2, <2>3
<1>3. CASE at = 1
  <2>1. Stored(disk) = IF bak = disk.bakEnt THEN disk
                       ELSE [disk EXCEPT !.bakEnt = bak, !.bakHdr.crc = bak]
    BY <1>3 DEF Stored
  <2> HIDE DEF pri, bak
  <2>2. CASE bak = disk.bakEnt
    BY <1>1, <1>3, <2>1, <2>2 DEF bak
  <2>3. CASE bak # disk.bakEnt
    <3>1. Stored(disk) = [disk EXCEPT !.bakEnt = bak, !.bakHdr.crc = bak]
      BY <2>1, <2>3
    <3> DEFINE h == [disk.bakHdr EXCEPT !.crc = bak]
    <3>2. /\ h \in Headers /\ h.crc = bak /\ h.sig = disk.bakHdr.sig
          /\ h.my = disk.bakHdr.my /\ h.far = disk.bakHdr.far
      BY <1>1 DEF Headers
    <3> HIDE DEF h
    <3>3. [disk EXCEPT !.bakEnt = bak, !.bakHdr.crc = bak]
            = [disk EXCEPT !.bakEnt = bak, !.bakHdr = h]
      BY <1>1, Zenon DEF h, Disks
    <3>4. LET r == [disk EXCEPT !.bakEnt = bak, !.bakHdr = h] IN
          /\ r \in Disks /\ r.mbr = disk.mbr /\ r.farEnt = disk.farEnt
          /\ r.bakHdr = h /\ r.bakEnt = bak
          /\ r.priHdr = disk.priHdr /\ r.priEnt = disk.priEnt
      BY <1>1, <3>2 DEF Disks
    <3>5. Stored(disk) = [disk EXCEPT !.bakEnt = bak, !.bakHdr = h]
      BY <3>1, <3>3, Zenon
    <3> QED
      BY <1>3, <2>3, <3>2, <3>4, <3>5 DEF bak
  <2> QED
    BY <2>2, <2>3
<1> QED
  BY <1>1, <1>2, <1>3

\* ... one with a wrong CRC
LEMMA TornDisk ==
  ASSUME NEW d \in Disks, at \in {0, 1}
  PROVE  LET r == TornCopy(d) IN
         /\ r \in Disks /\ r.mbr = d.mbr /\ r.priEnt = d.priEnt
         /\ r.bakEnt = d.bakEnt /\ r.farEnt = d.farEnt
         /\ at = 0 => /\ r.bakHdr = d.bakHdr /\ r.priHdr.crc = Parts("torn")
                      /\ r.priHdr.sig = d.priHdr.sig /\ r.priHdr.my = d.priHdr.my
                      /\ r.priHdr.far = d.priHdr.far
         /\ at = 1 => /\ r.priHdr = d.priHdr /\ r.bakHdr.crc = Parts("torn")
                      /\ r.bakHdr.sig = d.bakHdr.sig /\ r.bakHdr.my = d.bakHdr.my
                      /\ r.bakHdr.far = d.bakHdr.far
<1>1. /\ d \in Disks /\ d.priHdr \in Headers /\ d.bakHdr \in Headers
      /\ at \in {0, 1} /\ Parts("torn") \in Partitions
  BY DiskType, NoneType
<1>2. CASE at = 0
  BY <1>1, <1>2 DEF TornCopy, Disks, Headers
<1>3. CASE at = 1
  BY <1>1, <1>3 DEF TornCopy, Disks, Headers
<1> QED
  BY <1>1, <1>2, <1>3

\* ... and one that a failing request or a power cut left, with entries from
\* before or after it
LEMMA HalfDisk ==
  ASSUME TypeInv, NEW r \in HalfStored(disk)
  PROVE  /\ r \in Disks /\ r.mbr = disk.mbr /\ r.farEnt = disk.farEnt
         /\ \/ r = disk
            \/ /\ at = 0 /\ r.bakHdr = disk.bakHdr /\ r.bakEnt = disk.bakEnt
               /\ r.priEnt \in {disk.priEnt, Over(disk.priEnt, ram)}
               /\ r.priHdr.crc = Parts("torn")
               /\ r.priHdr.sig = disk.priHdr.sig /\ r.priHdr.my = disk.priHdr.my
               /\ r.priHdr.far = disk.priHdr.far
            \/ /\ at = 1 /\ r.priHdr = disk.priHdr /\ r.priEnt = disk.priEnt
               /\ r.bakEnt \in {disk.bakEnt, Over(disk.bakEnt, ram)}
               /\ r.bakHdr.crc = Parts("torn")
               /\ r.bakHdr.sig = disk.bakHdr.sig /\ r.bakHdr.my = disk.bakHdr.my
               /\ r.bakHdr.far = disk.bakHdr.far
<1>1. disk \in Disks /\ Stored(disk) \in Disks /\ at \in {0, 1}
  BY StoredDisk DEF TypeInv
<1>2. r \in {disk, TornCopy(disk), TornCopy(Stored(disk))}
  BY DEF HalfStored
<1>3. CASE r = disk
  BY <1>1, <1>3
<1>4. CASE r = TornCopy(disk)
  BY <1>1, <1>4, TornDisk
<1>5. CASE r = TornCopy(Stored(disk))
  <2>1. CASE at = 0
    BY <1>1, <1>5, <2>1, TornDisk, StoredDisk
  <2>2. CASE at = 1
    BY <1>1, <1>5, <2>2, TornDisk, StoredDisk
  <2> QED
    BY <1>1, <2>1, <2>2
<1> QED
  BY <1>2, <1>3, <1>4, <1>5

-----------------------------------------------------------------------------
(* What the changes of the attributes leave in the two boot entries        *)

LEMMA Ranges ==
  /\ MaxPriority \in 0 .. MaxPriority /\ MaxPriority - 1 \in 0 .. MaxPriority
  /\ MaxRetry \in 0 .. MaxRetry /\ "boot" \in Ptns
BY TableAssumption DEF MaxPriority

LEMMA OtherSlotDiffers ==
  ASSUME NEW s \in Slots
  PROVE  /\ OtherSlot(s) \in Slots /\ OtherSlot(s) # s /\ Slots = {s, OtherSlot(s)}
BY DEF OtherSlot, Slots

LEMMA BootEntryType ==
  ASSUME NEW t \in Table, NEW s \in Slots
  PROVE  /\ t["boot"][s] \in Entry /\ Att(t["boot"][s]) \in Attributes
         /\ t["boot"][s].act \in BOOLEAN /\ t["boot"][s].pri \in 0 .. MaxPriority
<1>1. t["boot"][s] \in Entry
  BY Ranges DEF Table
<1> QED
  BY <1>1 DEF Entry, Att, Attributes

LEMMA UpdBootTable ==
  ASSUME NEW t \in Table, NEW s \in Slots, NEW e \in Entry
  PROVE  /\ UpdBoot(t, s, e) \in Table
         /\ UpdBoot(t, s, e)["boot"][s] = e
         /\ \A x \in Slots : x # s => UpdBoot(t, s, e)["boot"][x] = t["boot"][x]
BY Ranges DEF UpdBoot, Table

LEMMA DefaultEntries ==
  ASSUME NEW t \in Table
  PROVE  LET w == WithDefault(t) IN
         /\ w \in Table /\ w["boot"]["_b"] = t["boot"]["_b"]
         /\ w["boot"]["_a"].act /\ w["boot"]["_a"].pri = MaxPriority
<1>0. "_a" \in Slots /\ "_b" \in Slots /\ "_b" # "_a"
  BY DEF Slots
<1> DEFINE e == [t["boot"]["_a"] EXCEPT !.pri = MaxPriority, !.act = TRUE,
                   !.ret = MaxRetry, !.suc = FALSE, !.unb = FALSE]
<1>1. t["boot"]["_a"] \in Entry
  BY <1>0, BootEntryType
<1>2. e \in Entry
  BY <1>1, Ranges, Zenon DEF Entry
<1>3. e.act /\ e.pri = MaxPriority
  BY <1>1 DEF Entry
<1> HIDE DEF e
<1>4. WithDefault(t) = UpdBoot(t, "_a", e)
  BY DEF WithDefault, e
<1> QED
  BY <1>0, <1>2, <1>3, <1>4, UpdBootTable

LEMMA ActiveEntries ==
  ASSUME NEW t \in Table, NEW s \in Slots
  PROVE  LET w == WithActive(t, s, TRUE)
             o == OtherSlot(s)
         IN  /\ w \in Table
             /\ w["boot"][s].act /\ w["boot"][s].pri = MaxPriority
             /\ Att(w["boot"][s]) = FreshAtt
             /\ ~w["boot"][o].act /\ Att(w["boot"][o]) = Att(t["boot"][o])
<1> DEFINE o == OtherSlot(s)
           new == [t["boot"][s] EXCEPT
                     !.pri = MaxPriority, !.act = TRUE, !.ret = MaxRetry,
                     !.unb = FALSE, !.suc = @ /\ ~TRUE]
           old == [t["boot"][o] EXCEPT
                     !.pri = MaxPriority - 1, !.act = FALSE]
<1>1. o \in Slots /\ o # s
  BY OtherSlotDiffers
<1>2. t["boot"][s] \in Entry /\ t["boot"][o] \in Entry
  BY <1>1, BootEntryType
<1>3. (t["boot"][s].suc /\ ~TRUE) \in BOOLEAN
  OBVIOUS
<1>4. new \in Entry /\ old \in Entry
  BY <1>2, <1>3, Ranges, Zenon DEF Entry
<1>5. /\ new.act /\ new.pri = MaxPriority /\ Att(new) = FreshAtt
      /\ ~old.act /\ Att(old) = Att(t["boot"][o])
  BY <1>2 DEF Entry, Att, FreshAtt
<1> HIDE DEF new, old, o
<1>6. WithActive(t, s, TRUE) = UpdBoot(UpdBoot(t, s, new), o, old)
  BY DEF WithActive, new, old, o
<1>7. LET u == UpdBoot(t, s, new)
          w == UpdBoot(u, o, old)
      IN w \in Table /\ w["boot"][s] = new /\ w["boot"][o] = old
  BY <1>1, <1>4, UpdBootTable
<1> QED
  BY <1>5, <1>6, <1>7 DEF o

\* ... and then the type GUIDs are exchanged and the active bits set.
LEMMA SwitchedEntries ==
  ASSUME NEW t \in Table, NEW s \in Slots
  PROVE  LET w == WithActiveBits(WithTypesSwapped(t), s) IN
         /\ w \in Table
         /\ \A x \in Slots : /\ w["boot"][x].act = (x = s)
                             /\ w["boot"][x].pri = t["boot"][x].pri
                             /\ Att(w["boot"][x]) = Att(t["boot"][x])
<1> DEFINE u == WithTypesSwapped(t)
           w == WithActiveBits(u, s)
<1>1. ASSUME NEW p \in Ptns, NEW x \in Slots
      PROVE  /\ u[p][x] \in Entry /\ u[p][x].pri = t[p][x].pri
             /\ Att(u[p][x]) = Att(t[p][x])
  <2>1. t[p][x] \in Entry /\ t[p][OtherSlot(x)] \in Entry
    BY OtherSlotDiffers DEF Table
  <2>2. u[p][x] = [t[p][x] EXCEPT !.type = t[p][OtherSlot(x)].type]
    BY DEF WithTypesSwapped
  <2> QED
    BY <2>1, <2>2 DEF Entry, Att
<1>2. ASSUME NEW p \in Ptns, NEW x \in Slots
      PROVE  /\ w[p][x] \in Entry /\ w[p][x].act = (x = s)
             /\ w[p][x].pri = u[p][x].pri /\ Att(w[p][x]) = Att(u[p][x])
  <2>1. w[p][x] = [u[p][x] EXCEPT !.act = (x = s)]
    BY DEF WithActiveBits
  <2>2. \A b \in BOOLEAN : [u[p][x] EXCEPT !.act = b] \in Entry
    BY <1>1, Zenon DEF Entry
  <2>3. (x = s) \in BOOLEAN
    OBVIOUS
  <2>4. w[p][x] \in Entry
    BY <2>1, <2>2, <2>3, Zenon
  <2> QED
    BY <1>1, <2>1, <2>4 DEF Entry, Att
<1>3. w \in Table
  <2>1. w = [p \in Ptns |-> [x \in Slots |-> [u[p][x] EXCEPT !.act = (x = s)]]]
    BY DEF WithActiveBits
  <2> HIDE DEF u, w
  <2>2. \A p \in Ptns, x \in Slots : [u[p][x] EXCEPT !.act = (x = s)] \in Entry
    BY <1>2, <2>1
  <2> QED
    BY <2>1, <2>2 DEF Table
<1> HIDE DEF u
<1> QED
  BY <1>1, <1>2, <1>3, Ranges DEF u

LEMMA FlashedEntries ==
  ASSUME NEW t \in Table, NEW s \in Slots
  PROVE  LET w == WithFlashedAttr(t, s)
             o == OtherSlot(s)
         IN  /\ w \in Table /\ w["boot"][o] = t["boot"][o]
             /\ w["boot"][s].act = t["boot"][s].act
             /\ w["boot"][s].pri = MaxPriority
             /\ Att(w["boot"][s]) = FreshAtt
<1> DEFINE e == [t["boot"][s] EXCEPT !.suc = FALSE, !.unb = FALSE,
                   !.pri = MaxPriority, !.ret = MaxRetry]
<1>1. t["boot"][s] \in Entry
  BY BootEntryType
<1>2. e \in Entry
  BY <1>1, Ranges, Zenon DEF Entry
<1>3. e.act = t["boot"][s].act /\ e.pri = MaxPriority /\ Att(e) = FreshAtt
  BY <1>1 DEF Entry, Att, FreshAtt
<1> HIDE DEF e
<1>4. WithFlashedAttr(t, s) = UpdBoot(t, s, e)
  BY DEF WithFlashedAttr, e
<1> QED
  BY <1>2, <1>3, <1>4, UpdBootTable, OtherSlotDiffers

\* A change of the attributes keeps the layout.
LEMMA EditPartitions ==
  ASSUME NEW r \in Partitions, NEW u \in Table
  PROVE  LET w == [r EXCEPT !.t = u] IN
         w \in Partitions /\ w.name = r.name /\ w.t = u
BY DEF Partitions

-----------------------------------------------------------------------------
(* Type correctness                                                        *)

LEMMA ImageType ==
  ASSUME NEW i \in Images
  PROVE  /\ i.home \in BOOLEAN /\ i.parts \in Partitions /\ i.parts.name \in ImgNames
BY FlashAssumption, NamesAre DEF Partitions

LEMMA NoImageType ==
  NoImage.home \in BOOLEAN /\ NoImage.parts \in Partitions
BY NoneType DEF NoImage

LEMMA NoVarsType ==
  /\ FreshAtt \in Attributes /\ [s \in Slots |-> FreshAtt] \in [Slots -> Attributes]
  /\ NoVars \in Variables
<1>1. FreshAtt \in Attributes
  BY Ranges DEF FreshAtt, Attributes
<1> QED
  BY <1>1 DEF NoVars, Variables

LEMMA ActiveType ==
  ASSUME NEW r
  PROVE  Active(r) \in Slots \cup {NoSlot}
BY DEF Active, ActiveOf, Slots

\* The variables after FastbootUpdateAttr
LEMMA FreshVarsType ==
  ASSUME fbvars \in Variables, slot \in Slots
  PROVE  LET w == WithFreshVars IN
         /\ w \in Variables /\ w.pop = fbvars.pop /\ w.info = fbvars.info
         /\ w.cur = fbvars.cur /\ w.att[slot] = FreshAtt
         /\ \A s \in Slots \ {slot} : w.att[s] = fbvars.att[s]
<1> DEFINE f == [fbvars.att EXCEPT ![slot] = FreshAtt]
<1>1. fbvars.att \in [Slots -> Attributes]
  BY DEF Variables
<1>2. /\ f \in [Slots -> Attributes] /\ f[slot] = FreshAtt
      /\ \A s \in Slots \ {slot} : f[s] = fbvars.att[s]
  BY <1>1, NoVarsType
<1>3. WithFreshVars = [fbvars EXCEPT !.att = f]
  BY Zenon DEF WithFreshVars, Variables
<1> HIDE DEF f
<1> QED
  BY <1>2, <1>3 DEF Variables

\* ... and after CmdSetActive
LEMMA CurVarsType ==
  ASSUME NEW v \in Variables, NEW s \in Slots \cup {NoSlot}
  PROVE  LET w == [v EXCEPT !.cur = s] IN
         /\ w \in Variables /\ w.pop = v.pop /\ w.info = v.info
         /\ w.cur = s /\ w.att = v.att
BY DEF Variables

LEMMA TypeInit == Init => TypeOK
<1> SUFFICES ASSUME Init
             PROVE  TypeOK
  OBVIOUS
<1>1. ram \in Partitions
  BY FlashAssumption, NamesAre DEF Init, Partitions
<1>2. disk \in Disks
  BY <1>1, NoneType, HeaderType DEF Init, Whole, Disks
<1>3. TypeInv
  BY <1>1, <1>2, NoImageType, NoVarsType DEF Init, TypeInv, Labels, Slots
<1>4. Placed
  BY DEF Init, Placed, Writing
<1> QED
  BY <1>3, <1>4 DEF TypeOK

LEMMA TypeNext == TypeOK /\ [Next]_vars => TypeOK'
<1> SUFFICES ASSUME TypeOK, [Next]_vars
             PROVE  TypeOK'
  OBVIOUS
<1> USE DEF TypeOK
<1>0. "_a" \in Slots
  BY DEF Slots
<1>1. ASSUME UNCHANGED vars PROVE TypeOK'
  BY <1>1 DEF vars, static, call, args, history, bounds, TypeInv, Placed,
              Found, MultiSlot
<1>2. CASE WriteGpt
  <2>1. disk' \in Disks
    BY <1>2, PieceDisk DEF WriteGpt
  <2>2. pc' \in (Writing \cup {"refresh"}) \ {"erase"} /\ pc' \in Labels /\ pc \in Writing
    BY <1>2, LabelKinds DEF WriteGpt, Labels
  <2>3. open' \in BOOLEAN
    BY <1>2 DEF WriteGpt, TypeInv
  <2>4. TypeInv'
    BY <1>2, <2>1, <2>2, <2>3 DEF WriteGpt, TypeInv, static, call, args, bounds
  <2>5. Placed'
    BY <1>2, <2>2 DEF WriteGpt, Placed, static, call, args, bounds, Found, Writing
  <2> QED
    BY <2>4, <2>5
<1>3. CASE WriteGptFails
  <2>1. disk' \in Disks
    BY <1>3, PartialDisk DEF WriteGptFails
  <2>2. open' \in BOOLEAN
    BY <1>3 DEF WriteGptFails, TypeInv
  <2>3. faults' \in Nat /\ faults' # 0
    BY <1>3 DEF WriteGptFails, TypeInv
  <2>4. TypeInv'
    BY <1>0, <1>3, <2>1, <2>2, <2>3, NoImageType
       DEF WriteGptFails, Answer, TypeInv, static, call, Labels
  <2>5. Placed'
    BY <1>3, <2>3 DEF WriteGptFails, Answer, Placed, TypeInv, static, call, Writing
  <2> QED
    BY <2>4, <2>5
<1>4. CASE Refresh
  <2>1. disk' \in Disks /\ ram' \in Partitions /\ disk' \in {disk, Restored(disk)}
    BY <1>4, RestoredDisk, PresentedType DEF Refresh, TypeInv
  <2>2. faults' \in Nat /\ (faults' = 0 => faults = 0) /\ cuts' = cuts
    BY <1>4 DEF Refresh, TypeInv
  <2>3. /\ \/ pc' = "active" /\ MultiSlot(ram') /\ UNCHANGED <<reply, args, fbvars>>
           \/ fbvars' \in {fbvars, Cleared} /\ Answer("okay")
        /\ UNCHANGED <<ufs, static, call, history, flashes, cuts>>
    BY <1>4 DEF Refresh, Goto
  <2>4. Cleared \in Variables
    BY NoVarsType DEF Cleared, TypeInv
  <2>5. TypeInv'
    BY <1>0, <2>1, <2>2, <2>3, <2>4, NoImageType
       DEF TypeInv, static, call, history, args, Answer, Labels
  <2>6. Placed'
    BY <1>4, <2>2, <2>3 DEF Placed, TypeInv, static, call, history, Answer, Writing, Refresh
  <2> QED
    BY <2>5, <2>6
<1>5. CASE RefreshFails
  BY <1>0, <1>5, NoImageType
     DEF RefreshFails, Answer, TypeInv, Placed, static, call, Labels, Writing
<1>6. CASE DefaultSlot
  <2>1. ram' \in Partitions /\ ram'.name = ram.name
    BY <1>6, DefaultEntries, EditPartitions DEF DefaultSlot, TypeInv, Partitions
  <2>2. /\ pc' = "store" /\ at' = 0 /\ left' = 1 /\ ret' \in {"populate", "setActive"}
        /\ pc \in {"active", "setActive"}
    BY <1>6 DEF DefaultSlot, StoreThen
  <2> QED
    BY <1>6, <2>1, <2>2
       DEF DefaultSlot, TypeInv, Placed, static, args, history, bounds, Labels, Writing,
           MultiSlot
<1>7. CASE FindPtnActiveSlot
  BY <1>7 DEF FindPtnActiveSlot, TypeInv, Placed, static, call, args, history,
              bounds, Labels, Writing, MultiSlot
<1>8. CASE PopulateMultislotMetadata
  <2>1. fbvars' \in Variables
    <3>1. CASE fbvars.pop
      BY <1>8, <3>1, NoVarsType DEF PopulateMultislotMetadata, TypeInv, Variables
    <3>2. CASE ~fbvars.pop
      <4>1. [s \in Slots |-> Att(ram.t["boot"][s])] \in [Slots -> Attributes]
        BY BootEntryType DEF TypeInv, Partitions
      <4>2. fbvars' = [pop |-> TRUE, info |-> TRUE, cur |-> Active(ram),
                       att |-> [s \in Slots |-> Att(ram.t["boot"][s])]]
        BY <1>8, <3>2 DEF PopulateMultislotMetadata
      <4> QED
        BY <4>1, <4>2, ActiveType DEF Variables
    <3> QED
      BY <3>1, <3>2
  <2> QED
    BY <1>0, <1>8, <2>1, NoImageType
       DEF PopulateMultislotMetadata, Answer, TypeInv, Placed, static, call,
           bounds, Labels, Writing
<1>9. ASSUME CallReturns, pc = "store", disk' \in Disks, faults' \in Nat,
             faults' = 0 => faults = 0,
             UNCHANGED <<ufs, ram, static, fbvars, history, flashes, cuts>>
      PROVE  TypeOK'
  <2>1. /\ at' = 0 /\ left' \in {1, 2} /\ ret' \in {ret, "ready"}
        /\ \/ pc' = "store" /\ UNCHANGED <<args, reply>> /\ ret' = ret
           \/ pc' = "ready" /\ args' = <<NoImage, "_a", "bare">>
           \/ pc' = ret /\ UNCHANGED <<args, reply>>
    BY <1>9 DEF CallReturns, Answer, Goto, TypeInv, args
  <2>2. TypeInv'
    BY <1>0, <1>9, <2>1, NoImageType DEF TypeInv, static, args, history, Labels
  <2>3. Placed'
    BY <1>9, <2>1 DEF Placed, TypeInv, static, args, history, Writing, MultiSlot
  <2> QED
    BY <2>2, <2>3
<1>10. CASE Store
  <2>1. disk' \in Disks
    BY <1>10, StoredDisk DEF Store
  <2>2. CASE at = 0
    BY <1>10, <2>1, <2>2
       DEF Store, TypeInv, Placed, static, args, history, bounds, Labels, Writing, MultiSlot
  <2>3. CASE at # 0
    BY <1>9, <1>10, <2>1, <2>3 DEF Store, TypeInv, bounds
  <2> QED
    BY <2>2, <2>3
<1>11. CASE StoreFails
  <2>1. disk' \in Disks
    BY <1>11, HalfDisk DEF StoreFails
  <2>2. faults' \in Nat /\ faults' # 0
    BY <1>11 DEF StoreFails, TypeInv
  <2> QED
    BY <1>9, <1>11, <2>1, <2>2 DEF StoreFails
<1>12. CASE CmdFlashTable
  <2>1. PICK i \in Images, n \in {NoLun, Home, BadLun} :
          LET to     == IF n = NoLun THEN lun ELSE n
              parsed == i.gpt /\ Found(to) /\ PrimaryParses(i)
          IN
          /\ lun' = to
          /\ \/ Answer("fail") /\ UNCHANGED <<bootLun, forced>>
             \/ Answer("fail") /\ bootLun' \in {1, bootLun}
             \/ /\ bootLun' \in {1, bootLun} /\ forced' = TRUE
                /\ ~Found(to) /\ pc' = "refresh"
                /\ reply' = "none" /\ img' = i /\ UNCHANGED <<slot, form>>
             \/ /\ bootLun' \in {1, bootLun} /\ forced' = TRUE
                /\ Found(to) /\ pc' = "erase"
                /\ reply' = "none" /\ img' = i /\ UNCHANGED <<slot, form>>
    BY <1>12 DEF CmdFlashTable, SetFirstBootLun
  <2>2. bootLun' \in {0, 1, 2} /\ lun' \in {NoLun, Home, BadLun}
    BY <2>1 DEF TypeInv
  <2>3. UNCHANGED <<ufs, disk, ram, fbvars, call, open, failed, outdated, cuts>>
        /\ pc = "ready"
    BY <1>12 DEF CmdFlashTable
  <2>6. faults' \in Nat /\ (faults' = 0 => faults = 0)
    BY <1>12 DEF CmdFlashTable, SetFirstBootLun, TypeInv
  <2>4. TypeInv'
    BY <1>0, <2>1, <2>2, <2>3, <2>6, ImageType, NoImageType
       DEF Answer, TypeInv, call, Labels, Writing
  <2>5. Placed'
    BY <2>1, <2>3, <2>6, ImageType DEF Answer, Placed, call, Writing, Found
  <2> QED
    BY <2>4, <2>5
<1>13. CASE CmdSetActive
  BY <1>0, <1>13, NoImageType
     DEF CmdSetActive, Answer, TypeInv, Placed, static, call, history, bounds, Labels, Writing,
         MultiSlot
<1>14. CASE SetActiveSlot
  <2>1. ram' \in Partitions /\ ram'.name = ram.name
    <3> DEFINE t == WithActive(ram.t, slot, TRUE)
               u == WithActiveBits(WithTypesSwapped(t), slot)
    <3>1. t \in Table
      BY ActiveEntries DEF TypeInv, Partitions
    <3>2. u \in Table
      BY <3>1, SwitchedEntries DEF TypeInv
    <3>3. ram' = [ram EXCEPT !.t = t] \/ ram' = [ram EXCEPT !.t = u]
      BY <1>14 DEF SetActiveSlot
    <3> HIDE DEF t, u
    <3>4. ram \in Partitions
      BY DEF TypeInv
    <3>5. CASE ram' = [ram EXCEPT !.t = t]
      BY <3>1, <3>4, <3>5, EditPartitions
    <3>6. CASE ram' = [ram EXCEPT !.t = u]
      BY <3>2, <3>4, <3>6, EditPartitions
    <3> QED
      BY <3>3, <3>5, <3>6
  <2>2. pc' = "store" /\ at' = 0 /\ left' \in {1, 2} /\ ret' = "setVars" /\ pc = "setActive"
    BY <1>14 DEF SetActiveSlot, StoreThen, TypeInv
  <2>3. bootLun' \in {0, 1, 2}
    BY <1>14 DEF SetActiveSlot, SwitchBootLun, SwitchedLun, LunFor, TypeInv
  <2>4. faults' \in Nat /\ (faults' = 0 => faults = 0)
    BY <1>14 DEF SetActiveSlot, SwitchBootLun, TypeInv
  <2> QED
    BY <1>14, <2>1, <2>2, <2>3, <2>4
       DEF SetActiveSlot, TypeInv, Placed, args, Labels, Writing, MultiSlot
<1>15. CASE SetActiveFails
  BY <1>0, <1>15, NoImageType
     DEF SetActiveFails, Answer, TypeInv, Placed, static, call, history, bounds,
         Labels, Writing
<1>16. CASE SetActiveVars
  <2>1. fbvars' \in Variables
    BY <1>16, FreshVarsType, CurVarsType, ActiveType DEF SetActiveVars, TypeInv
  <2>2. /\ \/ pc' = "store" /\ at' = 0 /\ left' = 1 /\ ret' = "ready"
           \/ pc' = "spin" /\ UNCHANGED call
        /\ pc = "setVars"
    BY <1>16 DEF SetActiveVars, StoreThen
  <2> QED
    BY <1>16, <2>1, <2>2
       DEF SetActiveVars, TypeInv, Placed, static, args, history, bounds, call,
           Labels, Writing, MultiSlot
<1>17. CASE SpinEnds
  BY <1>17 DEF SpinEnds, StoreThen, TypeInv, Placed, static, args, bounds,
               Labels, Writing, MultiSlot
<1>18. CASE CmdFlashBoot
  <2>1. PICK s \in Slots : slot' = s /\ ram' = [ram EXCEPT !.t = WithFlashedAttr(@, s)]
    BY <1>18 DEF CmdFlashBoot
  <2>2. ram' \in Partitions /\ ram'.name = ram.name
    BY <2>1, FlashedEntries, EditPartitions DEF TypeInv, Partitions
  <2> QED
    BY <1>18, <2>1, <2>2
       DEF CmdFlashBoot, StoreThen, TypeInv, Placed, static, history, bounds,
           Labels, Writing, MultiSlot
<1>19. CASE FlashBootVars
  <2>1. fbvars' \in Variables
    BY <1>19, FreshVarsType DEF FlashBootVars, TypeInv
  <2> QED
    BY <1>0, <1>19, <2>1, NoImageType
       DEF FlashBootVars, Answer, TypeInv, Placed, static, call, history, bounds,
           Labels, Writing
<1>20. CASE PowerOff
  <2>1. disk' \in Disks
    <3>1. CASE pc \in Writing
      <4>1. disk' \in Partial(disk)
        BY <1>20, <3>1 DEF PowerOff, Writing
      <4> QED
        BY <3>1, <4>1, PartialDisk
    <3>2. CASE pc = "store"
      <4>1. disk' \in HalfStored(disk)
        BY <1>20, <3>2 DEF PowerOff, Writing
      <4> QED
        BY <4>1, HalfDisk
    <3>3. CASE pc \notin Writing /\ pc # "store"
      BY <1>20, <3>3 DEF PowerOff, TypeInv
    <3> QED
      BY <3>1, <3>2, <3>3
  <2>2. cuts' \in Nat
    BY <1>20 DEF PowerOff, TypeInv
  <2>3. open' \in BOOLEAN
    BY <1>20 DEF PowerOff, TypeInv
  <2> QED
    BY <1>0, <1>20, <2>1, <2>2, <2>3, NoImageType, NoVarsType, NoneType
       DEF PowerOff, TypeInv, Placed, Labels, Writing
<1>21. CASE PowerOn
  <2>1. disk' \in Disks /\ ram' \in Partitions
    BY <1>21, RestoredDisk, PresentedType DEF PowerOn, TypeInv
  <2>2. faults' \in Nat /\ (faults' = 0 => faults = 0) /\ cuts' = cuts
    BY <1>21 DEF PowerOn, TypeInv
  <2>3. pc' \in {"active", "ready"} /\ (pc' = "active" => MultiSlot(ram')) /\ at' = 0
    BY <1>21 DEF PowerOn, Placed, call
  <2> QED
    BY <1>21, <2>1, <2>2, <2>3
       DEF PowerOn, TypeInv, Placed, static, call, args, history, Labels, Writing
<1> QED
  BY <1>1, <1>2, <1>3, <1>4, <1>5, <1>6, <1>7, <1>8, <1>10, <1>11, <1>12, <1>13,
     <1>14, <1>15, <1>16, <1>17, <1>18, <1>19, <1>20, <1>21 DEF Next, Loader

\* Steps that change neither a table nor the bounds, and steps that change
\* attributes in RAM, which UpdatePartitionAttributes is then called to store,
\* and perhaps the boot unit
Elsewhere == Writing \cup {"off", "refresh"}

Talks ==
  /\ UNCHANGED <<ufs, disk, ram, static, open, failed, forced, bounds>>
  /\ pc \notin Elsewhere /\ pc' \notin Elsewhere /\ pc # "store"
  /\ pc' = "store" => at' = 0

Edits ==
  /\ UNCHANGED <<ufs, disk, lun, second, open, failed, flashes, cuts>>
  /\ faults' \in {faults, faults + 1}
  /\ pc \notin Elsewhere /\ pc' = "store" /\ at' = 0
  /\ MultiSlot(ram) /\ ram'.name = ram.name

LEMMA StepKinds ==
  ASSUME TypeOK, Next
  PROVE  \/ WriteGpt \/ WriteGptFails \/ Refresh \/ RefreshFails
         \/ Store \/ StoreFails \/ CmdFlashTable \/ PowerOff \/ PowerOn
         \/ Talks \/ Edits
<1> USE DEF TypeOK
<1>1. CASE DefaultSlot
  <2>1. ram'.name = ram.name
    BY <1>1 DEF DefaultSlot, TypeInv, Partitions
  <2> QED
    BY <1>1, <2>1 DEF DefaultSlot, StoreThen, Edits, Elsewhere, Writing, Placed,
                      static, history, bounds
<1>2. CASE FindPtnActiveSlot
  BY <1>2 DEF FindPtnActiveSlot, Talks, Elsewhere, Writing, history, static
<1>3. CASE PopulateMultislotMetadata
  BY <1>3 DEF PopulateMultislotMetadata, Answer, Talks, Elsewhere, Writing, static
<1>4. CASE CmdSetActive
  BY <1>4 DEF CmdSetActive, Answer, Talks, Elsewhere, Writing, history, static
<1>5. CASE SetActiveSlot
  <2>1. ram'.name = ram.name
    BY <1>5 DEF SetActiveSlot, TypeInv, Partitions
  <2>2. pc' = "store" /\ at' = 0
    BY <1>5 DEF SetActiveSlot, StoreThen
  <2>3. faults' \in {faults, faults + 1}
    BY <1>5 DEF SetActiveSlot, SwitchBootLun
  <2> QED
    BY <1>5, <2>1, <2>2, <2>3 DEF SetActiveSlot, Edits, Elsewhere, Writing, Placed
<1>6. CASE SetActiveFails
  BY <1>6 DEF SetActiveFails, Answer, Talks, Elsewhere, Writing, history, static
<1>7. CASE SetActiveVars
  BY <1>7 DEF SetActiveVars, StoreThen, Talks, Elsewhere, Writing, history, static
<1>8. CASE SpinEnds
  BY <1>8 DEF SpinEnds, StoreThen, Talks, Elsewhere, Writing, static
<1>9. CASE CmdFlashBoot
  <2>1. ram'.name = ram.name
    BY <1>9 DEF CmdFlashBoot, TypeInv, Partitions
  <2> QED
    BY <1>9, <2>1 DEF CmdFlashBoot, StoreThen, Edits, Elsewhere, Writing,
                      static, history, bounds
<1>10. CASE FlashBootVars
  BY <1>10 DEF FlashBootVars, Answer, Talks, Elsewhere, Writing, history, static
<1> QED
  BY <1>1, <1>2, <1>3, <1>4, <1>5, <1>6, <1>7, <1>8, <1>9, <1>10 DEF Next, Loader

\* What a step can do to the table on the storage
LEMMA DiskSteps ==
  ASSUME TypeOK, [Next]_vars
  PROVE  \/ UNCHANGED disk
         \/ pc \in Writing /\ disk' \in {Piece(disk)} \cup Partial(disk)
         \/ disk' = Restored(disk)
         \/ pc = "store" /\ (disk' = Stored(disk) \/ disk' \in HalfStored(disk))
<1>1. CASE PowerOff
  <2>1. CASE pc \in Writing
    BY <1>1, <2>1 DEF PowerOff, Writing
  <2>2. CASE pc = "store"
    BY <1>1, <2>2 DEF PowerOff, Writing
  <2>3. CASE pc \notin Writing /\ pc # "store"
    BY <1>1, <2>3 DEF PowerOff
  <2> QED
    BY <2>1, <2>2, <2>3
<1>2. CASE WriteGpt \/ WriteGptFails
  BY <1>2 DEF WriteGpt, WriteGptFails
<1>3. CASE Refresh \/ RefreshFails \/ PowerOn
  BY <1>3 DEF Refresh, RefreshFails, PowerOn
<1>4. CASE Store \/ StoreFails
  BY <1>4 DEF Store, StoreFails
<1>5. CASE CmdFlashTable
  BY <1>5 DEF CmdFlashTable
<1>6. CASE Talks \/ Edits
  BY <1>6 DEF Talks, Edits
<1>7. CASE UNCHANGED vars
  BY <1>7 DEF vars
<1> QED
  BY <1>1, <1>2, <1>3, <1>4, <1>5, <1>6, <1>7, StepKinds

-----------------------------------------------------------------------------
(* A header that can be found describes a table                            *)

Describes(hdr) == hdr.sig => hdr.crc.name # "none"

Described == Describes(disk.priHdr) /\ Describes(disk.bakHdr)

LEMMA DescribedInit == Init => Described
BY FlashAssumption, NamesAre
   DEF Init, Described, Describes, Whole, Header, ImgNames, BootNames, AbNames

LEMMA DescribedNext == TypeOK /\ Described /\ [Next]_vars => Described'
<1> SUFFICES ASSUME TypeOK, Described, [Next]_vars
             PROVE  Described'
  OBVIOUS
<1>0. disk \in Disks /\ TypeInv
  BY DEF TypeOK, TypeInv
<1>1. CASE UNCHANGED disk
  BY <1>1 DEF Described
<1>2. CASE pc \in Writing /\ disk' = Piece(disk)
  <2>1. img.parts.name # "none" /\ disk.bakHdr \in Headers /\ img.parts \in Partitions
        /\ ufs \in BOOLEAN /\ img.home \in BOOLEAN
    BY <1>0, <1>2, NamesAre, DiskType DEF TypeOK, Placed, TypeInv
  <2>2. Describes(PatchedPri) /\ Describes(PatchedBak)
    BY <2>1 DEF Describes, PatchedPri, PatchedBak, Header
  <2>3. Describes(Erased.priHdr) /\ Describes(Erased.bakHdr)
    BY NoneType DEF Describes, Erased
  <2>4. pc = "bakEnt" => disk'.priHdr = disk.priHdr /\ disk'.bakHdr = disk.bakHdr
    BY <1>0, <1>2, <2>1, PieceDisk, PutBakDisk
  <2> QED
    BY <1>0, <1>2, <2>2, <2>3, <2>4, PieceDisk DEF Described, Writing
<1>3. CASE pc \in Writing /\ disk' \in Partial(disk)
  <2>1. disk.bakHdr \in Headers
    BY <1>0, DiskType
  <2>2. CASE pc = "erase"
    BY <1>0, <1>3, <2>2, PartialDisk, PartlyErasedDisk, NoneType DEF Described, Describes
  <2>3. CASE pc # "erase"
    <3>1. CASE pc = "bakEnt"
      BY <1>0, <1>3, <3>1, PartialDisk DEF Described
    <3>2. CASE pc \in {"mbr", "priHdr", "bakHdr", "priEnt"}
      BY <1>0, <1>3, <3>2, PartialDisk DEF Described
    <3> QED
      BY <1>3, <2>3, <3>1, <3>2 DEF Writing
  <2> QED
    BY <2>2, <2>3
<1>4. CASE disk' = Restored(disk)
  <2>1. disk.priHdr \in Headers /\ disk.priEnt \in Partitions
    BY <1>0, DiskType
  <2> QED
    BY <1>0, <1>4, <2>1, RestoredDisk, PutBakDisk DEF Described
<1>5. CASE pc = "store" /\ disk' = Stored(disk)
  <2>1. ram \in Partitions /\ disk.priEnt \in Partitions /\ disk.bakEnt \in Partitions
        /\ at \in {0, 1}
    BY <1>0, DiskType DEF TypeInv
  <2> QED
    BY <1>0, <1>5, <2>1, StoredDisk, OverType DEF Described, Describes
<1>6. CASE pc = "store" /\ disk' \in HalfStored(disk)
  BY <1>0, <1>6, HalfDisk, NoneType DEF Described, Describes
<1> QED
  BY <1>1, <1>2, <1>3, <1>4, <1>5, <1>6, DiskSteps

-----------------------------------------------------------------------------
(* How far WriteGpt has come                                               *)

Written ==
  /\ pc \in {"mbr", "priHdr", "bakHdr"} => ~disk.bakHdr.sig
  /\ pc \in {"priHdr", "bakHdr", "priEnt", "bakEnt"} => disk.mbr
  /\ pc \in {"bakHdr", "priEnt", "bakEnt"} => disk.priHdr = PatchedPri
  /\ pc \in {"priEnt", "bakEnt"} => disk.bakHdr = PatchedBak
  /\ pc = "bakEnt" => disk.priEnt = img.parts
  /\ pc = "refresh" /\ Found(lun) =>
       disk.mbr /\ disk.priHdr = PatchedPri /\ disk.priEnt = img.parts /\ ~BakValid(disk)

LEMMA WrittenInit == Init => Written
BY DEF Init, Written

LEMMA WrittenNext == TypeOK /\ Written /\ [Next]_vars => Written'
<1> SUFFICES ASSUME TypeOK, Written, [Next]_vars
             PROVE  Written'
  OBVIOUS
<1>0. TypeInv /\ disk.bakHdr \in Headers /\ img.parts \in Partitions
      /\ ufs \in BOOLEAN /\ img.home \in BOOLEAN /\ disk \in Disks
  BY DiskType DEF TypeOK, TypeInv
<1>1. CASE WriteGpt
  <2>1. pc \in Writing /\ disk' = Piece(disk) /\ pc' = After(pc)
        /\ UNCHANGED <<ufs, lun, img>>
    BY <1>1 DEF WriteGpt, static, args
  <2>2. UNCHANGED <<PatchedPri, PatchedBak>>
    BY <2>1 DEF PatchedPri, PatchedBak
  <2>3. CASE pc = "erase"
    <3>1. pc' = "mbr" /\ ~disk'.bakHdr.sig
      BY <1>0, <2>1, <2>3, PieceDisk, NoneType DEF After, Erased
    <3> QED
      BY <3>1 DEF Written
  <2>4. CASE pc = "mbr"
    <3>1. pc' = "priHdr"
      BY <2>1, <2>4 DEF After
    <3> QED
      BY <1>0, <2>1, <2>4, <3>1, PieceDisk DEF Written
  <2>5. CASE pc = "priHdr"
    <3>1. pc' = "bakHdr"
      BY <2>1, <2>5 DEF After
    <3> QED
      BY <1>0, <2>1, <2>2, <2>5, <3>1, PieceDisk DEF Written
  <2>6. CASE pc = "bakHdr"
    <3>1. pc' = "priEnt"
      BY <2>1, <2>6 DEF After
    <3> QED
      BY <1>0, <2>1, <2>2, <2>6, <3>1, PieceDisk DEF Written
  <2>7. CASE pc = "priEnt"
    <3>1. pc' = "bakEnt"
      BY <2>1, <2>7 DEF After
    <3> QED
      BY <1>0, <2>1, <2>2, <2>7, <3>1, PieceDisk DEF Written
  <2>8. CASE pc = "bakEnt"
    <3>1. pc' = "refresh"
      BY <2>1, <2>8 DEF After
    <3>2. /\ disk'.mbr = disk.mbr /\ disk'.priHdr = disk.priHdr
          /\ disk'.priEnt = disk.priEnt /\ disk'.bakHdr = disk.bakHdr
      BY <1>0, <2>1, <2>8, PieceDisk, PutBakDisk
    <3>3. ~PatchedBak.my
      BY <1>0, HeaderType DEF PatchedBak
    <3>4. ~BakValid(disk')
      BY <2>8, <3>2, <3>3 DEF Written, BakValid, Valid
    <3> QED
      BY <2>1, <2>2, <2>8, <3>1, <3>2, <3>4 DEF Written
  <2> QED
    BY <2>1, <2>3, <2>4, <2>5, <2>6, <2>7, <2>8 DEF Writing
<1>2. CASE WriteGptFails \/ RefreshFails
  <2>1. pc' = "ready"
    BY <1>2 DEF WriteGptFails, RefreshFails, Answer
  <2> QED
    BY <2>1 DEF Written
<1>3. CASE Refresh
  <2>1. pc' \in {"active", "ready"}
    BY <1>3 DEF Refresh, Goto, Answer
  <2> QED
    BY <2>1 DEF Written
<1>4. CASE Store \/ StoreFails
  <2>1. pc' \in {"store", "ready", ret}
    BY <1>4 DEF Store, StoreFails, CallReturns, Answer, Goto
  <2>2. pc' \notin Writing \cup {"refresh"}
    BY <1>0, <2>1 DEF TypeInv, Writing
  <2> QED
    BY <2>2 DEF Written, Writing
<1>5. CASE CmdFlashTable
  <2>1. pc' \in {"erase", "ready"} \/ (pc' = "refresh" /\ ~Found(lun'))
    BY <1>5 DEF CmdFlashTable, Answer
  <2>2. ufs' = ufs
    BY <1>5 DEF CmdFlashTable
  <2> QED
    BY <2>1, <2>2 DEF Written, Found
<1>6. CASE PowerOff \/ PowerOn
  <2>1. pc' \in {"off", "active", "ready"}
    BY <1>6 DEF PowerOff, PowerOn
  <2> QED
    BY <2>1 DEF Written
<1>7. CASE Talks \/ Edits
  <2>1. pc' \notin Writing \cup {"refresh"}
    BY <1>7 DEF Talks, Edits, Elsewhere, Writing
  <2> QED
    BY <2>1 DEF Written, Writing
<1>8. CASE UNCHANGED vars
  BY <1>8 DEF vars, static, args, Written, PatchedPri, PatchedBak, Found
<1> QED
  BY <1>1, <1>2, <1>3, <1>4, <1>5, <1>6, <1>7, <1>8, StepKinds

-----------------------------------------------------------------------------
(* The pieces that can be put together belong to one layout                *)

\* The entries that two headers could present have one layout.
SameLayout(d) ==
  /\ d.priEnt.name # "mixed"
  /\ d.bakHdr.sig /\ d.bakHdr.my => BakEntries(d).name = d.priEnt.name

OneLayout == ~failed =>
  /\ SameLayout(disk)
  /\ pc \notin Elsewhere /\ MultiSlot(ram) =>
       disk.mbr /\ disk.priEnt.name = ram.name /\ (faults = 0 => PriValid(disk))

LEMMA LayoutInit == Init => OneLayout
<1> SUFFICES ASSUME Init
             PROVE  OneLayout
  OBVIOUS
<1>1. disk = Whole(ram) /\ ram.name \in BootNames /\ pc = "off"
  BY FlashAssumption DEF Init
<1> QED
  BY <1>1, NoneType, NamesAre DEF Whole, Header, OneLayout, SameLayout, BakEntries, Elsewhere

\* The firmware may repair one copy from the other.
LEMMA LayoutRestored ==
  ASSUME NEW d \in Disks, SameLayout(d)
  PROVE  /\ SameLayout(Restored(d))
         /\ Restored(d).mbr /\ BakValid(Restored(d)) => PriValid(Restored(d))
<1>0. d.priHdr \in Headers /\ d.priEnt \in Partitions
  BY DiskType
<1>1. CASE d.mbr /\ PriValid(d) /\ ~BakValid(d)
  <2>1. Restored(d) = PutBak(d, d.priHdr, d.priEnt)
    BY <1>1 DEF Restored
  <2>2. PriValid(Restored(d))
    BY <1>1, RestoredDisk
  <2> QED
    BY <1>0, <2>1, <2>2, PutBakDisk DEF SameLayout
<1>2. CASE d.mbr /\ ~PriValid(d) /\ BakValid(d)
  BY <1>2, RestoredDisk DEF SameLayout, BakEntries, BakValid, Valid
<1>3. CASE ~d.mbr \/ (PriValid(d) /\ BakValid(d)) \/ (~PriValid(d) /\ ~BakValid(d))
  BY <1>3, RestoredDisk
<1> QED
  BY <1>1, <1>2, <1>3

\* UpdatePartitionAttributes, whole or in part, stays within the layout.
LEMMA LayoutStored ==
  ASSUME TypeInv, SameLayout(disk), disk.priEnt.name = ram.name,
         ram.name # "none", ram.name # "mixed",
         NEW r \in {Stored(disk)} \cup HalfStored(disk)
  PROVE  SameLayout(r) /\ r.mbr = disk.mbr /\ r.priEnt.name = ram.name
<1>0. /\ disk.priEnt \in Partitions /\ disk.bakEnt \in Partitions /\ ram \in Partitions
      /\ at \in {0, 1}
  BY DiskType DEF TypeInv
<1>1. Over(disk.priEnt, ram) = ram
  BY <1>0, OverType
<1>2. disk.bakEnt.name = ram.name => Over(disk.bakEnt, ram).name = ram.name
  BY <1>0, OverType
<1>3. CASE r = Stored(disk)
  <2>1. CASE at = 0
    BY <1>1, <1>3, <2>1, StoredDisk DEF SameLayout, BakEntries
  <2>2. CASE at = 1
    BY <1>2, <1>3, <2>2, StoredDisk DEF SameLayout, BakEntries
  <2> QED
    BY <1>0, <2>1, <2>2
<1>4. CASE r \in HalfStored(disk)
  BY <1>1, <1>2, <1>4, HalfDisk DEF SameLayout, BakEntries
<1> QED
  BY <1>3, <1>4

LEMMA LayoutNext == TypeOK /\ Written /\ OneLayout /\ [Next]_vars => OneLayout'
<1> SUFFICES ASSUME TypeOK, Written, OneLayout, [Next]_vars, ~failed'
             PROVE  OneLayout'
  BY DEF OneLayout
<1>0. /\ TypeInv /\ disk \in Disks /\ disk.bakHdr \in Headers /\ ram \in Partitions
      /\ img.parts \in Partitions /\ ufs \in BOOLEAN /\ img.home \in BOOLEAN
      /\ disk.priEnt \in Partitions /\ disk.bakEnt \in Partitions /\ failed \in BOOLEAN
      /\ faults \in Nat
  BY DiskType DEF TypeOK, TypeInv
<1>a. MultiSlot(ram) => ram.name # "none" /\ ram.name # "mixed"
  BY DEF MultiSlot, AbNames
<1>1. CASE WriteGpt
  <2>1. pc \in Writing /\ disk' = Piece(disk) /\ pc' = After(pc) /\ failed' = failed
    BY <1>1 DEF WriteGpt
  <2>2. disk.priEnt.name # "mixed" /\ pc' \in Elsewhere /\ img.parts.name # "mixed"
    BY <1>0, <2>1, LabelKinds, NamesAre
       DEF OneLayout, SameLayout, TypeOK, Placed, Elsewhere
  <2>3. disk'.priEnt.name # "mixed"
    <3>1. CASE pc = "erase"
      BY <1>0, <2>1, <3>1, PieceDisk, NoneType DEF Erased
    <3>2. CASE pc = "bakEnt"
      BY <1>0, <2>1, <2>2, <3>2, PieceDisk, PutBakDisk
    <3> QED
      BY <1>0, <2>1, <2>2, <3>1, <3>2, PieceDisk DEF Writing
  <2>4. ~(disk'.bakHdr.sig /\ disk'.bakHdr.my)
    <3>1. ~PatchedBak.my
      BY DEF PatchedBak, Header
    <3>2. CASE pc = "erase"
      BY <1>0, <2>1, <3>2, PieceDisk, NoneType DEF Erased
    <3>3. CASE pc = "bakEnt"
      BY <1>0, <2>1, <3>1, <3>3, PieceDisk, PutBakDisk DEF Written
    <3> QED
      BY <1>0, <2>1, <3>1, <3>2, <3>3, PieceDisk DEF Writing, Written
  <2> QED
    BY <2>2, <2>3, <2>4 DEF OneLayout, SameLayout
<1>2. CASE WriteGptFails \/ RefreshFails
  BY <1>2 DEF WriteGptFails, RefreshFails
<1>3. CASE Refresh \/ PowerOn
  <2>1. /\ disk' = Restored(disk) \/ (disk' = disk /\ faults' # 0)
        /\ ram' = Presented(disk) /\ failed' = failed
    BY <1>0, <1>3 DEF Refresh, PowerOn, history
  <2>2. SameLayout(disk)
    BY <2>1 DEF OneLayout
  <2>3. SameLayout(disk') /\ ram' = Presented(disk')
    BY <1>0, <2>1, <2>2, LayoutRestored, RestoredDisk
  <2>4. MultiSlot(ram') => disk'.mbr /\ disk'.priEnt.name = ram'.name
    BY <2>3, NoneType DEF Presented, MultiSlot, AbNames, SameLayout, BakValid, Valid
  <2>5. MultiSlot(ram') /\ faults' = 0 => PriValid(disk')
    BY <1>0, <2>1, <2>2, <2>3, LayoutRestored, NoneType DEF Presented, MultiSlot, AbNames
  <2> QED
    BY <2>3, <2>4, <2>5 DEF OneLayout
<1>4. CASE Store \/ StoreFails
  <2>1. /\ pc = "store" /\ disk' \in {Stored(disk)} \cup HalfStored(disk)
        /\ UNCHANGED <<ram, failed>> /\ at \in {0, 1}
    BY <1>0, <1>4 DEF Store, StoreFails, history, TypeInv
  <2>2. /\ SameLayout(disk) /\ disk.mbr /\ disk.priEnt.name = ram.name
        /\ ram.name # "none" /\ ram.name # "mixed"
        /\ faults = 0 => PriValid(disk)
    BY <1>a, <2>1 DEF OneLayout, TypeOK, Placed, Elsewhere, Writing
  <2>3. SameLayout(disk') /\ disk'.mbr /\ disk'.priEnt.name = ram.name
    BY <1>0, <2>1, <2>2, LayoutStored
  <2>4. faults' = 0 => PriValid(disk')
    <3>1. ASSUME faults' = 0
          PROVE  disk' = Stored(disk) /\ faults = 0
      BY <1>0, <1>4, <3>1 DEF Store, StoreFails, bounds
    <3>2. CASE at = 0
      BY <1>0, <2>2, <3>1, <3>2, StoredDisk DEF PriValid, Valid
    <3>3. CASE at = 1
      BY <1>0, <2>2, <3>1, <3>3, StoredDisk DEF PriValid
    <3> QED
      BY <2>1, <3>2, <3>3
  <2> QED
    BY <2>1, <2>3, <2>4 DEF OneLayout
<1>6. CASE CmdFlashTable
  <2>1. pc = "ready" /\ UNCHANGED <<disk, ram, failed>>
        /\ pc' \in {"ready", "erase", "refresh"} /\ (faults' = 0 => faults = 0)
    BY <1>0, <1>6 DEF CmdFlashTable, SetFirstBootLun, Answer
  <2> QED
    BY <2>1 DEF OneLayout, Elsewhere, Writing, MultiSlot
<1>7. CASE PowerOff
  <2>1. pc' = "off" /\ failed' = failed
    BY <1>7 DEF PowerOff
  <2>2. SameLayout(disk)
    BY <2>1 DEF OneLayout
  <2>3. ASSUME pc = "erase" PROVE SameLayout(disk')
    <3>1. disk' \in Partial(disk)
      BY <1>7, <2>3 DEF PowerOff, Writing
    <3>2. disk' \in PartlyErased(disk)
      BY <1>0, <2>3, <3>1, PartialDisk DEF Writing
    <3> QED
      BY <1>0, <2>2, <3>2, PartlyErasedDisk, NoneType DEF SameLayout, BakEntries
  <2>4. ASSUME pc \in {"priEnt", "bakEnt"} PROVE SameLayout(disk')
    <3>1. disk' \in Partial(disk)
      BY <1>7, <2>4 DEF PowerOff, Writing
    <3>2. disk.bakHdr = PatchedBak /\ ~PatchedBak.my
      BY <2>4 DEF Written, PatchedBak, Header
    <3>3. disk'.bakHdr = disk.bakHdr /\ disk'.priEnt.name # "mixed"
      <4>1. CASE pc = "priEnt"
        BY <1>0, <2>2, <3>1, <4>1, PartialDisk, NoneType DEF Writing, SameLayout
      <4>2. CASE pc = "bakEnt"
        BY <1>0, <2>2, <3>1, <4>2, PartialDisk, NoneType DEF Writing, SameLayout
      <4> QED
        BY <2>4, <4>1, <4>2
    <3> QED
      BY <3>2, <3>3 DEF SameLayout
  <2>5. ASSUME pc = "store" PROVE SameLayout(disk')
    <3>1. disk' \in HalfStored(disk)
      BY <1>7, <2>5 DEF PowerOff, Writing
    <3>2. disk.priEnt.name = ram.name /\ ram.name # "none" /\ ram.name # "mixed"
      BY <1>a, <2>1, <2>5 DEF OneLayout, TypeOK, Placed, Elsewhere, Writing
    <3> QED
      BY <1>0, <2>2, <3>1, <3>2, LayoutStored
  <2>6. ASSUME pc \notin {"erase", "priEnt", "bakEnt", "store"} PROVE SameLayout(disk')
    <3>1. disk' = disk
      <4>1. CASE pc \in {"mbr", "priHdr", "bakHdr"}
        BY <1>7, <4>1 DEF PowerOff, Writing, Partial
      <4>2. CASE pc \notin Writing
        BY <1>7, <2>6, <4>2 DEF PowerOff
      <4> QED
        BY <2>6, <4>1, <4>2 DEF Writing
    <3> QED
      BY <2>2, <3>1
  <2> QED
    BY <2>1, <2>3, <2>4, <2>5, <2>6 DEF OneLayout, Elsewhere
<1>8. CASE Talks
  BY <1>8 DEF Talks, OneLayout, Elsewhere, MultiSlot, bounds
<1>9. CASE Edits
  <2>1. UNCHANGED <<disk, failed>> /\ ram'.name = ram.name /\ pc \notin Elsewhere
        /\ pc' = "store" /\ (faults' = 0 => faults = 0)
    BY <1>0, <1>9 DEF Edits
  <2> QED
    BY <2>1 DEF OneLayout, Elsewhere, MultiSlot
<1>10. CASE UNCHANGED vars
  BY <1>10 DEF vars, static, history, bounds, OneLayout, MultiSlot
<1> QED
  BY <1>1, <1>2, <1>3, <1>4, <1>6, <1>7, <1>8, <1>9, <1>10, StepKinds

-----------------------------------------------------------------------------
(* RAM follows the storage                                                 *)

Current == faults = 0 =>
  /\ pc \notin Elsewhere /\ ~(pc = "store" /\ at = 0) => ram = Presented(disk)
  /\ pc = "refresh" /\ ~Found(lun) => ram = Presented(disk)

LEMMA CurrentInit == Init => Current
BY DEF Init, Current, Elsewhere

\* UpdatePartitionAttributes, when no flash has failed: the primary copy
\* becomes the table in RAM, the backup copy does not count.
LEMMA StoredCurrent ==
  ASSUME TypeOK, OneLayout, ~failed, faults = 0, Store
  PROVE  /\ at = 0 => Presented(disk') = ram
         /\ at = 1 => Presented(disk') = Presented(disk)
<1>0. /\ TypeInv /\ disk \in Disks /\ ram \in Partitions /\ disk.priEnt \in Partitions
      /\ pc = "store" /\ disk' = Stored(disk)
  BY DiskType DEF TypeOK, TypeInv, Store
<1>1. /\ disk.mbr /\ PriValid(disk) /\ disk.priEnt.name = ram.name
      /\ ram.name # "none"
  BY <1>0 DEF OneLayout, TypeOK, Placed, Elsewhere, Writing, MultiSlot, AbNames
<1>2. CASE at = 0
  <2>1. Over(disk.priEnt, ram) = ram
    BY <1>0, <1>1, OverType
  <2>2. disk'.mbr /\ PriValid(disk') /\ disk'.priEnt = ram
    BY <1>0, <1>1, <1>2, <2>1, StoredDisk DEF PriValid, Valid
  <2> QED
    BY <1>2, <2>2 DEF Presented
<1>3. CASE at = 1
  <2>1. disk'.mbr /\ disk'.priHdr = disk.priHdr /\ disk'.priEnt = disk.priEnt
    BY <1>0, <1>1, <1>3, StoredDisk
  <2> QED
    BY <1>1, <1>3, <2>1 DEF Presented, PriValid
<1> QED
  BY <1>2, <1>3

LEMMA CurrentNext ==
  TypeOK /\ OneLayout /\ Current /\ [Next]_vars => Current'
<1> SUFFICES ASSUME TypeOK, OneLayout, Current, [Next]_vars, faults' = 0
             PROVE  Current'
  BY DEF Current
<1>0. /\ TypeInv /\ disk \in Disks /\ faults \in Nat /\ at \in {0, 1}
      /\ (faults = 0 => ~failed)
  BY DEF TypeOK, TypeInv, Placed
<1>1. CASE WriteGpt
  <2>1. pc \in Writing /\ pc' = After(pc) /\ UNCHANGED <<ufs, lun>>
    BY <1>1 DEF WriteGpt, static
  <2>2. pc' \in Elsewhere /\ Found(lun')
    BY <2>1, LabelKinds DEF TypeOK, Placed, Elsewhere, Found
  <2> QED
    BY <2>1, <2>2 DEF Current, Found
<1>2. CASE WriteGptFails \/ RefreshFails \/ StoreFails
  <2>1. faults' = faults + 1
    BY <1>2 DEF WriteGptFails, RefreshFails, StoreFails
  <2> QED
    BY <1>0, <2>1
<1>3. CASE Refresh \/ PowerOn
  <2>1. /\ disk' \in {disk, Restored(disk)} /\ ram' = Presented(disk)
        /\ pc' \in {"active", "ready"}
    BY <1>3 DEF Refresh, PowerOn, Goto, Answer
  <2>2. ram' = Presented(disk')
    BY <1>0, <2>1, RestoredDisk
  <2> QED
    BY <2>1, <2>2 DEF Current
<1>4. CASE Store
  <2>1. pc = "store" /\ UNCHANGED <<ram, faults>>
    BY <1>4 DEF Store, bounds
  <2>2. pc' \notin {"refresh"}
    <3>1. pc' \in {"store", "ready", ret}
      BY <1>4 DEF Store, CallReturns, Answer, Goto
    <3> QED
      BY <1>0, <3>1 DEF TypeInv
  <2>3. CASE at = 0
    <3>1. Presented(disk') = ram
      BY <1>0, <1>4, <2>1, <2>3, StoredCurrent DEF Current
    <3> QED
      BY <2>1, <2>2, <3>1 DEF Current
  <2>4. CASE at = 1
    <3>1. Presented(disk') = Presented(disk) /\ ram = Presented(disk)
      BY <1>0, <1>4, <2>1, <2>4, StoredCurrent DEF Current, Elsewhere, Writing
    <3> QED
      BY <2>1, <2>2, <3>1 DEF Current
  <2> QED
    BY <1>0, <2>3, <2>4
<1>5. CASE CmdFlashTable
  <2>1. pc = "ready" /\ UNCHANGED <<disk, ram>> /\ pc' # "store" /\ faults = 0
    BY <1>0, <1>5 DEF CmdFlashTable, SetFirstBootLun, Answer
  <2> QED
    BY <2>1 DEF Current, Elsewhere, Writing
<1>6. CASE PowerOff
  BY <1>6 DEF PowerOff, Current, Elsewhere
<1>7. CASE Talks
  BY <1>7 DEF Talks, bounds, Current, Elsewhere
<1>8. CASE Edits
  BY <1>8 DEF Edits, Current, Elsewhere
<1>9. CASE UNCHANGED vars
  BY <1>9 DEF vars, static, call, bounds, Current, Found
<1> QED
  BY <1>1, <1>2, <1>3, <1>4, <1>5, <1>6, <1>7, <1>8, <1>9, StepKinds

-----------------------------------------------------------------------------
(* Some copy of the table can be read (eMMC)                               *)

\* TableReadable counts on a primary header that names its own place.
InPlace(d) == d.priHdr.sig => d.priHdr.my

Legible == ~ufs =>
  /\ ~disk.priHdr.far /\ ~disk.bakHdr.far
  /\ pc \in {"mbr", "priHdr", "bakHdr", "priEnt"} => open
  /\ faults + cuts <= 1 /\ ~open /\ InPlace(disk) =>
       /\ disk.mbr
       /\ PriValid(disk) \/ (faults + cuts = 1 /\ pc # "bakEnt" /\ BakValid(disk))
       /\ faults + cuts = 0 /\ pc \notin {"bakEnt", "refresh"} => BakValid(disk)

LEMMA LegibleInit == Init => Legible
<1> SUFFICES ASSUME Init
             PROVE  Legible
  OBVIOUS
<1>1. disk = Whole(ram) /\ pc = "off"
  BY DEF Init
<1>2. PriValid(disk) /\ BakValid(disk) /\ ~disk.priHdr.far /\ ~disk.bakHdr.far /\ disk.mbr
  BY <1>1 DEF Whole, Header, PriValid, BakValid, Valid, BakEntries
<1> QED
  BY <1>1, <1>2 DEF Legible

\* The firmware leaves two valid copies where it finds one.
LEMMA LegibleRestored ==
  ASSUME NEW d \in Disks, ~d.priHdr.far, ~d.bakHdr.far
  PROVE  LET r == Restored(d) IN
         /\ ~r.priHdr.far /\ ~r.bakHdr.far /\ r.mbr = d.mbr
         /\ d.mbr /\ (PriValid(d) \/ BakValid(d)) => PriValid(r) /\ BakValid(r)
         /\ (r.priHdr = d.priHdr) \/ (r.mbr /\ PriValid(r) /\ BakValid(r))
<1>1. d.priHdr \in Headers /\ d.priEnt \in Partitions
  BY DiskType
<1> QED
  BY <1>1, RestoredDisk, PutBakDisk

\* A request that stays half done leaves the other copy.
LEMMA HalfLegible ==
  ASSUME TypeInv, ~disk.priHdr.far, ~disk.bakHdr.far, NEW r \in HalfStored(disk)
  PROVE  /\ r.mbr = disk.mbr /\ ~r.priHdr.far /\ ~r.bakHdr.far
         /\ InPlace(r) = InPlace(disk)
         /\ PriValid(disk) /\ BakValid(disk) => PriValid(r) \/ BakValid(r)
BY HalfDisk DEF InPlace, PriValid, BakValid, BakEntries

LEMMA LegibleNext ==
  TypeOK /\ Written /\ Legible /\ [Next]_vars => Legible'
<1> SUFFICES ASSUME TypeOK, Written, Legible, [Next]_vars, ~ufs'
             PROVE  Legible'
  BY DEF Legible
<1>0. /\ TypeInv /\ disk \in Disks /\ faults \in Nat /\ cuts \in Nat /\ at \in {0, 1}
      /\ disk.bakHdr \in Headers /\ img.parts \in Partitions /\ img.home \in BOOLEAN
      /\ open \in BOOLEAN
  BY DiskType DEF TypeOK, TypeInv
<1>a. ufs' = ufs
  BY StepKinds DEF WriteGpt, WriteGptFails, Refresh, RefreshFails, Store, StoreFails,
     CmdFlashTable, PowerOff, PowerOn, Talks, Edits, vars
<1>b. ~disk.priHdr.far /\ ~disk.bakHdr.far
  BY <1>a DEF Legible
<1>c. ~PatchedPri.far /\ ~PatchedBak.far /\ PatchedPri.my = img.home
      /\ PatchedPri.crc = img.parts /\ PatchedPri.sig
  BY <1>a DEF PatchedPri, PatchedBak, Header
<1>1. CASE WriteGpt
  <2>1. /\ pc \in Writing /\ disk' = Piece(disk) /\ pc' = After(pc)
        /\ UNCHANGED <<faults, cuts>>
    BY <1>1 DEF WriteGpt, bounds
  <2>2. open' = IF pc = "erase" THEN TRUE ELSE IF pc = "priEnt" THEN FALSE ELSE open
    BY <1>1 DEF WriteGpt
  <2>3. CASE pc = "erase"
    <3>1. disk' = Erased /\ open'
      BY <1>0, <2>1, <2>2, <2>3, PieceDisk
    <3> QED
      BY <1>0, <3>1 DEF Legible, Erased, NoHeader
  <2>4. CASE pc \in {"mbr", "priHdr", "bakHdr"}
    <3>1. open'
      BY <1>a, <2>2, <2>4 DEF Legible
    <3>2. ~disk'.priHdr.far /\ ~disk'.bakHdr.far
      BY <1>0, <1>b, <1>c, <2>1, <2>4, PieceDisk
    <3> QED
      BY <3>1, <3>2 DEF Legible
  <2>5. CASE pc = "priEnt"
    <3>1. /\ disk'.mbr = disk.mbr /\ disk'.priHdr = PatchedPri /\ disk'.priEnt = img.parts
          /\ disk'.bakHdr = disk.bakHdr /\ disk.mbr
      BY <1>0, <2>1, <2>5, PieceDisk DEF Written
    <3>2. InPlace(disk') => PriValid(disk')
      BY <1>c, <3>1 DEF InPlace, PriValid, Valid
    <3>3. pc' = "bakEnt"
      BY <2>1, <2>5 DEF After
    <3> QED
      BY <1>b, <1>c, <3>1, <3>2, <3>3 DEF Legible
  <2>6. CASE pc = "bakEnt"
    <3>1. pc' = "refresh" /\ open' = open
      BY <2>1, <2>2, <2>6 DEF After
    <3>2. /\ disk'.mbr = disk.mbr /\ disk'.priHdr = disk.priHdr
          /\ disk'.priEnt = disk.priEnt /\ disk'.bakHdr = disk.bakHdr
      BY <1>0, <2>1, <2>6, PieceDisk, PutBakDisk
    <3>3. InPlace(disk') = InPlace(disk) /\ PriValid(disk') = PriValid(disk)
      BY <3>2 DEF InPlace, PriValid
    <3> QED
      BY <1>a, <2>1, <2>6, <3>1, <3>2, <3>3 DEF Legible
  <2> QED
    BY <2>1, <2>3, <2>4, <2>5, <2>6 DEF Writing
<1>2. CASE WriteGptFails
  <2>1. /\ pc \in Writing /\ disk' \in Partial(disk) /\ pc' = "ready"
        /\ faults' = faults + 1 /\ cuts' = cuts
    BY <1>2 DEF WriteGptFails, Answer
  <2>2. open' = IF pc = "erase" THEN TRUE ELSE open
    BY <1>2 DEF WriteGptFails
  <2>3. CASE pc = "erase"
    <3>1. ~disk'.priHdr.far /\ ~disk'.bakHdr.far
      BY <1>0, <1>b, <2>1, <2>3, PartialDisk, PartlyErasedDisk DEF NoHeader
    <3> QED
      BY <2>1, <2>2, <2>3, <3>1 DEF Legible
  <2>4. CASE pc \in {"mbr", "priHdr", "bakHdr", "priEnt"}
    <3>1. open'
      BY <1>a, <2>2, <2>4 DEF Legible
    <3>2. disk'.priHdr = disk.priHdr /\ disk'.bakHdr = disk.bakHdr
      BY <1>0, <2>1, <2>4, PartialDisk
    <3> QED
      BY <1>b, <2>1, <3>1, <3>2 DEF Legible
  <2>5. CASE pc = "bakEnt"
    <3>1. /\ disk'.mbr = disk.mbr /\ disk'.priHdr = disk.priHdr
          /\ disk'.bakHdr = disk.bakHdr /\ disk'.priEnt = disk.priEnt
      BY <1>0, <2>1, <2>5, PartialDisk
    <3>2. InPlace(disk') = InPlace(disk) /\ PriValid(disk') = PriValid(disk)
      BY <3>1 DEF InPlace, PriValid
    <3>3. open' = open
      BY <2>2, <2>5
    <3> QED
      BY <1>0, <1>a, <1>b, <2>1, <2>5, <3>1, <3>2, <3>3 DEF Legible
  <2> QED
    BY <2>1, <2>3, <2>4, <2>5 DEF Writing
<1>3. CASE Refresh \/ PowerOn
  <2>1. /\ pc \in {"refresh", "off"} /\ pc' \in {"active", "ready"}
        /\ open' = open /\ cuts' = cuts
        /\ \/ disk' = Restored(disk) /\ faults' = faults
           \/ disk' = disk /\ faults' = faults + 1 /\ (pc = "refresh" \/ PriValid(disk))
    BY <1>3 DEF Refresh, PowerOn, Goto, Answer, history
  <2>2. CASE disk' = Restored(disk) /\ faults' = faults
    <3>1. CASE disk'.mbr /\ PriValid(disk') /\ BakValid(disk')
      BY <1>0, <1>b, <2>1, <2>2, <3>1, LegibleRestored DEF Legible
    <3>2. CASE disk'.priHdr = disk.priHdr
      <4>1. InPlace(disk') = InPlace(disk)
        BY <3>2 DEF InPlace
      <4> QED
        BY <1>0, <1>a, <1>b, <2>1, <2>2, <4>1, LegibleRestored DEF Legible
    <3> QED
      BY <1>0, <1>b, <2>2, <3>1, <3>2, LegibleRestored
  <2>3. CASE disk' = disk /\ faults' = faults + 1 /\ (pc = "refresh" \/ PriValid(disk))
    BY <1>0, <1>a, <2>1, <2>3 DEF Legible
  <2> QED
    BY <2>1, <2>2, <2>3
<1>4. CASE RefreshFails
  <2>1. /\ pc = "refresh" /\ pc' = "ready" /\ UNCHANGED <<disk, open, cuts>>
        /\ faults' = faults + 1
    BY <1>4 DEF RefreshFails, Answer
  <2> QED
    BY <1>0, <1>a, <2>1 DEF Legible
<1>5. CASE Store
  <2>1. pc = "store" /\ disk' = Stored(disk) /\ UNCHANGED <<open, faults, cuts>>
    BY <1>5 DEF Store, history, bounds
  <2>2. pc' \in {"store", "ready", ret}
    BY <1>5 DEF Store, CallReturns, Answer, Goto
  <2>3. pc' \notin Writing \cup {"off", "refresh"}
    BY <1>0, <2>2 DEF TypeInv, Writing
  <2>4. /\ disk'.mbr = disk.mbr /\ ~disk'.priHdr.far /\ ~disk'.bakHdr.far
        /\ disk'.priHdr.sig = disk.priHdr.sig /\ disk'.priHdr.my = disk.priHdr.my
        /\ PriValid(disk) => PriValid(disk')
        /\ BakValid(disk) => BakValid(disk')
    <3>1. CASE at = 0
      BY <1>0, <1>b, <2>1, <3>1, StoredDisk DEF PriValid, BakValid, Valid, BakEntries
    <3>2. CASE at = 1
      BY <1>0, <1>b, <2>1, <3>2, StoredDisk DEF PriValid, BakValid, Valid, BakEntries
    <3> QED
      BY <1>0, <3>1, <3>2
  <2>5. InPlace(disk') = InPlace(disk)
    BY <2>4 DEF InPlace
  <2> QED
    BY <1>a, <2>1, <2>3, <2>4, <2>5 DEF Legible, Writing
<1>6. CASE StoreFails
  <2>1. pc = "store" /\ disk' \in HalfStored(disk) /\ UNCHANGED <<open, cuts>>
        /\ faults' = faults + 1
    BY <1>6 DEF StoreFails, history
  <2>4. /\ disk'.mbr = disk.mbr /\ ~disk'.priHdr.far /\ ~disk'.bakHdr.far
        /\ InPlace(disk') = InPlace(disk)
        /\ PriValid(disk) /\ BakValid(disk) => PriValid(disk') \/ BakValid(disk')
    BY <1>0, <1>b, <2>1, HalfLegible
  <2>2. pc' \in {"store", "ready", ret}
    BY <1>6 DEF StoreFails, CallReturns, Answer, Goto
  <2>3. pc' \notin Writing \cup {"off", "refresh"}
    BY <1>0, <2>2 DEF TypeInv, Writing
  <2> QED
    BY <1>0, <1>a, <2>1, <2>3, <2>4 DEF Legible, Writing
<1>7. CASE CmdFlashTable
  <2>1. pc = "ready" /\ UNCHANGED <<disk, open, cuts>>
        /\ pc' \in {"ready", "erase", "refresh"} /\ faults' \in {faults, faults + 1}
    BY <1>7 DEF CmdFlashTable, SetFirstBootLun, Answer
  <2>2. CASE faults' = faults
    BY <1>0, <1>a, <2>1, <2>2 DEF Legible
  <2>3. CASE faults' = faults + 1
    BY <1>0, <1>a, <2>1, <2>3 DEF Legible
  <2> QED
    BY <2>1, <2>2, <2>3
<1>8. CASE PowerOff
  <2>1. /\ pc # "off" /\ pc' = "off" /\ faults' = faults
        /\ \/ pc \in {"ready", "spin"} /\ cuts' = cuts
           \/ cuts' = cuts + 1
    BY <1>8 DEF PowerOff
  <2>2. open' = IF pc = "erase" THEN TRUE ELSE open
    BY <1>8 DEF PowerOff
  <2>3. CASE pc = "erase"
    <3>1. disk' \in Partial(disk)
      BY <1>8, <2>3 DEF PowerOff, Writing
    <3>2. ~disk'.priHdr.far /\ ~disk'.bakHdr.far
      BY <1>0, <1>b, <2>3, <3>1, PartialDisk, PartlyErasedDisk DEF NoHeader, Writing
    <3> QED
      BY <2>1, <2>2, <2>3, <3>2 DEF Legible
  <2>4. CASE pc \in {"mbr", "priHdr", "bakHdr", "priEnt"}
    <3>1. disk' \in Partial(disk) /\ pc \in Writing
      BY <1>8, <2>4 DEF PowerOff, Writing
    <3>2. open'
      BY <1>a, <2>2, <2>4 DEF Legible
    <3>3. disk'.priHdr = disk.priHdr /\ disk'.bakHdr = disk.bakHdr
      BY <1>0, <2>4, <3>1, PartialDisk
    <3> QED
      BY <1>b, <2>1, <3>2, <3>3 DEF Legible
  <2>5. CASE pc = "bakEnt"
    <3>1. disk' \in Partial(disk) /\ pc \in Writing
      BY <1>8, <2>5 DEF PowerOff, Writing
    <3>2. /\ disk'.mbr = disk.mbr /\ disk'.priHdr = disk.priHdr
          /\ disk'.bakHdr = disk.bakHdr /\ disk'.priEnt = disk.priEnt
      BY <1>0, <2>5, <3>1, PartialDisk
    <3>3. InPlace(disk') = InPlace(disk) /\ PriValid(disk') = PriValid(disk)
      BY <3>2 DEF InPlace, PriValid
    <3>4. open' = open /\ cuts' = cuts + 1
      BY <2>1, <2>2, <2>5
    <3> QED
      BY <1>0, <1>a, <1>b, <2>1, <2>5, <3>2, <3>3, <3>4 DEF Legible
  <2>6. CASE pc = "store"
    <3>1. disk' \in HalfStored(disk)
      BY <1>8, <2>6 DEF PowerOff, Writing
    <3>2. open' = open /\ cuts' = cuts + 1
      BY <2>1, <2>2, <2>6
    <3>3. /\ disk'.mbr = disk.mbr /\ ~disk'.priHdr.far /\ ~disk'.bakHdr.far
          /\ InPlace(disk') = InPlace(disk)
          /\ PriValid(disk) /\ BakValid(disk) => PriValid(disk') \/ BakValid(disk')
      BY <1>0, <1>b, <3>1, HalfLegible
    <3> QED
      BY <1>0, <1>a, <2>1, <2>6, <3>2, <3>3 DEF Legible
  <2>7. CASE pc \notin Writing \cup {"store"}
    <3>1. disk' = disk
      BY <1>8, <2>7 DEF PowerOff
    <3>2. open' = open
      BY <2>2, <2>7 DEF Writing
    <3> QED
      BY <1>0, <1>a, <2>1, <2>7, <3>1, <3>2 DEF Legible
  <2> QED
    BY <2>3, <2>4, <2>5, <2>6, <2>7 DEF Writing
<1>9. CASE Talks \/ Edits
  <2>1. /\ UNCHANGED <<disk, open, cuts>> /\ pc \notin Elsewhere
        /\ pc' \notin Elsewhere /\ faults' \in {faults, faults + 1}
    BY <1>9 DEF Talks, Edits, bounds, Elsewhere, Writing
  <2>2. CASE faults' = faults
    BY <1>0, <1>a, <2>1, <2>2 DEF Legible, Elsewhere, Writing
  <2>3. CASE faults' = faults + 1
    BY <1>0, <1>a, <2>1, <2>3 DEF Legible, Elsewhere, Writing
  <2> QED
    BY <2>1, <2>2, <2>3
<1>10. CASE UNCHANGED vars
  BY <1>10, <1>a DEF vars, history, bounds, Legible
<1> QED
  BY <1>1, <1>2, <1>3, <1>4, <1>5, <1>6, <1>7, <1>8, <1>9, <1>10, StepKinds

-----------------------------------------------------------------------------
(* No table has two active slots                                           *)

\* A table marks at most one slot, and marks it with the highest priority.
OneActive(t) ==
  /\ \A s \in Slots : t["boot"][s].act => t["boot"][s].pri = MaxPriority
  /\ ~(t["boot"]["_a"].act /\ t["boot"]["_b"].act)

\* Tables as the build and the loader make them.  Of a host's table that
\* marks both slots, flash boot_x would change which slot is active.
SaneTables ==
  /\ \A p \in Layouts : OneActive(p.t)
  /\ \A i \in Images : OneActive(i.parts.t)

OneActiveEach ==
  /\ OneActive(ram.t) /\ OneActive(img.parts.t)
  /\ OneActive(disk.priEnt.t) /\ OneActive(disk.bakEnt.t) /\ OneActive(disk.farEnt.t)

LEMMA OneActiveOf ==
  ASSUME NEW t \in Table, OneActive(t)
  PROVE  /\ \A s \in Slots : (ActiveOf(t) = s) = t["boot"][s].act
         /\ ActiveOf(t) = NoSlot => ~t["boot"]["_a"].act /\ ~t["boot"]["_b"].act
<1>1. "_a" \in Slots /\ "_b" \in Slots /\ Slots = {"_a", "_b"}
  BY DEF Slots
<1>2. /\ t["boot"]["_a"].act \in BOOLEAN /\ t["boot"]["_b"].act \in BOOLEAN
  BY <1>1, BootEntryType
<1>3. ActiveOf(t) = IF t["boot"]["_b"].act THEN "_b"
                    ELSE IF t["boot"]["_a"].act THEN "_a" ELSE NoSlot
  BY <1>1, <1>2 DEF ActiveOf, Rank, OneActive, MaxPriority
<1> QED
  BY <1>1, <1>2, <1>3 DEF NoSlot, OneActive

LEMMA EmptyOneActive ==
  /\ OneActive(ZeroTable) /\ OneActive(None.t)
  /\ OneActive(Parts("torn").t) /\ OneActive(Parts("mixed").t)
<1>1. OneActive(ZeroTable)
  BY Ranges DEF OneActive, ZeroTable, Slots
<1> QED
  BY <1>1 DEF None, Parts

\* GetActiveSlot on a new table
LEMMA DefaultActive ==
  ASSUME NEW t \in Table, OneActive(t), ActiveOf(t) = NoSlot
  PROVE  /\ OneActive(WithDefault(t)) /\ ActiveOf(WithDefault(t)) = "_a"
<1>0. "_a" \in Slots /\ Slots = {"_a", "_b"}
  BY DEF Slots
<1>1. /\ WithDefault(t) \in Table
      /\ WithDefault(t)["boot"]["_a"].act /\ ~WithDefault(t)["boot"]["_b"].act
      /\ WithDefault(t)["boot"]["_a"].pri = MaxPriority
  BY OneActiveOf, DefaultEntries
<1>2. OneActive(WithDefault(t))
  BY <1>0, <1>1 DEF OneActive
<1> QED
  BY <1>0, <1>1, <1>2, OneActiveOf

\* SetActiveSlot on the slot that is active, and on the other one
LEMMA SetActive ==
  ASSUME NEW t \in Table, NEW s \in Slots,
         NEW w \in {WithActive(t, s, TRUE),
                    WithActiveBits(WithTypesSwapped(WithActive(t, s, TRUE)), s)}
  PROVE  /\ w \in Table /\ OneActive(w) /\ ActiveOf(w) = s
         /\ Att(w["boot"][s]) = FreshAtt
         /\ \A x \in Slots \ {s} : Att(w["boot"][x]) = Att(t["boot"][x])
<1> DEFINE v == WithActive(t, s, TRUE)
           o == OtherSlot(s)
<1>0. "_a" \in Slots /\ "_b" \in Slots /\ o \in Slots /\ o # s /\ Slots = {s, o}
  BY OtherSlotDiffers DEF Slots
<1>1. /\ v \in Table /\ v["boot"][s].act /\ v["boot"][s].pri = MaxPriority
      /\ Att(v["boot"][s]) = FreshAtt
      /\ ~v["boot"][o].act /\ Att(v["boot"][o]) = Att(t["boot"][o])
  BY ActiveEntries
<1>2. /\ w \in Table /\ w["boot"][s].act /\ w["boot"][s].pri = MaxPriority
      /\ Att(w["boot"][s]) = FreshAtt
      /\ ~w["boot"][o].act /\ Att(w["boot"][o]) = Att(t["boot"][o])
  <2>1. CASE w = v
    BY <1>1, <2>1
  <2>2. CASE w = WithActiveBits(WithTypesSwapped(v), s)
    <3> HIDE DEF v, o
    <3> QED
      BY <1>0, <1>1, <2>2, SwitchedEntries
  <2> QED
    BY <2>1, <2>2
<1> HIDE DEF o
<1>3. OneActive(w)
  BY <1>0, <1>2 DEF OneActive
<1> QED
  BY <1>0, <1>2, <1>3, OneActiveOf

\* flash or erase of boot_x does not choose another slot.
LEMMA FlashActive ==
  ASSUME NEW t \in Table, NEW s \in Slots, OneActive(t)
  PROVE  LET w == WithFlashedAttr(t, s) IN
         /\ w \in Table /\ OneActive(w) /\ ActiveOf(w) = ActiveOf(t)
         /\ Att(w["boot"][s]) = FreshAtt
         /\ \A x \in Slots \ {s} : Att(w["boot"][x]) = Att(t["boot"][x])
         /\ ~IsFirstBoot(t) => ~IsFirstBoot(w)
<1> DEFINE w == WithFlashedAttr(t, s)
           o == OtherSlot(s)
<1>0. "_a" \in Slots /\ "_b" \in Slots /\ o \in Slots /\ o # s /\ Slots = {s, o}
  BY OtherSlotDiffers DEF Slots
<1>1. /\ w \in Table /\ w["boot"][o] = t["boot"][o]
      /\ w["boot"][s].act = t["boot"][s].act /\ w["boot"][s].pri = MaxPriority
      /\ Att(w["boot"][s]) = FreshAtt
  BY FlashedEntries
<1> HIDE DEF w, o
<1>2. \A x \in Slots : w["boot"][x].act = t["boot"][x].act
  BY <1>0, <1>1
<1>3. OneActive(w)
  BY <1>0, <1>1, <1>2 DEF OneActive
<1>4. ActiveOf(w) = ActiveOf(t)
  <2>1. ActiveOf(w) \in Slots \cup {NoSlot} /\ ActiveOf(t) \in Slots \cup {NoSlot}
    BY DEF ActiveOf, Slots
  <2> QED
    BY <1>0, <1>1, <1>2, <1>3, <2>1, OneActiveOf
<1>5. ~IsFirstBoot(t) => ~IsFirstBoot(w)
  <2>1. CASE s = "_a"
    BY <1>1, <2>1 DEF IsFirstBoot, MaxPriority
  <2>2. CASE s # "_a"
    BY <1>0, <1>1, <2>2 DEF IsFirstBoot
  <2> QED
    BY <2>1, <2>2
<1> QED
  BY <1>0, <1>1, <1>3, <1>4, <1>5 DEF w

LEMMA OneActiveInit == SaneTables /\ Init => OneActiveEach
<1> SUFFICES ASSUME SaneTables, Init
             PROVE  OneActiveEach
  OBVIOUS
<1>1. OneActive(ram.t)
  BY DEF SaneTables, Init
<1>2. disk.priEnt = ram /\ disk.bakEnt = ram /\ disk.farEnt = None
      /\ img.parts = None
  BY DEF Init, Whole, NoImage
<1> QED
  BY <1>1, <1>2, EmptyOneActive DEF OneActiveEach

\* The entries of a unit and of what the firmware makes of it
EntriesSane(d) ==
  OneActive(d.priEnt.t) /\ OneActive(d.bakEnt.t) /\ OneActive(d.farEnt.t)

LEMMA EntriesRestored ==
  ASSUME NEW d \in Disks, EntriesSane(d)
  PROVE  EntriesSane(Restored(d)) /\ OneActive(Presented(d).t)
<1>1. d.priHdr \in Headers /\ d.priEnt \in Partitions
  BY DiskType
<1>2. OneActive(Presented(d).t)
  BY EmptyOneActive DEF Presented, BakEntries, EntriesSane
<1>3. EntriesSane(Restored(d))
  <2>1. CASE d.mbr /\ PriValid(d) /\ ~BakValid(d)
    <3>1. Restored(d) = PutBak(d, d.priHdr, d.priEnt)
      BY <2>1 DEF Restored
    <3>2. d.priHdr.far \in BOOLEAN
      BY <1>1 DEF Headers
    <3> QED
      BY <1>1, <3>1, <3>2, PutBakDisk DEF EntriesSane
  <2>2. CASE d.mbr /\ ~PriValid(d) /\ BakValid(d)
    BY <2>2, RestoredDisk DEF EntriesSane, BakEntries
  <2>3. CASE ~d.mbr \/ (PriValid(d) /\ BakValid(d)) \/ (~PriValid(d) /\ ~BakValid(d))
    BY <2>3, RestoredDisk
  <2> QED
    BY <2>1, <2>2, <2>3
<1> QED
  BY <1>2, <1>3

LEMMA OneActiveDisk ==
  ASSUME TypeOK, OneActiveEach, [Next]_vars
  PROVE  EntriesSane(disk')
<1>0. /\ TypeInv /\ disk \in Disks /\ disk.bakHdr \in Headers /\ ram \in Partitions
      /\ img.parts \in Partitions /\ disk.priEnt \in Partitions
      /\ disk.bakEnt \in Partitions /\ at \in {0, 1}
  BY DiskType DEF TypeOK, TypeInv
<1>1. EntriesSane(disk) /\ OneActive(img.parts.t) /\ OneActive(ram.t)
  BY DEF OneActiveEach, EntriesSane
<1>2. CASE UNCHANGED disk
  BY <1>1, <1>2
<1>3. CASE pc \in Writing /\ disk' = Piece(disk)
  <2>1. CASE pc = "erase"
    BY <1>0, <1>3, <2>1, PieceDisk, EmptyOneActive DEF EntriesSane, Erased
  <2>2. CASE pc = "bakEnt"
    <3>1. disk.bakHdr.far \in BOOLEAN
      BY <1>0 DEF Headers
    <3> QED
      BY <1>0, <1>1, <1>3, <2>2, <3>1, PieceDisk, PutBakDisk DEF EntriesSane
  <2>3. CASE pc \in {"mbr", "priHdr", "bakHdr", "priEnt"}
    BY <1>0, <1>1, <1>3, <2>3, PieceDisk DEF EntriesSane
  <2> QED
    BY <1>3, <2>1, <2>2, <2>3 DEF Writing
<1>4. CASE pc \in Writing /\ disk' \in Partial(disk)
  <2>1. CASE pc = "erase"
    BY <1>0, <1>1, <1>4, <2>1, PartialDisk, PartlyErasedDisk DEF EntriesSane
  <2>2. CASE pc # "erase"
    BY <1>0, <1>1, <1>4, <2>2, PartialDisk, EmptyOneActive DEF EntriesSane, Writing
  <2> QED
    BY <2>1, <2>2
<1>5. CASE disk' = Restored(disk)
  BY <1>0, <1>1, <1>5, EntriesRestored
<1>6. CASE pc = "store" /\ disk' = Stored(disk)
  <2>1. /\ OneActive(Over(disk.priEnt, ram).t) /\ OneActive(Over(disk.bakEnt, ram).t)
    BY <1>0, <1>1, EmptyOneActive DEF EntriesSane, Over
  <2>2. CASE at = 0
    BY <1>0, <1>1, <1>6, <2>1, <2>2, StoredDisk DEF EntriesSane
  <2>3. CASE at = 1
    BY <1>0, <1>1, <1>6, <2>1, <2>3, StoredDisk DEF EntriesSane
  <2> QED
    BY <1>0, <2>2, <2>3
<1>7. CASE pc = "store" /\ disk' \in HalfStored(disk)
  <2>1. /\ OneActive(Over(disk.priEnt, ram).t) /\ OneActive(Over(disk.bakEnt, ram).t)
    BY <1>0, <1>1, EmptyOneActive DEF EntriesSane, Over
  <2> QED
    BY <1>0, <1>1, <1>7, <2>1, HalfDisk DEF EntriesSane
<1> QED
  BY <1>2, <1>3, <1>4, <1>5, <1>6, <1>7, DiskSteps

LEMMA OneActiveNext ==
  SaneTables /\ TypeOK /\ OneActiveEach /\ [Next]_vars => OneActiveEach'
<1> SUFFICES ASSUME SaneTables, TypeOK, OneActiveEach, [Next]_vars
             PROVE  OneActiveEach'
  OBVIOUS
<1>0. /\ disk \in Disks /\ ram \in Partitions /\ ram.t \in Table /\ slot \in Slots
      /\ EntriesSane(disk)
  BY DEF TypeOK, TypeInv, Partitions, OneActiveEach, EntriesSane
<1>1. img' \in Images \cup {img, NoImage}
  <2>1. CASE CmdFlashTable
    BY <2>1 DEF CmdFlashTable, Answer
  <2>2. CASE WriteGpt \/ DefaultSlot \/ FindPtnActiveSlot \/ SetActiveSlot \/ SetActiveVars
             \/ SpinEnds \/ PowerOn
    BY <2>2 DEF WriteGpt, DefaultSlot, FindPtnActiveSlot, SetActiveSlot, SetActiveVars,
                SpinEnds, PowerOn, args
  <2>3. CASE WriteGptFails \/ RefreshFails \/ PopulateMultislotMetadata \/ SetActiveFails
             \/ FlashBootVars \/ PowerOff \/ CmdSetActive \/ CmdFlashBoot
    BY <2>3 DEF WriteGptFails, RefreshFails, PopulateMultislotMetadata, SetActiveFails,
                FlashBootVars, PowerOff, CmdSetActive, CmdFlashBoot, Answer
  <2>4. CASE Refresh
    BY <2>4 DEF Refresh, Goto, Answer, args
  <2>5. CASE Store \/ StoreFails
    BY <2>5 DEF Store, StoreFails, CallReturns, Goto, Answer, args
  <2>6. CASE UNCHANGED vars
    BY <2>6 DEF vars, args
  <2> QED
    BY <2>1, <2>2, <2>3, <2>4, <2>5, <2>6 DEF Next, Loader
<1>2. OneActive(img'.parts.t)
  BY <1>1, EmptyOneActive DEF SaneTables, OneActiveEach, NoImage
<1>3. OneActive(ram'.t)
  <2>1. CASE ram' = ram
    BY <2>1 DEF OneActiveEach
  <2>2. CASE Refresh \/ PowerOn
    <3>1. ram' = Presented(disk)
      BY <2>2 DEF Refresh, PowerOn
    <3> QED
      BY <1>0, <3>1, EntriesRestored
  <2>3. CASE DefaultSlot
    <3>1. ram' = [ram EXCEPT !.t = WithDefault(ram.t)] /\ Active(ram) = NoSlot
          /\ MultiSlot(ram)
      BY <2>3 DEF DefaultSlot, TypeOK, Placed
    <3>2. OneActive(WithDefault(ram.t)) /\ WithDefault(ram.t) \in Table
      BY <1>0, <3>1, DefaultActive, DefaultEntries DEF Active, OneActiveEach
    <3> QED
      BY <1>0, <3>1, <3>2, EditPartitions
  <2>4. CASE SetActiveSlot
    <3> DEFINE v == WithActive(ram.t, slot, TRUE)
               u == WithActiveBits(WithTypesSwapped(v), slot)
    <3>1. ram' \in {[ram EXCEPT !.t = v], [ram EXCEPT !.t = u]}
      BY <2>4 DEF SetActiveSlot
    <3>2. OneActive(v) /\ OneActive(u) /\ v \in Table /\ u \in Table
      BY <1>0, SetActive
    <3> HIDE DEF v, u
    <3> QED
      BY <1>0, <3>1, <3>2, EditPartitions
  <2>5. CASE CmdFlashBoot
    <3>1. PICK s \in Slots : ram' = [ram EXCEPT !.t = WithFlashedAttr(ram.t, s)]
      BY <2>5 DEF CmdFlashBoot
    <3>2. OneActive(WithFlashedAttr(ram.t, s)) /\ WithFlashedAttr(ram.t, s) \in Table
      BY <1>0, FlashActive DEF OneActiveEach
    <3> QED
      BY <1>0, <3>1, <3>2, EditPartitions
  <2>6. CASE PowerOff
    BY <2>6, EmptyOneActive DEF PowerOff
  <2>7. CASE WriteGpt \/ WriteGptFails \/ RefreshFails \/ FindPtnActiveSlot
             \/ PopulateMultislotMetadata \/ Store \/ StoreFails \/ SetActiveFails
             \/ SetActiveVars \/ FlashBootVars \/ SpinEnds \/ CmdFlashTable
             \/ CmdSetActive \/ UNCHANGED vars
    <3>1. ram' = ram
      BY <2>7 DEF WriteGpt, WriteGptFails, RefreshFails, FindPtnActiveSlot,
         PopulateMultislotMetadata, Store, StoreFails, SetActiveFails, SetActiveVars,
         FlashBootVars, SpinEnds, CmdFlashTable, CmdSetActive, vars
    <3> QED
      BY <2>1, <3>1
  <2> QED
    BY <2>2, <2>3, <2>4, <2>5, <2>6, <2>7 DEF Next, Loader
<1> QED
  BY <1>2, <1>3, OneActiveDisk DEF OneActiveEach, EntriesSane

-----------------------------------------------------------------------------
(* The answers to getvar                                                   *)

\* A table that GetActiveSlot leaves alone
Settled == Active(ram) # NoSlot \/ ~IsFirstBoot(ram.t)

Agrees(s) == fbvars.att[s] = Att(ram.t["boot"][s])

Told == fbvars.cur = Active(ram) /\ \A s \in Slots : Agrees(s)

\* The loader is there, or will be when the table is stored.
At(label) == pc = label \/ (pc = "store" /\ ret = label)

FreshSlot == Att(ram.t["boot"][slot]) = FreshAtt /\ \A s \in Slots \ {slot} : Agrees(s)

Known == faults = 0 /\ ~outdated =>
  /\ pc \in Writing \cup {"refresh", "setActive"} /\ MultiSlot(ram) => Told /\ Settled
  /\ At("ready") /\ MultiSlot(ram) => Told /\ Settled
  /\ At("populate") => Settled
  /\ At("setVars") => Settled /\ FreshSlot
  /\ At("attrVars") => Settled /\ FreshSlot /\ fbvars.cur = Active(ram)
  /\ pc = "spin" => Settled
  /\ ~(pc = "store" /\ ret = "setActive")

LEMMA KnownInit == Init => Known
BY DEF Init, Known, At, Writing

\* After flash of a boot_x or set_active the slot is a fresh one.
LEMMA FreshTold ==
  ASSUME fbvars \in Variables, slot \in Slots, FreshSlot,
         fbvars' \in Variables, ram' = ram,
         fbvars'.cur = Active(ram), fbvars'.att = WithFreshVars.att
  PROVE  Told'
<1>1. /\ fbvars'.att[slot] = FreshAtt
      /\ \A s \in Slots \ {slot} : fbvars'.att[s] = fbvars.att[s]
  BY FreshVarsType
<1>2. \A s \in Slots : fbvars'.att[s] = Att(ram'.t["boot"][s])
  BY <1>1 DEF FreshSlot, Agrees
<1> QED
  BY <1>2 DEF Told, Agrees

\* UpdatePartitionAttributes comes back to where it was called.
LEMMA KnownReturn ==
  ASSUME TypeOK, Known, pc = "store", faults = 0, ~outdated,
         UNCHANGED <<ram, fbvars, outdated>>,
         \/ UNCHANGED <<pc, ret, args>>
         \/ ret = "ready" /\ pc' = "ready" /\ ret' = "ready"
         \/ ret # "ready" /\ pc' = ret /\ UNCHANGED args /\ ret' = "ready"
  PROVE  Known'
<1>0. TypeInv /\ MultiSlot(ram)
  BY DEF TypeOK, Placed
<1>1. UNCHANGED <<Settled, Told>>
  BY DEF Settled, Told, Agrees
<1>2. CASE UNCHANGED <<pc, ret, args>>
  <2>1. UNCHANGED <<FreshSlot, At("ready"), At("populate"), At("setVars"), At("attrVars")>>
    BY <1>2 DEF FreshSlot, Agrees, At, args
  <2> QED
    BY <1>1, <1>2, <2>1 DEF Known, Writing
<1>3. CASE ret = "ready" /\ pc' = "ready"
  BY <1>0, <1>1, <1>3 DEF Known, At, Writing
<1>4. CASE ret # "ready" /\ pc' = ret /\ UNCHANGED args /\ ret' = "ready"
  <2>1. FreshSlot' = FreshSlot
    BY <1>4 DEF FreshSlot, Agrees, args
  <2>2. ret \in {"populate", "setVars", "attrVars"}
    BY <1>0, <1>4 DEF TypeInv, Known
  <2> QED
    BY <1>0, <1>1, <1>4, <2>1, <2>2 DEF Known, At, Writing
<1> QED
  BY <1>2, <1>3, <1>4

LEMMA KnownNext ==
  TypeOK /\ OneActiveEach /\ Current /\ Known /\ [Next]_vars => Known'
<1> SUFFICES ASSUME TypeOK, OneActiveEach, Current, Known, [Next]_vars,
                    faults' = 0, ~outdated'
             PROVE  Known'
  BY DEF Known
<1>0. /\ TypeInv /\ faults \in Nat /\ ram \in Partitions /\ ram.t \in Table
      /\ slot \in Slots /\ fbvars \in Variables /\ OneActive(ram.t) /\ TypeInv'
  BY TypeNext DEF TypeOK, TypeInv, Partitions, OneActiveEach
<1>1. ASSUME faults = 0, ~outdated, pc' \in Writing \cup {"refresh"},
             pc \in Writing \cup {"ready"}, UNCHANGED <<ram, fbvars, ret>>
      PROVE  Known'
  <2>1. UNCHANGED <<Settled, Told, MultiSlot(ram)>>
    BY <1>1 DEF Settled, Told, Agrees
  <2> QED
    BY <1>1, <2>1 DEF Known, At, Writing
<1>2. ASSUME faults = 0, ~outdated, pc' = "ready",
             pc \in {"ready", "setActive"}, UNCHANGED <<ram, fbvars, ret>>
      PROVE  Known'
  <2>1. UNCHANGED <<Settled, Told, MultiSlot(ram)>>
    BY <1>2 DEF Settled, Told, Agrees
  <2> QED
    BY <1>2, <2>1 DEF Known, At, Writing
<1>3. CASE WriteGpt
  <2>1. pc \in Writing /\ pc' = After(pc)
        /\ UNCHANGED <<ram, fbvars, ret, faults, outdated>>
    BY <1>3 DEF WriteGpt, call, bounds
  <2> QED
    BY <1>1, <2>1, LabelKinds
<1>4. CASE WriteGptFails \/ RefreshFails \/ StoreFails
  <2>1. faults' = faults + 1
    BY <1>4 DEF WriteGptFails, RefreshFails, StoreFails
  <2> QED
    BY <1>0, <2>1
<1>5. CASE Refresh
  <2>1. pc = "refresh" /\ ram' = Presented(disk) /\ outdated' = outdated /\ ret' = ret
        /\ lun' = lun
    BY <1>5 DEF Refresh, history, call, static
  <2>2. faults' = faults
    BY <1>0, <1>5 DEF Refresh
  <2>3. PICK updated \in BOOLEAN :
          /\ lun # BadLun => updated = (ram'.name \in BootNames)
          /\ \/ updated /\ MultiSlot(ram') /\ pc' = "active"
             \/ /\ ~(updated /\ MultiSlot(ram')) /\ pc' = "ready"
                /\ fbvars' = IF updated THEN Cleared ELSE fbvars
    BY <1>5 DEF Refresh, Goto, Answer
  <2>4. CASE pc' = "active"
    BY <2>1, <2>4 DEF Known, At, Writing
  <2>5. CASE pc' = "ready" /\ ~MultiSlot(ram')
    BY <2>5 DEF Known, At, Writing
  <2>6. CASE pc' = "ready" /\ MultiSlot(ram')
    <3>1. ~updated /\ fbvars' = fbvars
      BY <2>3, <2>6
    <3>2. lun = BadLun
      BY <2>3, <2>6, <3>1, NamesAre DEF MultiSlot
    <3>3. ~Found(lun)
      BY <3>2 DEF Found, BadLun, NoLun, Home
    <3>4. ram' = ram
      BY <2>1, <2>2, <3>3 DEF Current
    <3>5. UNCHANGED <<Settled, Told, MultiSlot(ram)>>
      BY <3>1, <3>4 DEF Settled, Told, Agrees
    <3> QED
      BY <2>1, <2>2, <2>6, <3>5 DEF Known, At, Writing
  <2> QED
    BY <2>3, <2>4, <2>5, <2>6
<1>6. CASE DefaultSlot
  <2>1. /\ pc \in {"active", "setActive"} /\ ~Settled /\ MultiSlot(ram)
        /\ ram' = [ram EXCEPT !.t = WithDefault(ram.t)]
        /\ pc' = "store" /\ ret' = IF pc = "active" THEN "populate" ELSE pc
        /\ UNCHANGED <<faults, outdated>>
    BY <1>6 DEF DefaultSlot, StoreThen, Settled, TypeOK, Placed, history, bounds
  <2>2. pc = "active" /\ ret' = "populate"
    BY <2>1 DEF Known
  <2>3. MultiSlot(ram') /\ Active(ram') = "_a"
    <3>1. ActiveOf(ram.t) = NoSlot
      BY <2>1 DEF Settled, Active
    <3>2. ActiveOf(WithDefault(ram.t)) = "_a"
      BY <1>0, <3>1, DefaultActive
    <3>3. ram'.name = ram.name /\ ram'.t = WithDefault(ram.t)
      BY <1>0, <2>1, DefaultEntries, EditPartitions
    <3> QED
      BY <2>1, <3>2, <3>3 DEF Active, MultiSlot
  <2>4. Settled'
    BY <2>3 DEF Settled, NoSlot
  <2> QED
    BY <2>1, <2>2, <2>4 DEF Known, At, Writing
<1>7. CASE FindPtnActiveSlot
  <2>1. /\ Settled /\ pc' = "populate" /\ UNCHANGED <<ram, ret>>
    BY <1>7 DEF FindPtnActiveSlot, Settled, call
  <2> QED
    BY <2>1 DEF Known, At, Writing, Settled
<1>8. CASE PopulateMultislotMetadata
  <2>1. /\ pc = "populate" /\ ~fbvars.pop /\ pc' = "ready"
        /\ UNCHANGED <<ram, ret, outdated, faults>>
        /\ fbvars' = [pop |-> TRUE, info |-> TRUE, cur |-> Active(ram),
                      att |-> [s \in Slots |-> Att(ram.t["boot"][s])]]
    BY <1>8 DEF PopulateMultislotMetadata, Answer, call, bounds
  <2>2. Told'
    BY <2>1 DEF Told, Agrees
  <2>3. Settled'
    BY <2>1 DEF Known, At, Settled
  <2> QED
    BY <2>1, <2>2, <2>3 DEF Known, At, Writing
<1>9. CASE Store
  <2>1. /\ pc = "store" /\ UNCHANGED <<ram, fbvars, outdated, faults>>
        /\ \/ UNCHANGED <<pc, ret, args>>
           \/ ret = "ready" /\ pc' = "ready" /\ ret' = "ready"
           \/ ret # "ready" /\ pc' = ret /\ UNCHANGED args /\ ret' = "ready"
    BY <1>9 DEF Store, CallReturns, Answer, Goto, history, bounds, args
  <2> QED
    BY <2>1, KnownReturn
<1>10. CASE CmdFlashTable
  <2>1. /\ pc = "ready" /\ pc' \in {"ready", "erase", "refresh"}
        /\ UNCHANGED <<ram, fbvars, ret, faults, outdated>>
    BY <1>0, <1>10 DEF CmdFlashTable, SetFirstBootLun, Answer, call
  <2> QED
    BY <1>1, <1>2, <2>1 DEF Writing
<1>11. CASE CmdSetActive
  <2>1. /\ pc = "ready" /\ pc' \in {"setActive", "ready"}
        /\ UNCHANGED <<ram, fbvars, ret, faults, outdated>>
    BY <1>11 DEF CmdSetActive, Answer, call, history, bounds
  <2>2. CASE pc' = "ready"
    BY <1>2, <2>1, <2>2
  <2>3. CASE pc' = "setActive"
    <3>1. UNCHANGED <<Settled, Told, MultiSlot(ram)>>
      BY <2>1 DEF Settled, Told, Agrees
    <3> QED
      BY <2>1, <2>3, <3>1 DEF Known, At, Writing
  <2> QED
    BY <2>1, <2>2, <2>3
<1>12. CASE SetActiveSlot
  <2> DEFINE v == WithActive(ram.t, slot, TRUE)
             u == WithActiveBits(WithTypesSwapped(v), slot)
  <2>1. /\ pc = "setActive" /\ pc' = "store" /\ ret' = "setVars"
        /\ ram' \in {[ram EXCEPT !.t = v], [ram EXCEPT !.t = u]}
        /\ UNCHANGED <<fbvars, slot, outdated>>
    BY <1>12 DEF SetActiveSlot, StoreThen, args
  <2>9. faults' = faults
    BY <1>0, <1>12 DEF SetActiveSlot, SwitchBootLun
  <2>2. PICK w \in {v, u} : ram' = [ram EXCEPT !.t = w]
    BY <2>1
  <2>3. /\ w \in Table /\ ActiveOf(w) = slot /\ Att(w["boot"][slot]) = FreshAtt
        /\ \A x \in Slots \ {slot} : Att(w["boot"][x]) = Att(ram.t["boot"][x])
    BY <1>0, <2>2, SetActive
  <2>4. ram'.name = ram.name /\ ram'.t = w
    BY <1>0, <2>2, <2>3, EditPartitions
  <2>5. MultiSlot(ram) /\ Told
    BY <2>1, <2>9 DEF TypeOK, Placed, Known
  <2>6. Active(ram') = slot
    BY <2>3, <2>4, <2>5 DEF Active, MultiSlot
  <2>7. Settled'
    BY <1>0, <2>6 DEF Settled, Slots, NoSlot
  <2>8. FreshSlot'
    BY <2>1, <2>3, <2>4, <2>5 DEF FreshSlot, Told, Agrees
  <2> HIDE DEF v, u
  <2> QED
    BY <2>1, <2>7, <2>8 DEF Known, At, Writing
<1>13. CASE SetActiveFails
  <2>1. /\ pc = "setActive" /\ pc' = "ready"
        /\ UNCHANGED <<ram, fbvars, ret, faults, outdated>>
    BY <1>13 DEF SetActiveFails, Answer, call, history, bounds
  <2> QED
    BY <1>2, <2>1
<1>14. CASE SetActiveVars
  <2>1. pc = "setVars" /\ UNCHANGED <<ram, slot, faults, outdated>>
    BY <1>14 DEF SetActiveVars, args, history, bounds
  <2>2. Settled /\ FreshSlot
    BY <2>1 DEF Known, At
  <2>3. CASE form = "bare" /\ fbvars.info
    <3>1. /\ fbvars' = [WithFreshVars EXCEPT !.cur = Active(ram)]
          /\ pc' = "store" /\ ret' = "ready"
      BY <1>14, <2>3 DEF SetActiveVars, StoreThen
    <3>2. /\ fbvars' \in Variables /\ fbvars'.cur = Active(ram)
          /\ fbvars'.att = WithFreshVars.att
      BY <1>0, <3>1, FreshVarsType, CurVarsType, ActiveType
    <3>3. Told'
      BY <1>0, <2>1, <2>2, <3>2, FreshTold
    <3>4. Settled'
      BY <2>1, <2>2 DEF Settled
    <3> QED
      BY <3>1, <3>3, <3>4 DEF Known, At, Writing
  <2>4. CASE ~(form = "bare" /\ fbvars.info)
    <3>1. pc' = "spin"
      BY <1>14, <2>4 DEF SetActiveVars
    <3>2. Settled'
      BY <2>1, <2>2 DEF Settled
    <3> QED
      BY <3>1, <3>2 DEF Known, At, Writing
  <2> QED
    BY <2>3, <2>4
<1>15. CASE SpinEnds
  BY <1>15 DEF SpinEnds
<1>16. CASE CmdFlashBoot
  <2>1. /\ pc = "ready" /\ MultiSlot(ram) /\ pc' = "store" /\ ret' = "attrVars"
        /\ UNCHANGED <<fbvars, faults, outdated>>
    BY <1>16 DEF CmdFlashBoot, StoreThen, history, bounds
  <2>2. PICK s \in Slots : slot' = s /\ ram' = [ram EXCEPT !.t = WithFlashedAttr(ram.t, s)]
    BY <1>16 DEF CmdFlashBoot
  <2> DEFINE w == WithFlashedAttr(ram.t, s)
  <2>3. /\ w \in Table /\ ActiveOf(w) = ActiveOf(ram.t) /\ Att(w["boot"][s]) = FreshAtt
        /\ \A x \in Slots \ {s} : Att(w["boot"][x]) = Att(ram.t["boot"][x])
        /\ ~IsFirstBoot(ram.t) => ~IsFirstBoot(w)
    BY <1>0, FlashActive
  <2> HIDE DEF w
  <2>4. ram'.name = ram.name /\ ram'.t = w
    BY <1>0, <2>2, <2>3, EditPartitions DEF w
  <2>5. Told /\ Settled
    BY <2>1 DEF Known, At
  <2>6. Active(ram') = Active(ram)
    BY <2>3, <2>4 DEF Active, MultiSlot
  <2>7. Settled' /\ fbvars'.cur = Active(ram')
    BY <2>1, <2>3, <2>4, <2>5, <2>6 DEF Settled, Told
  <2>8. FreshSlot'
    BY <2>1, <2>2, <2>3, <2>4, <2>5 DEF FreshSlot, Told, Agrees
  <2> QED
    BY <2>1, <2>7, <2>8 DEF Known, At, Writing
<1>17. CASE FlashBootVars
  <2>1. /\ pc = "attrVars" /\ pc' = "ready" /\ fbvars' = WithFreshVars
        /\ UNCHANGED <<ram, faults, outdated, ret>>
    BY <1>17 DEF FlashBootVars, Answer, call, history, bounds
  <2>2. Settled /\ FreshSlot /\ fbvars.cur = Active(ram)
    BY <2>1 DEF Known, At
  <2>3. Told'
    BY <1>0, <2>1, <2>2, FreshTold, FreshVarsType
  <2>4. Settled'
    BY <2>1, <2>2 DEF Settled
  <2> QED
    BY <2>1, <2>3, <2>4 DEF Known, At, Writing
<1>18. CASE PowerOff
  BY <1>18 DEF PowerOff, Known, At, Writing
<1>19. CASE PowerOn
  <2>1. pc' = IF MultiSlot(ram') THEN "active" ELSE "ready"
    BY <1>19 DEF PowerOn
  <2> QED
    BY <2>1 DEF Known, At, Writing
<1>20. CASE UNCHANGED vars
  BY <1>20 DEF vars, call, args, history, bounds, Known, At, Told, Agrees, Settled, FreshSlot
<1> QED
  BY <1>3, <1>4, <1>5, <1>6, <1>7, <1>8, <1>9, <1>10, <1>11, <1>12, <1>13, <1>14,
     <1>15, <1>16, <1>17, <1>18, <1>19, <1>20 DEF Next, Loader

-----------------------------------------------------------------------------
(* The boot unit                                                           *)

LunOfActive(r) == IF Active(r) = "_b" THEN 2 ELSE 1

LunSet == ufs /\ Quiet /\ ~forced =>
  bootLun = LunOfActive(IF pc = "off" THEN Presented(disk) ELSE ram)

\* Only a failing request can leave no boot unit, which set_active would keep.
SomeLun == faults = 0 => bootLun # 0

LEMMA SomeLunInit == Init => SomeLun
BY DEF Init, SomeLun

LEMMA SomeLunNext == TypeOK /\ SomeLun /\ [Next]_vars => SomeLun'
<1> SUFFICES ASSUME TypeOK, SomeLun, [Next]_vars, faults' = 0
             PROVE  bootLun' # 0
  BY DEF SomeLun
<1>0. faults \in Nat
  BY DEF TypeOK, TypeInv
<1>1. faults = 0 => bootLun # 0
  BY DEF SomeLun
<1>2. CASE CmdFlashTable
  BY <1>0, <1>1, <1>2 DEF CmdFlashTable, SetFirstBootLun
<1>3. CASE SetActiveSlot
  BY <1>0, <1>1, <1>3 DEF SetActiveSlot, SwitchBootLun, SwitchedLun, LunFor
<1>4. CASE WriteGpt \/ DefaultSlot \/ FindPtnActiveSlot \/ PopulateMultislotMetadata
           \/ Store \/ SetActiveFails \/ SetActiveVars \/ FlashBootVars
  BY <1>1, <1>4 DEF WriteGpt, DefaultSlot, FindPtnActiveSlot, PopulateMultislotMetadata,
     Store, SetActiveFails, SetActiveVars, FlashBootVars, static, bounds
<1>5. CASE WriteGptFails \/ RefreshFails \/ StoreFails
  <2>1. faults' = faults + 1
    BY <1>5 DEF WriteGptFails, RefreshFails, StoreFails
  <2> QED
    BY <1>0, <2>1
<1>6. CASE Refresh \/ PowerOn
  BY <1>0, <1>1, <1>6 DEF Refresh, PowerOn, static
<1>7. CASE CmdSetActive \/ CmdFlashBoot \/ SpinEnds \/ PowerOff
  BY <1>1, <1>7 DEF CmdSetActive, CmdFlashBoot, SpinEnds, PowerOff, static, bounds
<1>8. CASE UNCHANGED vars
  BY <1>1, <1>8 DEF vars, static, bounds
<1> QED
  BY <1>2, <1>3, <1>4, <1>5, <1>6, <1>7, <1>8 DEF Next, Loader

LEMMA LunInit == Init => LunSet
<1> SUFFICES ASSUME Init
             PROVE  LunSet
  OBVIOUS
<1>1. disk = Whole(ram) /\ pc = "off" /\ bootLun = LunOfActive(ram)
  BY DEF Init, LunOfActive
<1>2. Presented(disk) = ram
  BY <1>1 DEF Whole, Header, Presented, PriValid, Valid
<1> QED
  BY <1>1, <1>2 DEF LunSet

LEMMA LunNext ==
  TypeOK /\ OneActiveEach /\ Current /\ SomeLun /\ LunSet /\ [Next]_vars => LunSet'
<1> SUFFICES ASSUME TypeOK, OneActiveEach, Current, SomeLun, LunSet, [Next]_vars,
                    ufs', Quiet', ~forced'
             PROVE  LunSet'
  BY DEF LunSet
<1>0. /\ TypeInv /\ faults \in Nat /\ cuts \in Nat /\ ram \in Partitions
      /\ ram.t \in Table /\ slot \in Slots /\ OneActive(ram.t) /\ disk \in Disks
  BY DEF TypeOK, TypeInv, Partitions, OneActiveEach
<1>a. ufs' = ufs
  BY StepKinds DEF WriteGpt, WriteGptFails, Refresh, RefreshFails, Store, StoreFails,
     CmdFlashTable, PowerOff, PowerOn, Talks, Edits, vars
<1>1. ASSUME pc # "off", pc' # "off",
             UNCHANGED <<bootLun, forced, faults, cuts>>,
             Active(ram') = Active(ram)
                \/ (Active(ram) = NoSlot /\ Active(ram') = "_a")
      PROVE  LunSet'
  BY <1>1, <1>a DEF LunSet, LunOfActive, Quiet, NoSlot
<1>2. CASE WriteGpt
  <2>1. pc \in Writing /\ forced' = forced
    BY <1>2 DEF WriteGpt
  <2> QED
    BY <2>1 DEF TypeOK, Placed
<1>3. CASE WriteGptFails \/ RefreshFails \/ StoreFails
  <2>1. faults' = faults + 1
    BY <1>3 DEF WriteGptFails, RefreshFails, StoreFails
  <2> QED
    BY <1>0, <2>1 DEF Quiet
<1>4. CASE Refresh
  <2>1. pc = "refresh" /\ forced' = forced
    BY <1>4 DEF Refresh, history
  <2> QED
    BY <2>1 DEF TypeOK, Placed
<1>5. CASE CmdFlashTable
  <2>1. /\ pc = "ready" /\ pc' \in {"ready", "erase", "refresh"}
        /\ UNCHANGED <<ram, faults, cuts>>
        /\ UNCHANGED <<bootLun, forced>> \/ forced'
    BY <1>0, <1>5 DEF CmdFlashTable, SetFirstBootLun, Quiet, Answer
  <2> QED
    BY <1>1, <2>1
<1>6. CASE DefaultSlot
  <2>1. /\ pc # "off" /\ pc' = "store" /\ UNCHANGED <<bootLun, forced, faults, cuts>>
        /\ Active(ram) = NoSlot /\ MultiSlot(ram)
        /\ ram' = [ram EXCEPT !.t = WithDefault(ram.t)]
    BY <1>6 DEF DefaultSlot, StoreThen, TypeOK, Placed, static, history, bounds
  <2>2. ActiveOf(WithDefault(ram.t)) = "_a"
    BY <1>0, <2>1, DefaultActive DEF Active
  <2>3. ram'.name = ram.name /\ ram'.t = WithDefault(ram.t)
    BY <1>0, <2>1, DefaultEntries, EditPartitions
  <2>4. Active(ram') = "_a"
    BY <2>1, <2>2, <2>3 DEF Active, MultiSlot
  <2> QED
    BY <1>1, <2>1, <2>4
<1>7. CASE SetActiveSlot
  <2> DEFINE v == WithActive(ram.t, slot, TRUE)
             u == WithActiveBits(WithTypesSwapped(v), slot)
  <2>0. ufs
    BY <1>a
  <2>1. /\ pc = "setActive" /\ pc' = "store"
        /\ ram' \in {[ram EXCEPT !.t = v], [ram EXCEPT !.t = u]}
    BY <1>7, <2>0 DEF SetActiveSlot, StoreThen
  <2>6. bootLun' = LunFor(slot)
    BY <1>0, <1>7, <2>0 DEF SetActiveSlot, SwitchBootLun, SwitchedLun, SomeLun, Quiet
  <2>2. PICK w \in {v, u} : ram' = [ram EXCEPT !.t = w]
    BY <2>1
  <2>3. w \in Table /\ ActiveOf(w) = slot
    BY <1>0, <2>2, SetActive
  <2>4. ram'.name = ram.name /\ ram'.t = w
    BY <1>0, <2>2, <2>3, EditPartitions
  <2>5. Active(ram') = slot
    BY <2>1, <2>3, <2>4 DEF Active, MultiSlot, TypeOK, Placed
  <2> HIDE DEF v, u
  <2> QED
    BY <1>0, <2>1, <2>5, <2>6 DEF LunSet, LunOfActive, LunFor, Slots
<1>8. CASE CmdFlashBoot
  <2>1. /\ pc # "off" /\ pc' = "store" /\ UNCHANGED <<bootLun, forced, faults, cuts>>
    BY <1>8 DEF CmdFlashBoot, StoreThen, static, history, bounds
  <2>2. PICK s \in Slots : ram' = [ram EXCEPT !.t = WithFlashedAttr(ram.t, s)]
    BY <1>8 DEF CmdFlashBoot
  <2> DEFINE w == WithFlashedAttr(ram.t, s)
  <2>3. w \in Table /\ ActiveOf(w) = ActiveOf(ram.t)
    BY <1>0, FlashActive
  <2> HIDE DEF w
  <2>4. ram'.name = ram.name /\ ram'.t = w
    BY <1>0, <2>2, <2>3, EditPartitions DEF w
  <2>5. Active(ram') = Active(ram)
    BY <2>3, <2>4 DEF Active, MultiSlot
  <2> QED
    BY <1>1, <2>1, <2>5
<1>9. CASE PowerOff
  <2>1. /\ pc' = "off" /\ forced' = forced /\ bootLun' = bootLun /\ faults' = faults
        /\ \/ pc \in {"ready", "spin"} /\ cuts' = cuts
           \/ cuts' = cuts + 1
    BY <1>9 DEF PowerOff
  <2>2. pc \in {"ready", "spin"} /\ cuts' = cuts
    BY <1>0, <2>1 DEF Quiet
  <2>3. disk' = disk
    BY <1>9, <2>2 DEF PowerOff, Writing
  <2>4. ram = Presented(disk)
    BY <2>1, <2>2 DEF Quiet, Current, Elsewhere, Writing
  <2> QED
    BY <1>a, <2>1, <2>2, <2>3, <2>4 DEF LunSet, Quiet
<1>10. CASE PowerOn
  <2>1. /\ pc = "off" /\ pc' # "off" /\ ram' = Presented(disk)
        /\ UNCHANGED <<bootLun, forced, cuts>>
    BY <1>10 DEF PowerOn, static, history
  <2>2. faults' = faults
    BY <1>0, <1>10 DEF PowerOn, Quiet
  <2> QED
    BY <1>a, <2>1, <2>2 DEF LunSet, Quiet
<1>11. CASE Store
  <2>1. /\ pc = "store" /\ UNCHANGED <<bootLun, forced, faults, cuts, ram>>
        /\ pc' \in {"store", "ready", ret}
    BY <1>11 DEF Store, CallReturns, Answer, Goto, static, history, bounds
  <2>2. pc' # "off"
    BY <1>0, <2>1 DEF TypeInv
  <2> QED
    BY <1>1, <2>1, <2>2
<1>12. CASE FindPtnActiveSlot \/ PopulateMultislotMetadata \/ CmdSetActive
            \/ SetActiveFails \/ SetActiveVars \/ SpinEnds \/ FlashBootVars
  <2>1. /\ pc # "off" /\ pc' # "off" /\ UNCHANGED <<bootLun, forced, faults, cuts, ram>>
    BY <1>12 DEF FindPtnActiveSlot, PopulateMultislotMetadata, CmdSetActive,
       SetActiveFails, SetActiveVars, SpinEnds, FlashBootVars, StoreThen, Answer,
       static, history, bounds
  <2> QED
    BY <1>1, <2>1
<1>13. CASE UNCHANGED vars
  BY <1>13, <1>a DEF vars, static, history, bounds, LunSet, Quiet
<1> QED
  BY <1>2, <1>3, <1>4, <1>5, <1>6, <1>7, <1>8, <1>9, <1>10, <1>11, <1>12, <1>13
     DEF Next, Loader

-----------------------------------------------------------------------------
(* The theorems                                                            *)

\* The part that holds whatever tables the host sends
TableInv == TypeOK /\ Described /\ Written /\ OneLayout /\ Current /\ Legible

LEMMA TableInvHolds == Spec => []TableInv
<1>1. Init => TableInv
  BY TypeInit, DescribedInit, WrittenInit, LayoutInit, CurrentInit, LegibleInit
     DEF TableInv
<1>2. TableInv /\ [Next]_vars => TableInv'
  BY TypeNext, DescribedNext, WrittenNext, LayoutNext, CurrentNext, LegibleNext
     DEF TableInv
<1> QED
  BY <1>1, <1>2, PTL DEF Spec

\* ... and the part about the active slot, for tables with at most one
SlotInv == TableInv /\ OneActiveEach /\ Known /\ SomeLun /\ LunSet

LEMMA SlotInvHolds == SaneTables => (Spec => []SlotInv)
<1> SUFFICES ASSUME SaneTables
             PROVE  Spec => []SlotInv
  OBVIOUS
<1>1. Init => TableInv
  BY TypeInit, DescribedInit, WrittenInit, LayoutInit, CurrentInit, LegibleInit
     DEF TableInv
<1>2. Init => SlotInv
  BY <1>1, OneActiveInit, KnownInit, SomeLunInit, LunInit DEF SlotInv
<1>3. TableInv /\ [Next]_vars => TableInv'
  BY TypeNext, DescribedNext, WrittenNext, LayoutNext, CurrentNext, LegibleNext
     DEF TableInv
<1>4. SlotInv /\ [Next]_vars => SlotInv'
  BY <1>3, OneActiveNext, KnownNext, SomeLunNext, LunNext DEF SlotInv, TableInv
<1> QED
  BY <1>2, <1>4, PTL DEF Spec

\* The state of a flash and of the table it writes has its type: the copies
\* of UpdatePartitionAttributes, the headers, RAM and the getvar variables.
THEOREM TableTypeOK == Spec => []TypeOK
<1>1. TableInv => TypeOK
  BY DEF TableInv
<1> QED
  BY <1>1, TableInvHolds, PTL

\* WriteGpt, UpdatePartitionAttributes and the repairing firmware: once the
\* new primary copy is complete, eMMC presents a table after any one failing
\* request or power cut.
THEOREM Readable == Spec => []TableReadable
<1>1. ASSUME TableInv
      PROVE  TableReadable
  <2>1. SUFFICES ASSUME ~ufs, ~open, faults + cuts <= 1, InPlace(disk)
                 PROVE  Presented(disk).name # "none"
    BY DEF TableReadable, InPlace
  <2>2. disk.mbr /\ (PriValid(disk) \/ BakValid(disk))
    BY <1>1, <2>1 DEF TableInv, Legible
  <2>3. Described
    BY <1>1 DEF TableInv
  <2> QED
    BY <2>2, <2>3 DEF Presented, PriValid, BakValid, Valid, Described, Describes
<1> QED
  BY <1>1, TableInvHolds, PTL

\* RamFollowsDisk: between two commands PtnEntries is the table that the
\* firmware presents, as long as no request failed.
THEOREM RamFollows == Spec => []RamFollowsDisk
<1>1. TableInv => RamFollowsDisk
  BY DEF TableInv, Current, RamFollowsDisk, Elsewhere, Writing
<1> QED
  BY <1>1, TableInvHolds, PTL

\* TablesWhole: UpdatePartitionAttributes puts attributes of one layout into
\* entries of another one only after a flash that failed half way.
THEOREM WholeTables == Spec => []TablesWhole
<1>1. ASSUME TableInv, ~failed
      PROVE  Presented(disk).name # "mixed"
  <2>1. OneLayout
    BY <1>1 DEF TableInv
  <2> QED
    BY <1>1, <2>1, NoneType
       DEF OneLayout, SameLayout, Presented, BakValid, Valid
<1>2. TableInv => TablesWhole
  BY <1>1 DEF TablesWhole
<1> QED
  BY <1>2, TableInvHolds, PTL

\* FlashedTablePresented: after WriteGpt and ReenumeratePartTable the firmware
\* presents the image, although PatchGpt gives the backup header the wrong
\* address.
THEOREM FlashPresented == Spec => FlashedTablePresented
<1>1. ASSUME TableInv, [Next]_vars, pc = "refresh", reply' # "fail", pc' # "off",
             Found(lun), img.home, ~UNCHANGED vars
      PROVE  ram' = img.parts /\ Presented(disk') = img.parts
  <2>1. Refresh
    <3>1. CASE RefreshFails
      BY <1>1, <3>1 DEF RefreshFails, Answer
    <3>2. ~PowerOff
      BY <1>1 DEF PowerOff
    <3>3. ~WriteGpt /\ ~WriteGptFails /\ ~Store /\ ~StoreFails /\ ~CmdFlashTable /\ ~PowerOn
      BY <1>1 DEF WriteGpt, WriteGptFails, Store, StoreFails, CmdFlashTable, PowerOn, Writing
    <3>4. ~Talks /\ ~Edits
      BY <1>1 DEF Talks, Edits, Elsewhere
    <3>5. TypeOK
      BY <1>1 DEF TableInv
    <3> QED
      BY <1>1, <3>1, <3>2, <3>3, <3>4, <3>5, StepKinds
  <2>2. disk' \in {disk, Restored(disk)} /\ ram' = Presented(disk)
    BY <2>1 DEF Refresh
  <2>3. /\ disk.mbr /\ disk.priHdr = PatchedPri /\ disk.priEnt = img.parts
        /\ disk \in Disks
    BY <1>1 DEF TableInv, Written, TypeOK, TypeInv
  <2>4. Presented(disk) = img.parts
    BY <1>1, <2>3 DEF Presented, PriValid, Valid, PatchedPri, Header
  <2> QED
    BY <2>2, <2>3, <2>4, RestoredDisk
<1>2. TableInv /\ [Next]_vars =>
        [(pc = "refresh" /\ reply' # "fail" /\ pc' # "off" /\ Found(lun) /\ img.home)
           => ram' = img.parts /\ Presented(disk') = img.parts]_vars
  BY <1>1
<1> QED
  BY <1>2, TableInvHolds, PTL DEF Spec, FlashedTablePresented

\* VarsFollowTable: what getvar answers for the slots is what the table says,
\* for tables that do not mark two slots as active.
THEOREM VarsFollow == SaneTables => (Spec => []VarsFollowTable)
<1>1. SlotInv => VarsFollowTable
  BY DEF SlotInv, Known, Told, Agrees, At, VarsFollowTable
<1> QED
  BY <1>1, SlotInvHolds, PTL

\* BootLunFollowsActive: set_active leaves the UFS boot unit with the active
\* slot, for tables that do not mark two slots as active.
THEOREM LunFollows == SaneTables => (Spec => []BootLunFollowsActive)
<1>1. SlotInv => BootLunFollowsActive
  <2> SUFFICES ASSUME SlotInv, ufs, Quiet, pc = "ready", ~forced, Active(ram) # NoSlot
               PROVE  bootLun = LunFor(Active(ram))
    BY DEF BootLunFollowsActive
  <2>1. bootLun = LunOfActive(ram)
    BY DEF SlotInv, LunSet
  <2> QED
    BY <2>1, ActiveType DEF LunOfActive, LunFor, Slots
<1> QED
  BY <1>1, SlotInvHolds, PTL
=============================================================================
