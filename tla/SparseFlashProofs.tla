-------------------------- MODULE SparseFlashProofs --------------------------
(***************************************************************************)
(* What SparseFlash promises holds for every set of images, every size of  *)
(* the blocks of an image, of the device and of the partition, and every   *)
(* number of faults.  The inductive invariant says how far the flash has   *)
(* come: which blocks of the image the chunk stands for, where on the      *)
(* device the next request begins, and that everything before it is there. *)
(***************************************************************************)
EXTENDS SparseFlash, TLAPS

-----------------------------------------------------------------------------
(* Products and quotients of integers, for sizes in blocks                 *)

LEMMA Distribute ==
  \A a, b, c \in Int : (a + b) * c = a * c + b * c /\ (a - b) * c = a * c - b * c
  OBVIOUS

LEMMA TimesMonotone ==
  ASSUME NEW a \in Int, NEW b \in Int, NEW c \in Nat, a <= b
  PROVE a * c <= b * c
  OBVIOUS

LEMMA TimesStrict ==
  ASSUME NEW a \in Int, NEW b \in Int, NEW c \in Nat, a < b
  PROVE a * c + c <= b * c
<1>1. a + 1 <= b
  OBVIOUS
<1>2. (a + 1) * c <= b * c
  BY <1>1, TimesMonotone
<1>3. (a + 1) * c = a * c + 1 * c
  BY Distribute
<1> QED
  BY <1>2, <1>3

LEMMA DivMod ==
  ASSUME NEW x \in Int, NEW d \in Nat \ {0}
  PROVE /\ x \div d \in Int /\ x % d \in 0 .. d - 1
        /\ x = (x \div d) * d + (x % d)
  OBVIOUS

LEMMA DivUnique ==
  ASSUME NEW x \in Int, NEW d \in Nat \ {0}, NEW q \in Int, NEW r \in 0 .. d - 1,
         x = q * d + r
  PROVE x \div d = q /\ x % d = r
<1>1. /\ x \div d \in Int /\ x % d \in 0 .. d - 1
      /\ x = (x \div d) * d + (x % d)
  BY DivMod
<1>2. ~(x \div d < q)
  BY <1>1, TimesStrict
<1>3. ~(q < x \div d)
  BY <1>1, TimesStrict
<1> QED
  BY <1>1, <1>2, <1>3

\* The unit u lies in the block of d units that u \div d names.
LEMMA BlockOf ==
  ASSUME NEW a \in Int, NEW b \in Int, NEW d \in Nat \ {0}, NEW u \in Int
  PROVE /\ a * d <= u => a <= u \div d
        /\ u < b * d => u \div d < b
        /\ u \div d < b => u < b * d
        /\ a <= u \div d => a * d <= u
<1>1. /\ u \div d \in Int /\ u % d \in 0 .. d - 1
      /\ u = (u \div d) * d + (u % d)
  BY DivMod
<1>2. ASSUME a * d <= u, u \div d < a PROVE FALSE
  BY <1>1, <1>2, TimesStrict
<1>3. ASSUME u < b * d, b <= u \div d PROVE FALSE
  BY <1>1, <1>3, TimesMonotone
<1>4. ASSUME u \div d < b PROVE u < b * d
  BY <1>1, <1>4, TimesStrict
<1>5. ASSUME a <= u \div d PROVE a * d <= u
  BY <1>1, <1>5, TimesMonotone
<1> QED
  BY <1>1, <1>2, <1>3, <1>4, <1>5

LEMMA DivNat ==
  ASSUME NEW x \in Nat, NEW d \in Nat \ {0}
  PROVE x \div d \in Nat
<1>1. 0 * d <= x /\ x \div d \in Int
  BY DivMod
<1> QED
  BY <1>1, BlockOf

LEMMA MultipleForm ==
  ASSUME NEW x \in Int, NEW d \in Nat \ {0}
  PROVE x % d = 0 <=> x = (x \div d) * d
<1>1. /\ x \div d \in Int /\ x % d \in 0 .. d - 1
      /\ x = (x \div d) * d + (x % d)
  BY DivMod
<1> DEFINE p == (x \div d) * d
<1>2. p \in Int
  BY <1>1
<1> HIDE DEF p
<1>3. x = p + (x % d)
  BY <1>1 DEF p
<1>4. x % d = 0 <=> x = p
  BY <1>1, <1>2, <1>3
<1> QED
  BY <1>4 DEF p

LEMMA ProductMultiple ==
  ASSUME NEW q \in Int, NEW d \in Nat \ {0}
  PROVE (q * d) % d = 0 /\ (q * d) \div d = q
<1>1. q * d \in Int /\ 0 \in 0 .. d - 1 /\ q * d = q * d + 0
  OBVIOUS
<1> QED
  BY <1>1, DivUnique

\* Sums, differences and products of multiples are multiples.
LEMMA Multiples ==
  ASSUME NEW x \in Int, NEW y \in Int, NEW d \in Nat \ {0}, x % d = 0, y % d = 0
  PROVE (x + y) % d = 0 /\ (x - y) % d = 0
<1> DEFINE a == x \div d
           b == y \div d
<1>1. a \in Int /\ b \in Int /\ x = a * d /\ y = b * d
  BY MultipleForm, DivMod
<1> HIDE DEF a, b
<1>2. x + y = (a + b) * d /\ x - y = (a - b) * d
  BY <1>1, Distribute
<1>3. a + b \in Int /\ a - b \in Int
  BY <1>1
<1> QED
  BY <1>2, <1>3, ProductMultiple

LEMMA TimesMultiple ==
  ASSUME NEW k \in Int, NEW x \in Int, NEW d \in Nat \ {0}, x % d = 0
  PROVE /\ (k * x) % d = 0 /\ k * x = (k * (x \div d)) * d
        /\ (k * x) \div d = k * (x \div d)
<1> DEFINE a == x \div d
<1>1. a \in Int /\ x = a * d
  BY MultipleForm, DivMod
<1> HIDE DEF a
<1>2. k * x = (k * a) * d /\ k * a \in Int
  BY <1>1
<1> DEFINE n == k * a
<1>3. n \in Int /\ k * x = n * d
  BY <1>2
<1> HIDE DEF n
<1>4. (k * x) % d = 0 /\ (k * x) \div d = n
  BY <1>3, ProductMultiple
<1> QED
  BY <1>3, <1>4 DEF a, n

Labels == {"idle", "header", "chunk", "fill", "write", "tail", "written", "end"}
Writing == {"write", "tail", "written"}
AllImages == SparseImages \cup RawImages

img == piece.img

\* The units of the partition that the current call of WriteToDisk is for:
\* a whole raw image, a whole RAW chunk, one block of a FILL chunk.
Lo == IF IsSparse(img) THEN TotalBlocks * img.blk ELSE 0
Hi == IF ~IsSparse(img) THEN img.len
      ELSE IF chunk.kind = "fill" THEN (TotalBlocks + 1) * img.blk
      ELSE chunk.next * img.blk

TypeInv ==
  /\ pc \in Labels /\ TotalBlocks \in Nat /\ images \in Nat /\ faults \in Nat
  /\ chunk \in [kind : Kinds, left : Nat, next : Nat]
  /\ write \in [src : Nat, offset : Nat, left : Nat, unit : Nat, tail : Nat]
  /\ FlashResult \in {"ok", "err"} /\ spoiled \in BOOLEAN

\* The piece is one of the image that the host is sending.
PieceInv ==
  /\ host \in [st : {"none", "sends", "sent", "sure"},
               img : AllImages \cup {NoImage}, from : Nat]
  /\ host.st # "none" => host.img \in AllImages
  /\ host.st = "sure" => FlashResult = "ok"
  /\ pc # "idle" =>
       /\ host.st = "sends" /\ img = host.img /\ piece.from = host.from
       /\ piece.to \in Nat
       /\ IsSparse(img) => piece.to <= Blocks(img)

\* Where the loader stands in the image.
CountInv ==
  /\ pc \in {"idle", "header", "end"} => chunk = NoChunk
  /\ pc = "header" => TotalBlocks = 0
  /\ pc \in {"chunk", "fill"} => IsSparse(img)
  /\ (pc \in Writing /\ ~IsSparse(img)) => chunk = NoChunk /\ img.len <= PartitionSize
  /\ (pc \in Writing \cup {"chunk", "fill"} /\ IsSparse(img)) =>
       /\ HeaderFits(img)
       /\ chunk.next = TotalBlocks + chunk.left
       /\ chunk.next <= Blocks(img) /\ chunk.next * img.blk <= PartitionSize
       /\ pc = "chunk" <=> chunk.left = 0
  /\ pc = "fill" => chunk.kind = "fill"
  /\ (pc \in Writing \cup {"fill"} /\ IsSparse(img)) =>
       /\ chunk.kind # "none"
       /\ \A b \in TotalBlocks .. chunk.next - 1 : img.kinds[b + 1] = chunk.kind

\* Where the loader stands in WriteBlockToPartition.
WriteInv ==
  pc \in {"write", "tail"} =>
    /\ Lo <= write.offset * BlockSize
    /\ write.offset * BlockSize + write.left + write.tail = Hi
    /\ chunk.kind # "fill" => write.src = write.offset * BlockSize
    /\ write.left % BlockSize = 0 /\ write.tail < BlockSize
    /\ pc = "write" => write.left > 0
    /\ pc = "tail" => write.left = 0 /\ write.tail > 0
    /\ write.unit > 0 /\ (write.unit % BlockSize = 0 \/ write.left <= write.unit)

\* The units of the image that come before this one are on the partition, as far
\* as this piece or an earlier one carries them.
Position ==
  CASE pc = "header" -> 0
    [] pc \in {"chunk", "fill"} -> Lo
    [] pc \in {"write", "tail"} -> write.offset * BlockSize
    [] pc = "written" -> Hi
    [] OTHER -> IF FlashResult = "ok" THEN PartitionSize ELSE 0

Carried(u) ==
  \/ IsSparse(img) /\ u \div img.blk < piece.from
  \/ u < Position /\ (IsSparse(img) => u \div img.blk < piece.to)

FlashedInv ==
  pc # "idle" =>
    \A u \in Units : Covers(img, u) /\ Carried(u) => disk[u] = Promised(img, u)

\* The same of what the host has sent, unless it is still to hear of a failure.
SentInv ==
  (pc = "idle" /\ host.st # "none" /\ FlashResult = "ok") =>
    \A u \in Units :
      (/\ Covers(host.img, u)
       /\ host.st = "sends" => IsSparse(host.img) /\ u \div host.img.blk < host.from)
      => disk[u] = Promised(host.img, u)

IInv ==
  /\ TypeInv /\ PieceInv /\ CountInv /\ WriteInv /\ FlashedInv /\ SentInv
  /\ OldOrNew /\ AcceptsFitting

-----------------------------------------------------------------------------
(* Images                                                                  *)

LEMMA ImageType ==
  ASSUME NEW i \in AllImages
  PROVE /\ IsSparse(i) => /\ i \in SparseImages
                          /\ i.blk \in Nat \ {0} /\ i.total_blks \in Nat
                          /\ i.kinds \in Seq(Kinds) /\ Blocks(i) \in Nat
        /\ ~IsSparse(i) => i.len \in Nat \ {0}
  BY FlashAssumption DEF AllImages, IsSparse, SparseImage, RawImage, Blocks

LEMMA Sizes ==
  /\ BlockSize \in Nat \ {0} /\ MaxWrite \in Nat \ {0} /\ MaxWrite % BlockSize = 0
  /\ LastBlock \in Nat /\ PartitionSize \in Nat
  /\ PartitionSize = (LastBlock + 1) * BlockSize
  BY FlashAssumption DEF PartitionSize

\* A block that begins in the partition ends in it.
LEMMA BlockFits ==
  ASSUME NEW o \in Nat, o * BlockSize < PartitionSize
  PROVE (o + 1) * BlockSize <= PartitionSize
<1>1. o < LastBlock + 1
  BY Sizes, TimesMonotone
<1> QED
  BY <1>1, Sizes, TimesMonotone

\* A good header says that the blocks of the image are made of device blocks.
LEMMA HeaderBlocks ==
  ASSUME NEW i \in AllImages, IsSparse(i), HeaderFits(i), NEW k \in Nat
  PROVE /\ i.blk % BlockSize = 0 /\ (k * i.blk) % BlockSize = 0
        /\ i.blk \div BlockSize \in Nat
        /\ (k * (i.blk \div BlockSize)) * BlockSize = k * i.blk
<1>1. i.blk \in Nat \ {0} /\ i.blk \in Int /\ i.blk % BlockSize = 0
  BY ImageType DEF HeaderFits
<1> DEFINE blk == i.blk
<1> HIDE DEF blk
<1>2. blk \in Nat /\ blk \in Int /\ blk % BlockSize = 0
  BY <1>1 DEF blk
<1>3. BlockSize \in Nat \ {0}
  BY Sizes
<1>4. /\ (k * blk) % BlockSize = 0
      /\ k * blk = (k * (blk \div BlockSize)) * BlockSize
  <2> k \in Int
    OBVIOUS
  <2> QED
    BY <1>2, <1>3, TimesMultiple, Zenon
<1>5. blk \div BlockSize \in Nat
  BY <1>2, <1>3, DivNat
<1> QED
  BY <1>1, <1>4, <1>5 DEF blk

\* What the current call writes lies in the partition.
LEMMA Range ==
  ASSUME TypeInv, PieceInv, CountInv, pc \in Writing
  PROVE /\ Lo \in Nat /\ Hi \in Nat /\ Lo <= Hi /\ Hi <= PartitionSize
        /\ IsSparse(img) => /\ chunk.next * img.blk <= PartitionSize
                            /\ Hi <= chunk.next * img.blk
<1>1. img \in AllImages /\ pc # "idle"
  BY DEF PieceInv, Writing
<1>2. CASE ~IsSparse(img)
  <2>1. img.len \in Nat /\ img.len <= PartitionSize
    BY <1>1, <1>2, ImageType DEF CountInv
  <2> QED
    BY <2>1, <1>2 DEF Lo, Hi
<1>3. CASE IsSparse(img)
  <2>1. /\ img.blk \in Nat \ {0} /\ TotalBlocks \in Nat /\ chunk.left \in Nat
        /\ chunk.next \in Nat
    BY <1>1, <1>3, ImageType DEF TypeInv
  <2>7. chunk.next = TotalBlocks + chunk.left /\ chunk.left # 0
    BY <1>3 DEF CountInv, Writing
  <2>2. chunk.next * img.blk <= PartitionSize
    BY <1>3 DEF CountInv, Writing
  <2>3. TotalBlocks + 1 <= chunk.next /\ TotalBlocks <= chunk.next
    BY <2>1, <2>7
  <2>4. /\ TotalBlocks * img.blk <= (TotalBlocks + 1) * img.blk
        /\ TotalBlocks * img.blk <= chunk.next * img.blk
        /\ (TotalBlocks + 1) * img.blk <= chunk.next * img.blk
    BY <2>1, <2>3, TimesMonotone
  <2>5. /\ TotalBlocks * img.blk \in Nat /\ (TotalBlocks + 1) * img.blk \in Nat
        /\ chunk.next * img.blk \in Nat
    BY <2>1
  <2>6. PartitionSize \in Nat
    BY Sizes
  <2> QED
    BY <1>3, <2>2, <2>4, <2>5, <2>6 DEF Lo, Hi
<1> QED
  BY <1>2, <1>3

\* The image has data for each of these units: the data that is written.
LEMMA RangeCovered ==
  ASSUME TypeInv, PieceInv, CountInv, pc \in Writing,
         NEW u \in Int, Lo <= u, u < Hi
  PROVE /\ Covers(img, u)
        /\ Promised(img, u) = IF chunk.kind = "fill" THEN Filling(img)
                                                     ELSE Datum(img, u)
<1>1. img \in AllImages /\ pc # "idle"
  BY DEF PieceInv, Writing
<1>2. CASE ~IsSparse(img)
  <2>1. chunk = NoChunk
    BY <1>2 DEF CountInv
  <2> QED
    BY <1>2, <2>1 DEF Covers, Promised, Hi, NoChunk
<1>3. CASE IsSparse(img)
  <2>1. /\ img.blk \in Nat \ {0} /\ TotalBlocks \in Nat /\ chunk.left \in Nat
        /\ chunk.next \in Nat /\ Blocks(img) \in Nat /\ chunk.next <= Blocks(img)
    BY <1>1, <1>3, ImageType DEF TypeInv, CountInv, Writing
  <2>2. Lo = TotalBlocks * img.blk /\ Hi <= chunk.next * img.blk /\ Hi \in Nat
    BY <1>3, Range DEF Lo
  <2> DEFINE b == u \div img.blk
  <2>3. b \in Int /\ TotalBlocks <= b /\ b < chunk.next
    <3>1. TotalBlocks * img.blk <= u /\ u < chunk.next * img.blk
      BY <2>1, <2>2
    <3>2. b \in Int
      BY <2>1, DivMod
    <3>3. TotalBlocks <= b /\ b < chunk.next
      <4> TotalBlocks \in Int /\ chunk.next \in Int /\ img.blk \in Nat \ {0}
        BY <2>1
      <4> QED
        BY <3>1, BlockOf
    <3> QED
      BY <3>2, <3>3
  <2>4. img.kinds[b + 1] = chunk.kind /\ chunk.kind # "none"
    BY <1>3, <2>1, <2>3 DEF CountInv
  <2>5. u < Blocks(img) * img.blk
    BY <2>1, <2>3, BlockOf
  <2> QED
    BY <1>3, <2>4, <2>5 DEF Covers, Promised, KindOf
<1> QED
  BY <1>2, <1>3

\* A request writes what the image has for the units it reaches, and no other.
LEMMA RequestWrites ==
  ASSUME IInv, pc \in {"write", "tail"}, NEW n \in Nat,
         write.offset * BlockSize + n <= Hi
  PROVE \A u \in Units :
          \/ /\ write.offset * BlockSize <= u /\ u < write.offset * BlockSize + n
             /\ Covers(img, u) /\ WrittenUpTo(n)[u] = Promised(img, u)
          \/ /\ ~(write.offset * BlockSize <= u /\ u < write.offset * BlockSize + n)
             /\ WrittenUpTo(n)[u] = disk[u]
<1> DEFINE p == write.offset * BlockSize
<1>1. p \in Nat /\ Lo <= p /\ Lo \in Nat /\ Hi \in Nat
  BY Range, Sizes DEF IInv, WriteInv, TypeInv, Writing
<1>2. chunk.kind # "fill" => write.src = p
  BY DEF IInv, WriteInv
<1> HIDE DEF p
<1> TAKE u \in Units
<1>3. u \in Nat
  BY Sizes DEF Units
<1>4. WrittenUpTo(n)[u] = IF u - p \in 0 .. n - 1 THEN Source(u - p) ELSE disk[u]
  BY DEF WrittenUpTo, p
<1>5. CASE p <= u /\ u < p + n
  <2>1. Lo <= u /\ u < Hi
    BY <1>1, <1>3, <1>5 DEF p
  <2>2. /\ Covers(img, u)
        /\ Promised(img, u) = IF chunk.kind = "fill" THEN Filling(img)
                                                     ELSE Datum(img, u)
    BY <2>1, <1>3, RangeCovered DEF IInv, Writing
  <2>3. u - p \in 0 .. n - 1
    BY <1>1, <1>3, <1>5
  <2>4. chunk.kind # "fill" => write.src + (u - p) = u
    BY <1>1, <1>2, <1>3
  <2>5. Source(u - p) = Promised(img, u)
    BY <2>2, <2>4 DEF Source, img
  <2> QED
    BY <1>4, <1>5, <2>2, <2>3, <2>5 DEF p
<1>6. CASE ~(p <= u /\ u < p + n)
  <2>1. u - p \notin 0 .. n - 1
    BY <1>1, <1>3, <1>6
  <2> QED
    BY <1>4, <1>6, <2>1 DEF p
<1> QED
  BY <1>5, <1>6

-----------------------------------------------------------------------------
(* Requests and calls                                                      *)

\* Every request is made of whole blocks and lies in the partition.
LEMMA Request ==
  ASSUME IInv, pc = "write"
  PROVE /\ WriteSize \in Nat \ {0} /\ WriteSize <= write.left
        /\ WriteSize % BlockSize = 0 /\ WriteSize \div BlockSize \in Nat
        /\ (WriteSize \div BlockSize) * BlockSize = WriteSize
        /\ write.offset * BlockSize + WriteSize <= Hi
        /\ Fits(WriteSize)
<1>1. /\ write.left \in Nat \ {0} /\ write.unit \in Nat \ {0} /\ write.tail \in Nat
      /\ write.offset \in Nat
      /\ write.left % BlockSize = 0
      /\ write.unit % BlockSize = 0 \/ write.left <= write.unit
      /\ write.offset * BlockSize + write.left + write.tail = Hi
  BY DEF IInv, WriteInv, TypeInv
<1>2. WriteSize \in Nat \ {0} /\ WriteSize <= write.left
  BY <1>1 DEF WriteSize
<1>3. WriteSize % BlockSize = 0
  <2>1. CASE write.left > write.unit
    BY <1>1, <2>1 DEF WriteSize
  <2>2. CASE ~(write.left > write.unit)
    BY <1>1, <2>2 DEF WriteSize
  <2> QED
    BY <2>1, <2>2
<1>4. WriteSize \div BlockSize \in Nat
  BY <1>2, DivNat, Sizes
<1>5. (WriteSize \div BlockSize) * BlockSize = WriteSize
  BY <1>2, <1>3, MultipleForm, Sizes
<1>6. Hi \in Nat /\ Hi <= PartitionSize
  BY Range DEF IInv, Writing
<1> DEFINE p == write.offset * BlockSize
<1>7. p \in Nat /\ p + write.left + write.tail = Hi
  BY <1>1, Sizes
<1> HIDE DEF p
<1>8. p + WriteSize <= Hi /\ p + WriteSize <= PartitionSize
  BY <1>1, <1>2, <1>6, <1>7, Sizes
<1> QED
  BY <1>2, <1>3, <1>4, <1>5, <1>8 DEF p, Fits

\* The last block is one that the call reaches.
LEMMA TailRequest ==
  ASSUME IInv, pc = "tail"
  PROVE /\ Fits(BlockSize) /\ (write.offset + 1) * BlockSize <= PartitionSize
        /\ write.tail \in Nat /\ write.offset * BlockSize + write.tail = Hi
<1>1. /\ write.left = 0 /\ write.tail \in Nat \ {0} /\ write.offset \in Nat
      /\ write.offset * BlockSize + write.left + write.tail = Hi
  BY DEF IInv, WriteInv, TypeInv
<1>2. Hi \in Nat /\ Hi <= PartitionSize
  BY Range DEF IInv, Writing
<1> DEFINE p == write.offset * BlockSize
<1>3. p \in Nat /\ p + write.left + write.tail = Hi
  BY <1>1, Sizes
<1> HIDE DEF p
<1>4. p + write.tail = Hi /\ p < PartitionSize
  BY <1>1, <1>2, <1>3, Sizes
<1>5. (write.offset + 1) * BlockSize <= PartitionSize
  BY <1>1, <1>4, BlockFits DEF p
<1>6. (write.offset + 1) * BlockSize = p + BlockSize
  BY <1>1, Sizes, Distribute DEF p
<1> QED
  BY <1>1, <1>4, <1>5, <1>6 DEF p, Fits

\* What a call begins with: whole blocks first, then the rest.
LEMMA Call ==
  ASSUME NEW src \in Nat, NEW offset \in Nat, NEW size \in Nat \ {0}, NEW units,
         \A unit \in units : /\ unit \in Nat \ {0}
                             /\ unit % BlockSize = 0 \/ size <= unit,
         WriteBlocks(src, offset, size, units)
  PROVE /\ write' \in [src : Nat, offset : Nat, left : Nat, unit : Nat, tail : Nat]
        /\ write'.src = src /\ write'.offset = offset
        /\ write'.left + write'.tail = size
        /\ write'.left % BlockSize = 0 /\ write'.tail < BlockSize
        /\ write'.unit > 0
        /\ write'.unit % BlockSize = 0 \/ write'.left <= write'.unit
        /\ \/ pc' = "write" /\ write'.left > 0
           \/ pc' = "tail" /\ write'.left = 0 /\ write'.tail > 0
<1> DEFINE whole == (size \div BlockSize) * BlockSize
           rest == size % BlockSize
<1>1. /\ BlockSize \in Nat \ {0} /\ size \in Int /\ size \div BlockSize \in Nat
      /\ size \div BlockSize \in Int
  BY Sizes, DivNat
<1>2. whole \in Nat /\ rest \in 0 .. BlockSize - 1 /\ size = whole + rest
  BY <1>1, DivMod
<1>3. whole % BlockSize = 0
  BY <1>1, ProductMultiple
<1>4. /\ \E unit \in units :
           write' = [src |-> src, offset |-> offset, left |-> whole,
                     unit |-> unit, tail |-> size - whole]
      /\ pc' = IF whole > 0 THEN "write" ELSE "tail"
  BY DEF WriteBlocks
<1> HIDE DEF whole, rest
<1>5. PICK unit \in units :
        write' = [src |-> src, offset |-> offset, left |-> whole,
                  unit |-> unit, tail |-> size - whole]
  BY <1>4
<1>6. size - whole = rest /\ rest \in Nat /\ rest < BlockSize /\ whole <= size
  BY <1>1, <1>2
<1>7. unit \in Nat \ {0} /\ (unit % BlockSize = 0 \/ whole <= unit)
  BY <1>2, <1>6
<1>8. whole = 0 => rest > 0
  BY <1>2
<1> QED
  BY <1>2, <1>3, <1>4, <1>5, <1>6, <1>7, <1>8

-----------------------------------------------------------------------------
(* What a step does to the partition                                       *)

\* Each unit stays as it is or gets what the image has for it.
Progress ==
  \A u \in Units :
    disk'[u] = disk[u] \/ (Covers(img, u) /\ disk'[u] = Promised(img, u))

LEMMA WrittenProgress ==
  ASSUME IInv, pc \in {"write", "tail"}, NEW n \in Nat,
         write.offset * BlockSize + n <= Hi, disk' = WrittenUpTo(n)
  PROVE Progress
  BY RequestWrites DEF Progress

\* Some of the blocks of a request are written.
LEMMA RequestProgress ==
  ASSUME IInv, pc = "write", NEW n \in 0 .. WriteSize \div BlockSize,
         disk' = WrittenUpTo(n * BlockSize)
  PROVE Progress
<1>1. n * BlockSize \in Nat
  BY Request, Sizes
<1>2. n * BlockSize <= WriteSize
  BY Request, Sizes, TimesMonotone
<1> DEFINE p == write.offset * BlockSize
           k == n * BlockSize
<1>3. p \in Nat /\ Hi \in Nat /\ p + WriteSize <= Hi /\ WriteSize \in Nat
  BY Request, Range, Sizes DEF IInv, Writing, TypeInv
<1> HIDE DEF p, k
<1>4. p + k <= Hi
  BY <1>1, <1>2, <1>3 DEF k
<1> QED
  BY <1>1, <1>4, WrittenProgress DEF p, k

LEMMA ProgressKeeps ==
  ASSUME IInv, pc # "idle", Progress, before' = before, host'.img = host.img
  PROVE OldOrNew'
  BY DEF Progress, IInv, OldOrNew, PieceInv

\* A step within a flash that moves the position over units that it has
\* written, or that were there, or that the piece does not carry.
LEMMA Advance ==
  ASSUME IInv, pc # "idle", pc' # "idle", Progress,
         before' = before, host' = host, piece' = piece,
         \A u \in Units :
           (/\ Covers(img, u) /\ u < Position' /\ ~(u < Position)
            /\ IsSparse(img) => u \div img.blk < piece.to
            /\ ~(IsSparse(img) /\ u \div img.blk < piece.from))
           => disk'[u] = Promised(img, u)
  PROVE OldOrNew' /\ FlashedInv' /\ SentInv' /\ PieceInv'
<1>1. OldOrNew'
  BY ProgressKeeps
<1>2. PieceInv'
  BY DEF IInv, PieceInv, img
<1>3. SentInv'
  BY DEF SentInv
<1>4. ASSUME NEW u \in Units, Covers(img, u), Carried(u)'
      PROVE disk'[u] = Promised(img, u)
  <2>1. CASE Carried(u)
    BY <1>4, <2>1 DEF IInv, FlashedInv, Progress
  <2>2. CASE ~Carried(u)
    BY <1>4, <2>2 DEF Carried, img
  <2> QED
    BY <2>1, <2>2
<1>5. FlashedInv'
  BY <1>4 DEF FlashedInv, img
<1> QED
  BY <1>1, <1>2, <1>3, <1>5

\* The flash ends with an error: what earlier pieces brought is still there.
LEMMA FailsStep ==
  ASSUME IInv, pc # "idle", Fails, Progress, faults' \in Nat,
         faults' > faults \/ ~Suits(img)
  PROVE IInv'
<1>1. /\ pc' = "end" /\ FlashResult' = "err" /\ spoiled' = (faults' > faults)
      /\ chunk' = NoChunk /\ write' = NoWrite
      /\ UNCHANGED <<before, piece, TotalBlocks, host, images>>
  BY DEF Fails
<1>2. Position' = 0
  BY <1>1 DEF Position
<1>3. \A u \in Units : ~(u < 0)
  BY Sizes DEF Units
<1>4. OldOrNew' /\ FlashedInv' /\ SentInv' /\ PieceInv'
  BY <1>1, <1>2, <1>3, Advance
<1>5. TypeInv'
  BY <1>1 DEF IInv, TypeInv, NoChunk, NoWrite, Kinds, Labels
<1>6. CountInv' /\ WriteInv'
  BY <1>1 DEF CountInv, WriteInv, Writing
<1>7. AcceptsFitting'
  BY <1>1 DEF AcceptsFitting, img
<1> QED
  BY <1>4, <1>5, <1>6, <1>7 DEF IInv

-----------------------------------------------------------------------------
(* The steps of the invariant                                              *)

\* A step that leaves the partition alone is progress.
LEMMA StillProgress == disk' = disk => Progress
  BY DEF Progress

LEMMA InitStep == Init => IInv
<1> SUFFICES ASSUME Init PROVE IInv
  OBVIOUS
<1>1. TypeInv
  BY FlashAssumption DEF Init, TypeInv, NoChunk, NoWrite, Kinds, Labels
<1>2. PieceInv /\ CountInv /\ WriteInv /\ FlashedInv /\ SentInv
  BY DEF Init, PieceInv, CountInv, WriteInv, FlashedInv, SentInv, Writing
<1>3. OldOrNew /\ AcceptsFitting
  BY DEF Init, OldOrNew, AcceptsFitting
<1> QED
  BY <1>1, <1>2, <1>3 DEF IInv

LEMMA HostStartsStep ==
  ASSUME IInv, NEW i \in AllImages, HostStarts(i)
  PROVE IInv'
<1>1. /\ pc = "idle" /\ host' = [st |-> "sends", img |-> i, from |-> 0]
      /\ before' = disk /\ disk' = disk /\ faults' = faults /\ images' = images + 1
      /\ UNCHANGED <<piece, pc, TotalBlocks, chunk, write, FlashResult, spoiled>>
  BY DEF HostStarts, flash
<1>2. TypeInv' /\ CountInv' /\ WriteInv'
  BY <1>1 DEF IInv, TypeInv, CountInv, WriteInv, Writing
<1>3. PieceInv' /\ FlashedInv'
  BY <1>1 DEF PieceInv, FlashedInv
<1>4. SentInv'
  <2>1. ASSUME NEW u \in Units, IsSparse(i) PROVE ~(u \div i.blk < 0)
    <3>1. u \in Nat /\ i.blk \in Nat \ {0}
      BY <2>1, ImageType, Sizes DEF Units
    <3>2. u \div i.blk \in Nat
      BY <3>1, DivNat
    <3> QED
      BY <3>2
  <2> QED
    BY <1>1, <2>1 DEF SentInv
<1>5. OldOrNew' /\ AcceptsFitting'
  BY <1>1 DEF OldOrNew, IInv, AcceptsFitting
<1> QED
  BY <1>2, <1>3, <1>4, <1>5 DEF IInv

LEMMA LastFlashFailedStep == IInv /\ LastFlashFailed => IInv'
<1> SUFFICES ASSUME IInv, LastFlashFailed PROVE IInv'
  OBVIOUS
<1>1. /\ pc = "idle" /\ FlashResult' = "ok" /\ host' = [host EXCEPT !.st = "none"]
      /\ UNCHANGED <<disk, before, piece, pc, TotalBlocks, chunk, write, spoiled,
                     images, faults>>
  BY DEF LastFlashFailed
<1>2. host'.st = "none" /\ host'.img = host.img /\ host'.from = host.from
  BY <1>1 DEF LastFlashFailed
<1> QED
  BY <1>1, <1>2 DEF IInv, TypeInv, PieceInv, CountInv, WriteInv, FlashedInv,
     SentInv, OldOrNew, AcceptsFitting, Writing

LEMMA HostFlashesStep == IInv /\ HostFlashes => IInv'
<1> SUFFICES ASSUME IInv, HostFlashes PROVE IInv'
  OBVIOUS
<1>1. /\ pc = "idle" /\ host.st = "sends" /\ FlashResult = "ok"
      /\ pc' = "header" /\ TotalBlocks' = 0 /\ spoiled' = FALSE
      /\ UNCHANGED <<disk, before, chunk, write, FlashResult, host, images, faults>>
  BY DEF HostFlashes
<1>2. PICK to \in PieceEnds(host.img, host.from) :
        piece' = [img |-> host.img, from |-> host.from, to |-> to]
  BY DEF HostFlashes
<1>3. host.img \in AllImages /\ host.from \in Nat
  BY <1>1 DEF IInv, PieceInv
<1>4. to \in Nat /\ (IsSparse(host.img) => to <= Blocks(host.img))
  BY <1>3, ImageType DEF PieceEnds
<1>5. TypeInv'
  BY <1>1 DEF IInv, TypeInv, Labels
<1>6. PieceInv'
  BY <1>1, <1>2, <1>3, <1>4 DEF IInv, PieceInv, img
<1>7. CountInv' /\ WriteInv'
  BY <1>1 DEF IInv, CountInv, WriteInv, Writing
<1>8. SentInv' /\ OldOrNew' /\ AcceptsFitting'
  BY <1>1 DEF IInv, SentInv, OldOrNew, AcceptsFitting
<1>9. FlashedInv'
  <2>1. Position' = 0 /\ img' = host.img /\ piece'.from = host.from
    BY <1>1, <1>2 DEF Position, img
  <2>2. \A u \in Units : ~(u < 0)
    BY Sizes DEF Units
  <2> QED
    BY <1>1, <2>1, <2>2 DEF IInv, SentInv, FlashedInv, Carried
<1> QED
  BY <1>5, <1>6, <1>7, <1>8, <1>9 DEF IInv

LEMMA HostIsSureStep == IInv /\ HostIsSure => IInv'
<1> SUFFICES ASSUME IInv, HostIsSure PROVE IInv'
  OBVIOUS
<1>1. /\ pc = "idle" /\ host.st = "sent" /\ FlashResult = "ok"
      /\ host' = [host EXCEPT !.st = "sure"]
      /\ UNCHANGED <<disk, before, piece, pc, TotalBlocks, chunk, write,
                     FlashResult, spoiled, images, faults>>
  BY DEF HostIsSure, flash
<1>2. host'.st = "sure" /\ host'.img = host.img /\ host'.from = host.from
  BY <1>1 DEF HostIsSure
<1> QED
  BY <1>1, <1>2 DEF IInv, TypeInv, PieceInv, CountInv, WriteInv, FlashedInv,
     SentInv, OldOrNew, AcceptsFitting, Writing

LEMMA PowerCutStep == IInv /\ PowerCut => IInv'
<1> SUFFICES ASSUME IInv, PowerCut PROVE IInv'
  OBVIOUS
<1>1. /\ pc # "idle" /\ faults' = faults + 1
      /\ pc' = "idle" /\ TotalBlocks' = 0 /\ chunk' = NoChunk /\ write' = NoWrite
      /\ FlashResult' = "ok" /\ host' = [host EXCEPT !.st = "none"]
      /\ before' = before /\ spoiled' = FALSE /\ images' = images
  BY DEF PowerCut
<1>2. host'.st = "none" /\ host'.img = host.img /\ host'.from = host.from
  <2>1. host.st = "sends"
    BY <1>1 DEF IInv, PieceInv
  <2> QED
    BY <1>1, <2>1 DEF PowerCut
<1>3. Progress
  <2>1. CASE disk' = disk
    BY <2>1, StillProgress
  <2>2. CASE pc = "write" /\ \E n \in 0 .. WriteSize \div BlockSize :
                               disk' = WrittenUpTo(n * BlockSize)
    BY <2>2, RequestProgress
  <2> QED
    BY <2>1, <2>2 DEF PowerCut
<1>4. OldOrNew'
  BY <1>1, <1>2, <1>3, ProgressKeeps
<1>5. TypeInv'
  <2>1. faults' \in Nat /\ images' \in Nat
    BY <1>1 DEF IInv, TypeInv
  <2>2. spoiled' \in BOOLEAN
    BY <1>1, Zenon
  <2>3. pc' \in Labels /\ FlashResult' \in {"ok", "err"} /\ TotalBlocks' \in Nat
    BY <1>1 DEF Labels
  <2>4. /\ chunk' \in [kind : Kinds, left : Nat, next : Nat]
        /\ write' \in [src : Nat, offset : Nat, left : Nat, unit : Nat, tail : Nat]
    BY <1>1 DEF NoChunk, NoWrite, Kinds
  <2> QED
    BY <2>1, <2>2, <2>3, <2>4, Zenon DEF TypeInv
<1>6. PieceInv' /\ CountInv' /\ WriteInv' /\ FlashedInv' /\ SentInv' /\ AcceptsFitting'
  BY <1>1, <1>2 DEF IInv, PieceInv, CountInv, WriteInv, FlashedInv, SentInv,
     AcceptsFitting, Writing
<1> QED
  BY <1>4, <1>5, <1>6 DEF IInv

LEMMA RefusedStep ==
  IInv /\ (RawRefused \/ HeaderRefused \/ ChunkRefused \/ ChunkCut) => IInv'
<1> SUFFICES ASSUME IInv, RawRefused \/ HeaderRefused \/ ChunkRefused \/ ChunkCut
             PROVE IInv'
  OBVIOUS
<1>1. pc # "idle" /\ disk' = disk /\ Fails
  BY DEF RawRefused, HeaderRefused, ChunkRefused, ChunkCut, MoreChunks
<1>2. img \in AllImages /\ faults \in Nat
  BY <1>1 DEF IInv, PieceInv, TypeInv
<1>3. faults' \in Nat /\ (faults' > faults \/ ~Suits(img))
  <2>1. CASE RawRefused
    <3>1. img.len \in Nat /\ PartitionSize \in Nat /\ PartitionSize < img.len
          /\ ~IsSparse(img) /\ faults' = faults
      BY <1>2, <2>1, ImageType, Sizes DEF RawRefused, img
    <3> QED
      BY <1>2, <3>1 DEF Suits
  <2>2. CASE HeaderRefused
    BY <1>2, <2>2 DEF HeaderRefused, HeaderFits, Suits, img
  <2>3. CASE ChunkCut
    BY <1>2, <2>3 DEF ChunkCut
  <2>4. CASE ChunkRefused
    <3>1. PICK n \in ChunkSizes : ~ChunkFits(n)
      BY <2>4 DEF ChunkRefused
    <3>2. pc = "chunk" /\ chunk.next < Blocks(img) /\ faults' = faults
      BY <2>4 DEF ChunkRefused, MoreChunks, img
    <3>3. IsSparse(img) /\ chunk.next = TotalBlocks + chunk.left /\ chunk.left = 0
      BY <3>2 DEF IInv, CountInv
    <3>4. /\ img.blk \in Nat \ {0} /\ Blocks(img) \in Nat /\ TotalBlocks \in Nat
          /\ chunk.next \in Nat /\ PartitionSize \in Nat
      BY <1>2, <3>3, ImageType, Sizes DEF IInv, TypeInv
    <3>5. n \in 1 .. Blocks(img) - TotalBlocks
      BY <3>1, <3>3, <3>4 DEF ChunkSizes, img
    <3>6. ASSUME Suits(img) PROVE FALSE
      <4>1. Blocks(img) * img.blk <= PartitionSize
        BY <3>3, <3>6 DEF Suits
      <4>2. TotalBlocks + n <= Blocks(img) /\ TotalBlocks < Blocks(img) /\ n \in Nat
        BY <3>4, <3>5
      <4>3. /\ (TotalBlocks + n) * img.blk <= Blocks(img) * img.blk
            /\ TotalBlocks * img.blk + img.blk <= Blocks(img) * img.blk
        BY <3>4, <4>2, TimesMonotone, TimesStrict
      <4>4. (TotalBlocks + n) * img.blk = TotalBlocks * img.blk + n * img.blk
        BY <3>4, <4>2, Distribute
      <4> DEFINE x == TotalBlocks * img.blk
                 y == n * img.blk
                 z == Blocks(img) * img.blk
      <4>5. x \in Nat /\ y \in Nat /\ z \in Nat
        BY <3>4, <4>2
      <4> HIDE DEF x, y, z
      <4>6. x + y <= z /\ x + img.blk <= z /\ z <= PartitionSize
        BY <4>1, <4>3, <4>4 DEF x, y, z
      <4>7. x < PartitionSize /\ x + y <= PartitionSize
        BY <3>4, <4>5, <4>6
      <4> QED
        BY <3>1, <4>7 DEF ChunkFits, x, y, img
    <3> QED
      BY <1>2, <3>2, <3>6
  <2> QED
    BY <2>1, <2>2, <2>3, <2>4
<1>4. Progress
  BY <1>1, StillProgress
<1> QED
  BY <1>1, <1>3, <1>4, FailsStep

LEMMA RequestFailsStep == IInv /\ (WriteRequestFails \/ WriteTailFails) => IInv'
<1> SUFFICES ASSUME IInv, WriteRequestFails \/ WriteTailFails PROVE IInv'
  OBVIOUS
<1>1. pc # "idle" /\ Fails /\ faults \in Nat
  BY DEF WriteRequestFails, WriteTailFails, IInv, TypeInv
<1>2. CASE WriteRequestFails
  <2>1. pc = "write" /\ Fits(WriteSize)
    BY <1>2, Request DEF WriteRequestFails
  <2>2. /\ faults' = faults + 1
        /\ \E n \in 0 .. WriteSize \div BlockSize : disk' = WrittenUpTo(n * BlockSize)
    BY <1>2, <2>1 DEF WriteRequestFails
  <2>3. Progress
    BY <2>1, <2>2, RequestProgress
  <2> QED
    BY <1>1, <2>2, <2>3, FailsStep
<1>3. CASE WriteTailFails
  <2>1. pc = "tail" /\ Fits(BlockSize) /\ disk' = disk
    BY <1>3, TailRequest DEF WriteTailFails
  <2>2. faults' = faults + 1
    BY <1>3, <2>1 DEF WriteTailFails
  <2> QED
    BY <1>1, <2>1, <2>2, StillProgress, FailsStep
<1> QED
  BY <1>2, <1>3

\* What a step changes of the counters alone keeps the answer to the host.
LEMMA SameResult ==
  ASSUME IInv, FlashResult' = FlashResult, spoiled' = spoiled, piece' = piece
  PROVE AcceptsFitting'
  BY DEF IInv, AcceptsFitting

LEMMA WriteRequestStep == IInv /\ WriteRequest => IInv'
<1> SUFFICES ASSUME IInv, WriteRequest PROVE IInv'
  OBVIOUS
<1>1. /\ pc = "write" /\ disk' = WrittenUpTo(WriteSize) /\ write' = NextRequest
      /\ UNCHANGED <<before, piece, TotalBlocks, chunk, FlashResult, spoiled, host,
                     images, faults>>
      /\ pc' = IF write'.left > 0 THEN "write"
               ELSE IF write.tail > 0 THEN "tail" ELSE "written"
  BY DEF WriteRequest
<1>2. /\ write.src \in Nat /\ write.offset \in Nat /\ write.left \in Nat
      /\ write.unit \in Nat /\ write.tail \in Nat
      /\ write \in [src : Nat, offset : Nat, left : Nat, unit : Nat, tail : Nat]
  BY DEF IInv, TypeInv
<1> DEFINE size == WriteSize
           step == size \div BlockSize
           p == write.offset * BlockSize
           q == (write.offset + step) * BlockSize
<1>3. /\ size \in Nat \ {0} /\ size <= write.left /\ size % BlockSize = 0
      /\ step \in Nat /\ step * BlockSize = size /\ p + size <= Hi
  BY <1>1, Request
<1>4. Lo \in Nat /\ Hi \in Nat /\ p \in Nat
  BY <1>1, <1>2, Range, Sizes DEF IInv, Writing
<1>5. /\ Lo <= p /\ p + write.left + write.tail = Hi
      /\ chunk.kind # "fill" => write.src = p
      /\ write.left % BlockSize = 0 /\ write.tail < BlockSize /\ write.unit > 0
      /\ write.unit % BlockSize = 0 \/ write.left <= write.unit
  BY <1>1 DEF IInv, WriteInv
<1>6. q = p + size
  <2>1. write.offset \in Int /\ step \in Int /\ BlockSize \in Int
    BY <1>2, <1>3, Sizes
  <2> HIDE DEF size, step
  <2>2. (write.offset + step) * BlockSize = write.offset * BlockSize + step * BlockSize
    BY <2>1, Distribute
  <2> QED
    BY <1>3, <2>2
<1>7. /\ write'.src = write.src + size /\ write'.offset = write.offset + step
      /\ write'.left = write.left - size
      /\ write'.unit = write.unit /\ write'.tail = write.tail
      /\ write' = [src |-> write.src + size, offset |-> write.offset + step,
                   left |-> write.left - size, unit |-> write.unit,
                   tail |-> write.tail]
  BY <1>1, <1>2 DEF NextRequest
<1>8. (write.left - size) % BlockSize = 0
  <2> HIDE DEF size, step
  <2>1. write.left \in Int /\ size \in Int /\ BlockSize \in Nat \ {0}
    BY <1>2, <1>3, Sizes
  <2> QED
    BY <1>3, <1>5, <2>1, Multiples
<1>9. Progress
  BY <1>1, <1>3, WrittenProgress
<1>10. Lo' = Lo /\ Hi' = Hi
  BY <1>1 DEF Lo, Hi, img
<1> HIDE DEF size, step, p, q
<1>11. write'.left \in Nat /\ write'.offset * BlockSize = q /\ write'.src \in Nat
  BY <1>2, <1>3, <1>7 DEF q
<1>12. TypeInv'
  <2>1. write' \in [src : Nat, offset : Nat, left : Nat, unit : Nat, tail : Nat]
    BY <1>2, <1>3, <1>7, <1>11
  <2>2. pc' \in Labels
    BY <1>1 DEF Labels
  <2> QED
    BY <1>1, <2>1, <2>2 DEF IInv, TypeInv
<1>13. CountInv'
  <2>1. pc' \in Writing /\ pc \in Writing
    BY <1>1 DEF Writing
  <2>2. pc' \notin {"idle", "header", "end", "chunk", "fill"}
    BY <1>1
  <2> QED
    BY <1>1, <2>1, <2>2 DEF IInv, CountInv, img, HeaderFits
<1>14. WriteInv'
  <2>1. Lo <= q /\ q + (write.left - size) + write.tail = Hi
    BY <1>2, <1>3, <1>4, <1>5, <1>6
  <2>2. chunk.kind # "fill" => write.src + size = q
    BY <1>2, <1>3, <1>4, <1>5, <1>6
  <2>3. pc' = "write" => write'.left > 0
    BY <1>1
  <2>4. pc' = "tail" => write'.left = 0 /\ write'.tail > 0
    BY <1>1, <1>7, <1>11
  <2>5. write.unit % BlockSize = 0 \/ write.left - size <= write.unit
    BY <1>2, <1>3, <1>5
  <2>6. chunk' = chunk
    BY <1>1
  <2> QED
    BY <1>5, <1>7, <1>8, <1>10, <1>11, <2>1, <2>2, <2>3, <2>4, <2>5, <2>6
       DEF WriteInv
<1>15. OldOrNew' /\ FlashedInv' /\ SentInv' /\ PieceInv'
  <2>1. Position = p
    BY <1>1 DEF Position, p
  <2>2. pc' = "written" => Hi = q
    <3>1. pc' = "written" => ~(write'.left > 0) /\ ~(write.tail > 0)
      BY <1>1
    <3>2. write.left - size \in Nat /\ write.tail \in Nat /\ size \in Nat
      BY <1>2, <1>3, <1>7, <1>11
    <3>3. pc' = "written" => write.left = size /\ write.tail = 0
      BY <1>2, <1>7, <3>1, <3>2
    <3> QED
      BY <1>2, <1>4, <1>5, <1>6, <3>2, <3>3
  <2>3. Position' = q
    BY <1>1, <1>10, <1>11, <2>2 DEF Position
  <2>4. ASSUME NEW u \in Units, u < q, ~(u < p)
        PROVE disk'[u] = Promised(img, u)
    <3>1. u \in Nat /\ p <= u /\ u < p + size
      BY <1>3, <1>4, <1>6, <2>4, Sizes DEF Units
    <3> QED
      BY <1>1, <1>3, <3>1, RequestWrites DEF size, p
  <2> QED
    BY <1>1, <1>9, <2>1, <2>3, <2>4, Advance
<1> QED
  BY <1>1, <1>12, <1>13, <1>14, <1>15, SameResult DEF IInv

LEMMA WriteTailStep == IInv /\ WriteTail => IInv'
<1> SUFFICES ASSUME IInv, WriteTail PROVE IInv'
  OBVIOUS
<1>1. /\ pc = "tail" /\ pc' = "written" /\ disk' = WrittenUpTo(write.tail)
      /\ UNCHANGED <<before, piece, TotalBlocks, chunk, write, FlashResult, spoiled,
                     host, images, faults>>
  BY DEF WriteTail, LastBuffer
<1> DEFINE p == write.offset * BlockSize
<1>2. write.tail \in Nat /\ p + write.tail = Hi /\ p \in Nat /\ Hi \in Nat
  BY <1>1, TailRequest, Range, Sizes DEF IInv, TypeInv, Writing
<1>3. Progress
  BY <1>1, <1>2, WrittenProgress
<1>4. TypeInv' /\ WriteInv'
  BY <1>1 DEF IInv, TypeInv, WriteInv, Labels
<1>5. CountInv'
  <2>1. pc' \in Writing /\ pc \in Writing
    BY <1>1 DEF Writing
  <2> QED
    BY <1>1, <2>1 DEF IInv, CountInv, img, HeaderFits
<1>6. OldOrNew' /\ FlashedInv' /\ SentInv' /\ PieceInv'
  <2>1. Position = p /\ Position' = Hi
    BY <1>1 DEF Position, Hi, img
  <2>2. ASSUME NEW u \in Units, u < Hi, ~(u < p)
        PROVE disk'[u] = Promised(img, u)
    <3>1. u \in Nat /\ p <= u /\ u < p + write.tail
      BY <1>2, <2>2, Sizes DEF Units
    <3> QED
      BY <1>1, <1>2, <3>1, RequestWrites DEF p
  <2> QED
    BY <1>1, <1>3, <2>1, <2>2, Advance
<1> QED
  BY <1>1, <1>4, <1>5, <1>6, SameResult DEF IInv

\* Positions of a flash that has written nothing since stay where they are.
LEMMA Hold ==
  ASSUME IInv, pc # "idle", pc' # "idle", disk' = disk,
         before' = before, host' = host, piece' = piece, Position' = Position
  PROVE OldOrNew' /\ FlashedInv' /\ SentInv' /\ PieceInv'
  BY StillProgress, Advance

LEMMA FlashRawStep == IInv /\ FlashRaw => IInv'
<1> SUFFICES ASSUME IInv, FlashRaw PROVE IInv'
  OBVIOUS
<1>1. /\ pc = "header" /\ ~IsSparse(img) /\ img.len <= PartitionSize
      /\ WriteBlocks(0, 0, img.len, {img.len})
      /\ UNCHANGED <<disk, before, piece, TotalBlocks, chunk, FlashResult, spoiled,
                     host, images, faults>>
  BY DEF FlashRaw, img
<1>2. img.len \in Nat \ {0}
  BY <1>1, ImageType DEF IInv, PieceInv
<1>3. /\ write' \in [src : Nat, offset : Nat, left : Nat, unit : Nat, tail : Nat]
      /\ write'.src = 0 /\ write'.offset = 0
      /\ write'.left + write'.tail = img.len
      /\ write'.left % BlockSize = 0 /\ write'.tail < BlockSize
      /\ write'.unit > 0
      /\ write'.unit % BlockSize = 0 \/ write'.left <= write'.unit
      /\ \/ pc' = "write" /\ write'.left > 0
         \/ pc' = "tail" /\ write'.left = 0 /\ write'.tail > 0
  BY <1>1, <1>2, Call
<1>4. write'.left \in Nat /\ write'.tail \in Nat
  BY <1>3
<1>5. 0 * BlockSize = 0
  BY Sizes
<1>6. TypeInv'
  BY <1>1, <1>3 DEF IInv, TypeInv, Labels
<1>7. CountInv'
  <2>1. chunk' = NoChunk
    BY <1>1 DEF IInv, CountInv
  <2>2. pc' \in Writing /\ ~IsSparse(img')
    BY <1>1, <1>3 DEF Writing, img
  <2>3. img'.len <= PartitionSize
    BY <1>1 DEF img
  <2> QED
    BY <1>3, <2>1, <2>2, <2>3 DEF CountInv
<1>8. WriteInv'
  <2>1. Lo' = 0 /\ Hi' = img.len
    BY <1>1 DEF Lo, Hi, img
  <2>2. write'.offset * BlockSize = 0
    BY <1>3, <1>5
  <2>3. 0 + write'.left + write'.tail = img.len
    BY <1>3, <1>4
  <2> QED
    BY <1>3, <2>1, <2>2, <2>3 DEF WriteInv
<1>9. Position = 0 /\ Position' = 0
  BY <1>1, <1>3, <1>5 DEF Position
<1>10. OldOrNew' /\ FlashedInv' /\ SentInv' /\ PieceInv'
  BY <1>1, <1>3, <1>9, Hold
<1> QED
  BY <1>1, <1>6, <1>7, <1>8, <1>10, SameResult DEF IInv

LEMMA CheckHeaderStep == IInv /\ CheckHeader => IInv'
<1> SUFFICES ASSUME IInv, CheckHeader PROVE IInv'
  OBVIOUS
<1>1. /\ pc = "header" /\ pc' = "chunk" /\ IsSparse(img) /\ HeaderFits(img)
      /\ UNCHANGED <<disk, before, piece, TotalBlocks, chunk, write, FlashResult,
                     spoiled, host, images, faults>>
  BY DEF CheckHeader, img
<1>2. img.blk \in Nat /\ Blocks(img) \in Nat
  BY <1>1, ImageType DEF IInv, PieceInv
<1>3. chunk = NoChunk /\ TotalBlocks = 0
  BY <1>1 DEF IInv, CountInv
<1>4. TypeInv' /\ WriteInv'
  BY <1>1 DEF IInv, TypeInv, WriteInv, Labels
<1>5. CountInv'
  <2>1. chunk'.next = 0 /\ chunk'.left = 0 /\ TotalBlocks' = 0 /\ img' = img
    BY <1>1, <1>3 DEF NoChunk, img
  <2>2. 0 * img.blk = 0 /\ 0 <= PartitionSize
    BY <1>2, Sizes
  <2>3. HeaderFits(img')
    BY <1>1, <2>1
  <2> QED
    BY <1>1, <1>2, <2>1, <2>2, <2>3 DEF CountInv, Writing
<1>6. Position = 0 /\ Position' = 0
  BY <1>1, <1>2, <1>3 DEF Position, Lo, img
<1>7. OldOrNew' /\ FlashedInv' /\ SentInv' /\ PieceInv'
  BY <1>1, <1>6, Hold
<1> QED
  BY <1>1, <1>4, <1>5, <1>7, SameResult DEF IInv

\* A chunk of n blocks that the loader accepts.
LEMMA NextChunk ==
  ASSUME IInv, MoreChunks, NEW n \in ChunkSizes, ChunkFits(n)
  PROVE /\ pc = "chunk" /\ IsSparse(img) /\ HeaderFits(img) /\ img \in AllImages
        /\ chunk.left = 0 /\ chunk.next = TotalBlocks /\ TotalBlocks \in Nat
        /\ n \in Nat \ {0} /\ TotalBlocks + n <= Blocks(img)
        /\ img.blk \in Nat \ {0} /\ Blocks(img) \in Nat
        /\ (TotalBlocks + n) * img.blk <= PartitionSize
        /\ \A b \in TotalBlocks .. TotalBlocks + n - 1 : KindAt(b) = KindAt(TotalBlocks)
<1>1. pc = "chunk" /\ chunk.next < Blocks(img)
  BY DEF MoreChunks, img
<1>2. IsSparse(img) /\ HeaderFits(img) /\ chunk.next = TotalBlocks + chunk.left
      /\ chunk.left = 0 /\ img \in AllImages
  BY <1>1 DEF IInv, CountInv, PieceInv
<1>3. /\ img.blk \in Nat \ {0} /\ Blocks(img) \in Nat /\ TotalBlocks \in Nat
      /\ chunk.next \in Nat
  BY <1>2, ImageType DEF IInv, TypeInv
<1>4. chunk.next = TotalBlocks
  BY <1>2, <1>3
<1>5. n \in 1 .. Blocks(img) - TotalBlocks
  BY <1>4 DEF ChunkSizes, img
<1>6. n \in Nat \ {0} /\ TotalBlocks + n <= Blocks(img)
  BY <1>3, <1>5
<1>7. \A b \in TotalBlocks .. TotalBlocks + n - 1 : KindAt(b) = KindAt(TotalBlocks)
  BY <1>4 DEF ChunkSizes
<1>8. (TotalBlocks + n) * img.blk = TotalBlocks * img.blk + n * img.blk
  BY <1>3, <1>6, Distribute
<1>9. (TotalBlocks + n) * img.blk <= PartitionSize
  BY <1>8 DEF ChunkFits, img
<1> QED
  BY <1>1, <1>2, <1>3, <1>4, <1>6, <1>7, <1>9

\* The blocks of a chunk that carries data are of its kind.
LEMMA ChunkKinds ==
  ASSUME IInv, MoreChunks, NEW n \in ChunkSizes, ChunkFits(n), KindAt(chunk.next) # "none"
  PROVE \A b \in TotalBlocks .. TotalBlocks + n - 1 :
          img.kinds[b + 1] = KindAt(chunk.next)
<1>1. /\ chunk.next = TotalBlocks
      /\ \A b \in TotalBlocks .. TotalBlocks + n - 1 : KindAt(b) = KindAt(TotalBlocks)
  BY NextChunk
<1> QED
  BY <1>1 DEF KindAt, img

\* What SparseWrite begins with.
LEMMA SparseCall ==
  ASSUME IInv, IsSparse(img), HeaderFits(img), img \in AllImages,
         NEW src \in Nat, NEW n \in Nat \ {0},
         SparseWrite(src, WrittenBlockCount, n * img.blk)
  PROVE /\ write' \in [src : Nat, offset : Nat, left : Nat, unit : Nat, tail : Nat]
        /\ write'.src = src /\ write'.offset * BlockSize = TotalBlocks * img.blk
        /\ write'.left + write'.tail = n * img.blk
        /\ write'.left % BlockSize = 0 /\ write'.tail < BlockSize
        /\ write'.unit > 0
        /\ write'.unit % BlockSize = 0 \/ write'.left <= write'.unit
        /\ \/ pc' = "write" /\ write'.left > 0
           \/ pc' = "tail" /\ write'.left = 0 /\ write'.tail > 0
<1>1. img.blk \in Nat \ {0} /\ TotalBlocks \in Nat
  BY ImageType DEF IInv, TypeInv
<1>2. /\ WrittenBlockCount * BlockSize = TotalBlocks * img.blk
      /\ img.blk \div BlockSize \in Nat
  BY <1>1, HeaderBlocks DEF WrittenBlockCount, BlockCountFactor, img
<1>3. WrittenBlockCount \in Nat
  BY <1>1, <1>2 DEF WrittenBlockCount, BlockCountFactor, img
<1> DEFINE size == n * img.blk
<1>4. size \in Nat \ {0}
  BY <1>1
<1>5. size % BlockSize = 0
  BY HeaderBlocks
<1>6. WriteBlocks(src, WrittenBlockCount, size, {MaxWrite, size})
  BY DEF SparseWrite
<1> HIDE DEF size
<1>7. \A unit \in {MaxWrite, size} : unit \in Nat \ {0} /\ unit % BlockSize = 0
  BY <1>4, <1>5, Sizes
<1>8. /\ write' \in [src : Nat, offset : Nat, left : Nat, unit : Nat, tail : Nat]
      /\ write'.src = src /\ write'.offset = WrittenBlockCount
      /\ write'.left + write'.tail = size
      /\ write'.left % BlockSize = 0 /\ write'.tail < BlockSize
      /\ write'.unit > 0
      /\ write'.unit % BlockSize = 0 \/ write'.left <= write'.unit
      /\ \/ pc' = "write" /\ write'.left > 0
         \/ pc' = "tail" /\ write'.left = 0 /\ write'.tail > 0
  BY <1>3, <1>4, <1>6, <1>7, Call
<1> QED
  BY <1>2, <1>8 DEF size

LEMMA RawChunkStep == IInv /\ RawChunk => IInv'
<1> SUFFICES ASSUME IInv, RawChunk PROVE IInv'
  OBVIOUS
<1>1. /\ MoreChunks /\ KindAt(chunk.next) = "raw"
      /\ UNCHANGED <<disk, before, piece, TotalBlocks, FlashResult, spoiled, host,
                     images, faults>>
  BY DEF RawChunk
<1>2. PICK n \in ChunkSizes :
        /\ ChunkFits(n)
        /\ chunk' = [kind |-> "raw", left |-> n, next |-> chunk.next + n]
        /\ SparseWrite(chunk.next * img.blk, WrittenBlockCount, n * img.blk)
  BY DEF RawChunk, img
<1>3. /\ pc = "chunk" /\ IsSparse(img) /\ HeaderFits(img) /\ img \in AllImages
      /\ chunk.left = 0 /\ chunk.next = TotalBlocks /\ TotalBlocks \in Nat
      /\ n \in Nat \ {0} /\ TotalBlocks + n <= Blocks(img)
      /\ img.blk \in Nat \ {0} /\ Blocks(img) \in Nat
      /\ (TotalBlocks + n) * img.blk <= PartitionSize
  BY <1>1, <1>2, NextChunk
<1>4. \A b \in TotalBlocks .. TotalBlocks + n - 1 : img.kinds[b + 1] = "raw"
  BY <1>1, <1>2, ChunkKinds
<1>5. TotalBlocks * img.blk \in Nat
  BY <1>3
<1>6. /\ write' \in [src : Nat, offset : Nat, left : Nat, unit : Nat, tail : Nat]
      /\ write'.src = TotalBlocks * img.blk
      /\ write'.offset * BlockSize = TotalBlocks * img.blk
      /\ write'.left + write'.tail = n * img.blk
      /\ write'.left % BlockSize = 0 /\ write'.tail < BlockSize
      /\ write'.unit > 0
      /\ write'.unit % BlockSize = 0 \/ write'.left <= write'.unit
      /\ \/ pc' = "write" /\ write'.left > 0
         \/ pc' = "tail" /\ write'.left = 0 /\ write'.tail > 0
  BY <1>2, <1>3, <1>5, SparseCall
<1>7. /\ chunk'.kind = "raw" /\ chunk'.left = n /\ chunk'.next = TotalBlocks + n
      /\ chunk' \in [kind : Kinds, left : Nat, next : Nat]
  BY <1>2, <1>3 DEF Kinds
<1>8. TypeInv'
  BY <1>1, <1>6, <1>7 DEF IInv, TypeInv, Labels
<1>9. img' = img /\ TotalBlocks' = TotalBlocks /\ pc' \in Writing
      /\ pc' \notin {"idle", "header", "end", "chunk", "fill"}
  BY <1>1, <1>6 DEF img, Writing
<1>10. CountInv'
  <2>1. HeaderFits(img')
    BY <1>3, <1>9
  <2>2. n # 0
    BY <1>3
  <2> QED
    BY <1>3, <1>4, <1>7, <1>9, <2>1, <2>2 DEF CountInv
<1>11. Lo' = TotalBlocks * img.blk /\ Hi' = (TotalBlocks + n) * img.blk
  BY <1>3, <1>7, <1>9 DEF Lo, Hi
<1>12. WriteInv'
  <2> DEFINE x == TotalBlocks * img.blk
             y == n * img.blk
             z == (TotalBlocks + n) * img.blk
  <2>1. z = x + y /\ x \in Nat /\ y \in Nat
    BY <1>3, Distribute
  <2> HIDE DEF x, y, z
  <2>2. write'.left \in Nat /\ write'.tail \in Nat /\ write'.left + write'.tail = y
    BY <1>6 DEF y
  <2>3. x + write'.left + write'.tail = z
    BY <2>1, <2>2
  <2>4. Lo' = x /\ Hi' = z /\ write'.offset * BlockSize = x /\ write'.src = x
    BY <1>6, <1>11 DEF x, z
  <2>5. x <= x
    BY <2>1
  <2> QED
    BY <1>6, <2>3, <2>4, <2>5 DEF WriteInv
<1>13. Position' = Position
  <2>1. Position = TotalBlocks * img.blk
    BY <1>3 DEF Position, Lo
  <2>2. Position' = TotalBlocks * img.blk
    BY <1>6 DEF Position
  <2> QED
    BY <2>1, <2>2
<1>14. OldOrNew' /\ FlashedInv' /\ SentInv' /\ PieceInv'
  BY <1>1, <1>3, <1>6, <1>13, Hold
<1> QED
  BY <1>1, <1>8, <1>10, <1>12, <1>14, SameResult DEF IInv

LEMMA FillChunkStep == IInv /\ FillChunk => IInv'
<1> SUFFICES ASSUME IInv, FillChunk PROVE IInv'
  OBVIOUS
<1>1. /\ MoreChunks /\ KindAt(chunk.next) = "fill" /\ pc' = "fill"
      /\ UNCHANGED <<disk, before, piece, TotalBlocks, write, FlashResult, spoiled,
                     host, images, faults>>
  BY DEF FillChunk
<1>2. PICK n \in ChunkSizes :
        /\ ChunkFits(n)
        /\ chunk' = [kind |-> "fill", left |-> n, next |-> chunk.next + n]
  BY DEF FillChunk
<1>3. /\ pc = "chunk" /\ IsSparse(img) /\ HeaderFits(img) /\ img \in AllImages
      /\ chunk.left = 0 /\ chunk.next = TotalBlocks /\ TotalBlocks \in Nat
      /\ n \in Nat \ {0} /\ TotalBlocks + n <= Blocks(img)
      /\ img.blk \in Nat \ {0} /\ Blocks(img) \in Nat
      /\ (TotalBlocks + n) * img.blk <= PartitionSize
  BY <1>1, <1>2, NextChunk
<1>4. \A b \in TotalBlocks .. TotalBlocks + n - 1 : img.kinds[b + 1] = "fill"
  BY <1>1, <1>2, ChunkKinds
<1>5. /\ chunk'.kind = "fill" /\ chunk'.left = n /\ chunk'.next = TotalBlocks + n
      /\ chunk' \in [kind : Kinds, left : Nat, next : Nat]
  BY <1>2, <1>3 DEF Kinds
<1>6. TypeInv' /\ WriteInv'
  BY <1>1, <1>5 DEF IInv, TypeInv, WriteInv, Labels
<1>7. img' = img /\ TotalBlocks' = TotalBlocks
  BY <1>1 DEF img
<1>8. CountInv'
  <2>1. HeaderFits(img')
    BY <1>3, <1>7
  <2>2. n # 0
    BY <1>3
  <2> QED
    BY <1>1, <1>3, <1>4, <1>5, <1>7, <2>1, <2>2 DEF CountInv, Writing
<1>9. Position' = Position
  BY <1>1, <1>3, <1>7 DEF Position, Lo
<1>10. OldOrNew' /\ FlashedInv' /\ SentInv' /\ PieceInv'
  BY <1>1, <1>3, <1>9, Hold
<1> QED
  BY <1>1, <1>6, <1>8, <1>10, SameResult DEF IInv

LEMMA SkippedChunkStep == IInv /\ SkippedChunk => IInv'
<1> SUFFICES ASSUME IInv, SkippedChunk PROVE IInv'
  OBVIOUS
<1>1. /\ MoreChunks /\ KindAt(chunk.next) = "none"
      /\ UNCHANGED <<disk, before, piece, pc, write, FlashResult, spoiled, host,
                     images, faults>>
  BY DEF SkippedChunk
<1>2. PICK n \in ChunkSizes :
        /\ ChunkFits(n)
        /\ chunk' = [chunk EXCEPT !.next = @ + n]
        /\ TotalBlocks' = TotalBlocks + n
  BY DEF SkippedChunk
<1>3. /\ pc = "chunk" /\ IsSparse(img) /\ HeaderFits(img) /\ img \in AllImages
      /\ chunk.left = 0 /\ chunk.next = TotalBlocks /\ TotalBlocks \in Nat
      /\ n \in Nat \ {0} /\ TotalBlocks + n <= Blocks(img)
      /\ img.blk \in Nat \ {0} /\ Blocks(img) \in Nat
      /\ (TotalBlocks + n) * img.blk <= PartitionSize
      /\ \A b \in TotalBlocks .. TotalBlocks + n - 1 : KindAt(b) = KindAt(TotalBlocks)
  BY <1>1, <1>2, NextChunk
<1>4. chunk \in [kind : Kinds, left : Nat, next : Nat]
  BY DEF IInv, TypeInv
<1>5. /\ chunk'.left = 0 /\ chunk'.next = TotalBlocks + n
      /\ chunk' \in [kind : Kinds, left : Nat, next : Nat]
  <2>1. chunk.next + n \in Nat
    BY <1>3
  <2> QED
    BY <1>2, <1>3, <1>4, <2>1
<1>6. TypeInv' /\ WriteInv'
  BY <1>1, <1>2, <1>3, <1>5 DEF IInv, TypeInv, WriteInv
<1>7. img' = img /\ TotalBlocks' = TotalBlocks + n /\ pc' = "chunk"
  BY <1>1, <1>2, <1>3 DEF img
<1>8. CountInv'
  <2>1. HeaderFits(img')
    BY <1>3, <1>7
  <2>2. TotalBlocks + n = TotalBlocks + n + 0
    BY <1>3
  <2> QED
    BY <1>3, <1>5, <1>7, <2>1, <2>2 DEF CountInv, Writing
<1>9. Position = TotalBlocks * img.blk /\ Position' = (TotalBlocks + n) * img.blk
  BY <1>3, <1>7 DEF Position, Lo
<1>10. ASSUME NEW u \in Units, Covers(img, u), u < Position', ~(u < Position),
              u \div img.blk < piece.to, ~(u \div img.blk < piece.from)
       PROVE FALSE
  <2> DEFINE b == u \div img.blk
  <2>1. u \in Int /\ b \in Int
    <3>1. u \in Int
      BY Sizes DEF Units
    <3>2. img.blk \in Nat \ {0}
      BY <1>3
    <3> QED
      BY <3>1, <3>2, DivMod
  <2>2. TotalBlocks * img.blk <= u /\ u < (TotalBlocks + n) * img.blk
    BY <1>3, <1>9, <1>10, <2>1
  <2>3. TotalBlocks \in Int /\ TotalBlocks + n \in Int
    BY <1>3
  <2>4. TotalBlocks <= b /\ b < TotalBlocks + n
    BY <1>3, <2>1, <2>2, <2>3, BlockOf
  <2>5. piece.from \in Nat /\ piece.to \in Nat
    BY <1>3 DEF IInv, PieceInv
  <2>6. piece.from <= b /\ b < piece.to
    BY <1>10, <2>1, <2>5
  <2>7. KindAt(b) = "none"
    BY <1>1, <1>3, <2>1, <2>4
  <2>8. img.kinds[b + 1] = "none"
    BY <2>1, <2>5, <2>6, <2>7 DEF KindAt, img
  <2> QED
    BY <1>3, <1>10, <2>8 DEF Covers, KindOf
<1>11. OldOrNew' /\ FlashedInv' /\ SentInv' /\ PieceInv'
  BY <1>1, <1>3, <1>10, StillProgress, Advance
<1> QED
  BY <1>1, <1>6, <1>8, <1>11, SameResult DEF IInv

LEMMA FillBlockStep == IInv /\ FillBlock => IInv'
<1> SUFFICES ASSUME IInv, FillBlock PROVE IInv'
  OBVIOUS
<1>1. /\ pc = "fill" /\ SparseWrite(0, WrittenBlockCount, img.blk)
      /\ UNCHANGED <<disk, before, piece, TotalBlocks, chunk, FlashResult, spoiled,
                     host, images, faults>>
  BY DEF FillBlock, img
<1>2. /\ IsSparse(img) /\ HeaderFits(img) /\ img \in AllImages
      /\ chunk.kind = "fill" /\ chunk.left # 0
  BY <1>1 DEF IInv, CountInv, PieceInv
<1>3. img.blk \in Nat \ {0} /\ TotalBlocks \in Nat /\ Blocks(img) \in Nat
  BY <1>2, ImageType DEF IInv, TypeInv
<1>4. 1 * img.blk = img.blk
  BY <1>3
<1>5. /\ write' \in [src : Nat, offset : Nat, left : Nat, unit : Nat, tail : Nat]
      /\ write'.src = 0
      /\ write'.offset * BlockSize = TotalBlocks * img.blk
      /\ write'.left + write'.tail = 1 * img.blk
      /\ write'.left % BlockSize = 0 /\ write'.tail < BlockSize
      /\ write'.unit > 0
      /\ write'.unit % BlockSize = 0 \/ write'.left <= write'.unit
      /\ \/ pc' = "write" /\ write'.left > 0
         \/ pc' = "tail" /\ write'.left = 0 /\ write'.tail > 0
  <2>1. SparseWrite(0, WrittenBlockCount, 1 * img.blk)
    BY <1>1, <1>4
  <2> QED
    BY <1>2, <2>1, SparseCall
<1>6. TypeInv'
  BY <1>1, <1>5 DEF IInv, TypeInv, Labels
<1>7. img' = img /\ TotalBlocks' = TotalBlocks /\ chunk' = chunk /\ pc' \in Writing
      /\ pc' \notin {"idle", "header", "end", "chunk", "fill"}
  BY <1>1, <1>5 DEF img, Writing
<1>8. CountInv'
  BY <1>1, <1>2, <1>7 DEF IInv, CountInv, HeaderFits
<1>9. Lo' = TotalBlocks * img.blk /\ Hi' = (TotalBlocks + 1) * img.blk
  BY <1>2, <1>7 DEF Lo, Hi
<1>10. WriteInv'
  <2> DEFINE x == TotalBlocks * img.blk
             z == (TotalBlocks + 1) * img.blk
  <2>1. z = x + 1 * img.blk /\ x \in Nat
    BY <1>3, Distribute
  <2> HIDE DEF x, z
  <2>2. /\ write'.left \in Nat /\ write'.tail \in Nat
        /\ write'.left + write'.tail = 1 * img.blk
    BY <1>5
  <2>3. x + write'.left + write'.tail = z
    BY <1>3, <1>4, <2>1, <2>2
  <2>4. Lo' = x /\ Hi' = z /\ write'.offset * BlockSize = x /\ x <= x
    BY <1>5, <1>9, <2>1 DEF x, z
  <2> QED
    BY <1>2, <1>5, <1>7, <2>3, <2>4 DEF WriteInv
<1>11. Position' = Position
  <2>1. Position = TotalBlocks * img.blk
    BY <1>1, <1>2 DEF Position, Lo
  <2>2. Position' = TotalBlocks * img.blk
    BY <1>5 DEF Position
  <2> QED
    BY <2>1, <2>2
<1>12. OldOrNew' /\ FlashedInv' /\ SentInv' /\ PieceInv'
  BY <1>1, <1>5, <1>11, Hold
<1> QED
  BY <1>1, <1>6, <1>8, <1>10, <1>12, SameResult DEF IInv

LEMMA ChunkWrittenStep == IInv /\ ChunkWritten => IInv'
<1> SUFFICES ASSUME IInv, ChunkWritten PROVE IInv'
  OBVIOUS
<1> DEFINE n == IF chunk.kind = "fill" THEN 1 ELSE chunk.left
<1>1. /\ pc = "written" /\ IsSparse(img) /\ write' = NoWrite
      /\ UNCHANGED <<disk, before, piece, FlashResult, spoiled, host, images, faults>>
      /\ TotalBlocks' = TotalBlocks + n /\ chunk' = [chunk EXCEPT !.left = @ - n]
      /\ pc' = IF chunk'.left > 0 THEN "fill" ELSE "chunk"
  BY DEF ChunkWritten, CountWritten, img
<1>2. /\ HeaderFits(img) /\ img \in AllImages
      /\ chunk.next = TotalBlocks + chunk.left /\ chunk.left # 0
      /\ chunk.next <= Blocks(img) /\ chunk.next * img.blk <= PartitionSize
      /\ \A b \in TotalBlocks .. chunk.next - 1 : img.kinds[b + 1] = chunk.kind
      /\ chunk.kind # "none"
  BY <1>1 DEF IInv, CountInv, PieceInv, Writing
<1>3. /\ chunk \in [kind : Kinds, left : Nat, next : Nat]
      /\ chunk.left \in Nat /\ chunk.next \in Nat /\ TotalBlocks \in Nat
      /\ img.blk \in Nat \ {0}
  BY <1>1, <1>2, ImageType DEF IInv, TypeInv
<1>4. n \in Nat /\ n <= chunk.left
  BY <1>2, <1>3
<1> HIDE DEF n
<1>5. chunk.left - n \in Nat
  BY <1>3, <1>4
<1>6. /\ chunk'.kind = chunk.kind /\ chunk'.left = chunk.left - n
      /\ chunk'.next = chunk.next
      /\ chunk' \in [kind : Kinds, left : Nat, next : Nat]
  BY <1>1, <1>3, <1>5
<1>7. TypeInv'
  BY <1>1, <1>3, <1>4, <1>6 DEF IInv, TypeInv, NoWrite, Labels
<1>8. pc' \in {"fill", "chunk"} /\ img' = img
  BY <1>1 DEF img
<1>9. CountInv'
  <2>1. chunk'.next = TotalBlocks' + chunk'.left
    BY <1>1, <1>2, <1>3, <1>4, <1>6
  <2>2. pc' = "chunk" <=> chunk'.left = 0
    BY <1>1, <1>5, <1>6
  <2>3. pc' = "fill" => chunk'.kind = "fill"
    BY <1>1, <1>3, <1>6 DEF n
  <2>4. ASSUME NEW b \in TotalBlocks' .. chunk'.next - 1
        PROVE img.kinds[b + 1] = chunk.kind
    <3>1. b \in TotalBlocks .. chunk.next - 1
      BY <1>1, <1>3, <1>4, <1>6, <2>4
    <3> QED
      BY <1>2, <3>1
  <2>5. HeaderFits(img') /\ IsSparse(img') /\ Blocks(img') = Blocks(img)
    BY <1>1, <1>2, <1>8
  <2> QED
    BY <1>2, <1>6, <1>8, <2>1, <2>2, <2>3, <2>4, <2>5 DEF CountInv, Writing
<1>10. WriteInv'
  BY <1>8 DEF WriteInv
<1>11. Position' = Position
  <2>1. Position = Hi
    BY <1>1 DEF Position
  <2>2. Position' = TotalBlocks' * img.blk
    BY <1>1, <1>8 DEF Position, Lo
  <2>3. CASE chunk.kind = "fill"
    BY <1>1, <2>1, <2>2, <2>3 DEF Hi, n
  <2>4. CASE chunk.kind # "fill"
    <3>1. TotalBlocks' = chunk.next
      BY <1>1, <1>2, <1>3, <2>4 DEF n
    <3> QED
      BY <1>1, <2>1, <2>2, <2>4, <3>1 DEF Hi
  <2> QED
    BY <2>3, <2>4
<1>12. OldOrNew' /\ FlashedInv' /\ SentInv' /\ PieceInv'
  BY <1>1, <1>8, <1>11, Hold
<1> QED
  BY <1>1, <1>7, <1>9, <1>10, <1>12, SameResult DEF IInv

LEMMA CompareTotalStep == IInv /\ CompareTotal => IInv'
<1> SUFFICES ASSUME IInv, CompareTotal PROVE IInv'
  OBVIOUS
<1>1. /\ pc = "chunk" /\ chunk.next = Blocks(img) /\ pc' = "end" /\ chunk' = NoChunk
      /\ FlashResult' = IF TotalBlocks = img.total_blks THEN "ok" ELSE "err"
      /\ UNCHANGED <<disk, before, piece, TotalBlocks, write, spoiled, host, images,
                     faults>>
  BY DEF CompareTotal, img
<1>2. /\ IsSparse(img) /\ chunk.next = TotalBlocks + chunk.left /\ chunk.left = 0
      /\ img \in AllImages
  BY <1>1 DEF IInv, CountInv, PieceInv
<1>3. img.blk \in Nat \ {0} /\ TotalBlocks \in Nat /\ Blocks(img) = TotalBlocks
  BY <1>1, <1>2, ImageType DEF IInv, TypeInv
<1>4. TypeInv' /\ CountInv' /\ WriteInv'
  BY <1>1 DEF IInv, TypeInv, CountInv, WriteInv, NoChunk, Kinds, Labels, Writing
<1>5. AcceptsFitting'
  BY <1>1, <1>2, <1>3 DEF AcceptsFitting, Suits, img
<1>6. ASSUME NEW u \in Units, Covers(img, u), ~(u < Position) PROVE FALSE
  BY <1>1, <1>2, <1>3, <1>6 DEF Covers, Position, Lo
<1>7. OldOrNew' /\ FlashedInv' /\ SentInv' /\ PieceInv'
  BY <1>1, <1>6, StillProgress, Advance
<1> QED
  BY <1>4, <1>5, <1>7 DEF IInv

LEMMA RawWrittenStep == IInv /\ RawWritten => IInv'
<1> SUFFICES ASSUME IInv, RawWritten PROVE IInv'
  OBVIOUS
<1>1. /\ pc = "written" /\ ~IsSparse(img) /\ pc' = "end" /\ write' = NoWrite
      /\ UNCHANGED <<disk, before, piece, TotalBlocks, chunk, FlashResult, spoiled,
                     host, images, faults>>
  BY DEF RawWritten, img
<1>2. chunk = NoChunk
  BY <1>1 DEF IInv, CountInv, Writing
<1>3. TypeInv' /\ CountInv' /\ WriteInv'
  BY <1>1, <1>2 DEF IInv, TypeInv, CountInv, WriteInv, NoWrite, Labels, Writing
<1>4. ASSUME NEW u \in Units, Covers(img, u), ~(u < Position) PROVE FALSE
  BY <1>1, <1>4 DEF Covers, Position, Hi
<1>5. OldOrNew' /\ FlashedInv' /\ SentInv' /\ PieceInv'
  BY <1>1, <1>4, StillProgress, Advance
<1> QED
  BY <1>1, <1>3, <1>5, SameResult DEF IInv

\* When a flash is over without an error, the partition has all that the image
\* has in the blocks up to the end of the piece.
LEMMA PieceWhole ==
  ASSUME IInv, pc = "end", FlashResult = "ok", NEW u \in Units, Covers(img, u),
         IsSparse(img) => u \div img.blk < piece.to
  PROVE disk[u] = Promised(img, u)
<1>1. u < PartitionSize
  BY Sizes DEF Units
<1>2. Position = PartitionSize
  BY DEF Position
<1> QED
  BY <1>1, <1>2 DEF IInv, FlashedInv, Carried

LEMMA AnswerSparseStep == IInv /\ AnswerSparse => IInv'
<1> SUFFICES ASSUME IInv, AnswerSparse PROVE IInv'
  OBVIOUS
<1> DEFINE st == IF piece.to = Blocks(img) THEN "sent" ELSE host.st
<1>1. /\ pc = "end" /\ IsSparse(img) /\ pc' = "idle" /\ FlashResult' = FlashResult
      /\ host' = [host EXCEPT !.from = piece.to, !.st = st]
      /\ UNCHANGED <<disk, before, piece, TotalBlocks, chunk, write, spoiled, images,
                     faults>>
  BY DEF AnswerSparse, ResultKept, img
<1>2. /\ host \in [st : {"none", "sends", "sent", "sure"},
                   img : AllImages \cup {NoImage}, from : Nat]
      /\ host.st = "sends" /\ host.img = img /\ img \in AllImages
      /\ piece.to \in Nat /\ piece.to <= Blocks(img)
  BY <1>1 DEF IInv, PieceInv
<1>3. st \in {"sends", "sent"} /\ (st = "sent" => piece.to = Blocks(img))
  BY <1>2
<1> HIDE DEF st
<1>4. /\ host'.st = st /\ host'.img = host.img /\ host'.from = piece.to
      /\ host' \in [st : {"none", "sends", "sent", "sure"},
                    img : AllImages \cup {NoImage}, from : Nat]
  BY <1>1, <1>2, <1>3
<1>5. TypeInv' /\ CountInv' /\ WriteInv'
  BY <1>1 DEF IInv, TypeInv, CountInv, WriteInv, Labels, Writing
<1>6. PieceInv' /\ FlashedInv'
  BY <1>1, <1>2, <1>3, <1>4 DEF PieceInv, FlashedInv
<1>7. OldOrNew'
  BY <1>1, <1>4 DEF IInv, OldOrNew
<1>8. SentInv'
  <2>1. SUFFICES ASSUME FlashResult = "ok", NEW u \in Units, Covers(img, u),
                        st = "sends" => u \div img.blk < piece.to
                 PROVE disk[u] = Promised(img, u)
    BY <1>1, <1>2, <1>4, <2>1 DEF SentInv
  <2>2. u \in Int /\ img.blk \in Nat \ {0} /\ Blocks(img) \in Nat
    BY <1>1, <1>2, ImageType, Sizes DEF Units
  <2>3. u < Blocks(img) * img.blk
    BY <1>1, <2>1 DEF Covers
  <2>4. u \div img.blk < Blocks(img)
    BY <2>2, <2>3, BlockOf
  <2>5. u \div img.blk < piece.to
    BY <1>3, <2>1, <2>4
  <2> QED
    BY <1>1, <2>1, <2>5, PieceWhole
<1> QED
  BY <1>1, <1>5, <1>6, <1>7, <1>8, SameResult DEF IInv

LEMMA AnswerRawStep == IInv /\ AnswerRaw => IInv'
<1> SUFFICES ASSUME IInv, AnswerRaw PROVE IInv'
  OBVIOUS
<1> DEFINE st == IF FlashResult = "ok" THEN "sure" ELSE "none"
<1>1. /\ pc = "end" /\ ~IsSparse(img) /\ pc' = "idle" /\ FlashResult' = "ok"
      /\ host' = [host EXCEPT !.st = st]
      /\ UNCHANGED <<disk, before, piece, TotalBlocks, chunk, write, spoiled, images,
                     faults>>
  BY DEF AnswerRaw, img
<1>2. /\ host \in [st : {"none", "sends", "sent", "sure"},
                   img : AllImages \cup {NoImage}, from : Nat]
      /\ host.img = img /\ img \in AllImages
  BY <1>1 DEF IInv, PieceInv
<1>3. st \in {"sure", "none"} /\ (st = "sure" => FlashResult = "ok")
  OBVIOUS
<1> HIDE DEF st
<1>4. /\ host'.st = st /\ host'.img = host.img
      /\ host' \in [st : {"none", "sends", "sent", "sure"},
                    img : AllImages \cup {NoImage}, from : Nat]
  BY <1>1, <1>2, <1>3
<1>5. TypeInv' /\ CountInv' /\ WriteInv'
  BY <1>1 DEF IInv, TypeInv, CountInv, WriteInv, Labels, Writing
<1>6. PieceInv' /\ FlashedInv' /\ AcceptsFitting'
  BY <1>1, <1>2, <1>4 DEF PieceInv, FlashedInv, AcceptsFitting
<1>7. OldOrNew'
  BY <1>1, <1>4 DEF IInv, OldOrNew
<1>8. SentInv'
  BY <1>1, <1>2, <1>3, <1>4, PieceWhole DEF SentInv
<1> QED
  BY <1>5, <1>6, <1>7, <1>8 DEF IInv

-----------------------------------------------------------------------------
(* The theorems                                                            *)

LEMMA NextStep == IInv /\ [Next]_vars => IInv'
<1> SUFFICES ASSUME IInv, [Next]_vars PROVE IInv'
  OBVIOUS
<1>1. CASE UNCHANGED vars
  <2>1. /\ UNCHANGED <<disk, before, piece, pc, TotalBlocks, chunk, write, FlashResult,
                       spoiled, host, images, faults>>
    BY <1>1 DEF vars, flash
  <2> QED
    BY <2>1 DEF IInv, TypeInv, PieceInv, CountInv, WriteInv, FlashedInv, SentInv,
       OldOrNew, AcceptsFitting, Carried, Position, Lo, Hi, img
<1>2. ASSUME NEW i \in SparseImages \cup RawImages, HostStarts(i) PROVE IInv'
  BY <1>2, HostStartsStep DEF AllImages
<1>3. CASE LastFlashFailed \/ HostFlashes \/ HostIsSure \/ PowerCut
  BY <1>3, LastFlashFailedStep, HostFlashesStep, HostIsSureStep, PowerCutStep
<1>4. CASE Device
  BY <1>4, FlashRawStep, RefusedStep, CheckHeaderStep, RawChunkStep, FillChunkStep,
     SkippedChunkStep, FillBlockStep, ChunkWrittenStep, CompareTotalStep,
     WriteRequestStep, RequestFailsStep, WriteTailStep, RawWrittenStep,
     AnswerSparseStep, AnswerRawStep
     DEF Device
<1> QED
  BY <1>1, <1>2, <1>3, <1>4 DEF Next

LEMMA Invariance == Spec => []IInv
<1>1. Init => IInv
  BY InitStep
<1>2. IInv /\ [Next]_vars => IInv'
  BY NextStep
<1> QED
  BY <1>1, <1>2, PTL DEF Spec

\* Every variable of a flash keeps its shape.
THEOREM TypeCorrect == Spec => []TypeOK
<1>1. IInv => TypeOK
  BY DEF IInv, TypeInv, PieceInv, TypeOK, Labels, AllImages
<1> QED
  BY <1>1, Invariance, PTL

\* No request of WriteBlockToPartition leaves the partition, whatever the
\* header of a sparse image says and however large its blocks are.
THEOREM InPartitionInvariance == Spec => []InPartition
<1>1. IInv => InPartition
  <2> SUFFICES ASSUME IInv PROVE InPartition
    OBVIOUS
  <2>1. pc = "write" =>
          write.offset * BlockSize + write.left + write.tail <= PartitionSize
    <3> SUFFICES ASSUME pc = "write"
                 PROVE write.offset * BlockSize + write.left + write.tail <= PartitionSize
      OBVIOUS
    <3>1. write.offset * BlockSize + write.left + write.tail = Hi
      BY DEF IInv, WriteInv
    <3>2. Hi <= PartitionSize
      BY Range DEF IInv, Writing
    <3> QED
      BY <3>1, <3>2
  <2>2. pc = "tail" => (write.offset + 1) * BlockSize <= PartitionSize
    BY TailRequest
  <2> QED
    BY <2>1, <2>2 DEF InPartition
<1> QED
  BY <1>1, Invariance, PTL

\* After every failure and every power cut a unit of the partition has what it
\* had before the image or what the image has for it, and a unit that the image
\* says nothing of is as before.
THEOREM OldOrNewInvariance == Spec => []OldOrNew
<1>1. IInv => OldOrNew
  BY DEF IInv
<1> QED
  BY <1>1, Invariance, PTL

\* A sound image that the partition can take is refused only after a fault,
\* in every division into pieces, chunks and requests.
THEOREM AcceptsFittingInvariance == Spec => []AcceptsFitting
<1>1. IInv => AcceptsFitting
  BY DEF IInv
<1> QED
  BY <1>1, Invariance, PTL

\* When the command after the last piece is accepted, the whole image is on the
\* partition, in every division into pieces, chunks and requests.
THEOREM FlashedWholeInvariance == Spec => []FlashedWhole
<1>1. IInv => FlashedWhole
  <2> SUFFICES ASSUME IInv, host.st = "sure", NEW u \in Units, Covers(host.img, u)
               PROVE disk[u] = Promised(host.img, u)
    BY DEF FlashedWhole
  <2>1. pc = "idle" /\ FlashResult = "ok"
    BY DEF IInv, PieceInv
  <2> QED
    BY <2>1 DEF IInv, SentInv
<1> QED
  BY <1>1, Invariance, PTL
=============================================================================
