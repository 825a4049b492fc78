---------------------------- MODULE SparseFlash ----------------------------
(***************************************************************************)
(* What a flash does to a partition: HandleSparseImgFlash with its chunks, *)
(* HandleRawImgFlash (FastbootCmds.c), and WriteBlockToPartition           *)
(* (LinuxLoaderLib.c) below both, with a host that sends a sparse image    *)
(* in one piece or in several.  FastbootSession models how pieces and      *)
(* commands arrive; here one has arrived when the next begins.             *)
(*                                                                         *)
(* Sizes are in units, the smallest amount of data that is told apart.  A  *)
(* sparse piece describes every block of its image: those it carries, and  *)
(* the others as DONT_CARE.  The chunks that describe them are chosen as   *)
(* the loader comes to them, so that every division into chunks occurs.    *)
(* CRC chunks, which hosts write only when asked to, and NAND are left     *)
(* out.  The partition is larger than MAX_DOWNLOAD_SIZE: a flash of a      *)
(* sparse piece is answered with OKAY and its failure reported to the next *)
(* command.                                                                *)
(***************************************************************************)
EXTENDS Integers, Sequences

CONSTANTS
  SparseImages, RawImages,
  BlockSize,      \* Media->BlockSize, in units
  LastBlock,      \* Media->LastBlock
  MaxWrite,       \* WriteUnitSize while USB events are polled, in units
  MaxImages,      \* bound: images that the host flashes
  MaxFaults       \* bound: failing requests, truncated pieces and power cuts

PartitionSize == (LastBlock + 1) * BlockSize

Kinds == {"raw", "fill", "none"}

\* name tells the data of one image from that of another; kinds says what each
\* block of blk units is; total_blks is what the header says their number is.
SparseImage ==
  [name : Nat \ {0}, blk : Nat \ {0}, total_blks : Nat, kinds : Seq(Kinds)]
RawImage == [name : Nat \ {0}, len : Nat \ {0}]

ASSUME FlashAssumption ==
  /\ SparseImages \subseteq SparseImage /\ RawImages \subseteq RawImage
  /\ BlockSize \in Nat \ {0} /\ LastBlock \in Nat
  /\ MaxWrite \in Nat \ {0} /\ MaxWrite % BlockSize = 0
  /\ MaxImages \in Nat /\ MaxFaults \in Nat

VARIABLES
  disk,       \* the units of the partition
  before,     \* history: the partition before the image that is being flashed
  piece,      \* what is in mFlashDataBuffer: blocks from .. to - 1 of an image
  pc,         \* where the flash is
  TotalBlocks,
  chunk,      \* the chunk being processed, its blocks not yet counted, and the
              \* block of the image at which the next one begins
  write,      \* locals of WriteBlockToPartition
  FlashResult,
  spoiled,    \* history: something failed in this flash
  host,       \* the image it is sending and the first block still to send
  images, faults

flash == <<piece, pc, TotalBlocks, chunk, write, FlashResult, spoiled>>
vars == <<disk, before, flash, host, images, faults>>

-----------------------------------------------------------------------------
(* Images and what they promise                                            *)

Units == 0 .. PartitionSize - 1
Old == [name |-> 0, unit |-> -1]      \* before the first flash
Datum(i, u) == [name |-> i.name, unit |-> u]
Filling(i) == [name |-> i.name, unit |-> -1]

IsSparse(i) == i \in SparseImages
Blocks(i) == Len(i.kinds)
KindOf(i, u) == i.kinds[u \div i.blk + 1]

Covers(i, u) ==
  IF IsSparse(i) THEN u < Blocks(i) * i.blk /\ KindOf(i, u) # "none"
                 ELSE u < i.len

\* The data that the image has for a unit it covers.
Promised(i, u) ==
  IF IsSparse(i) /\ KindOf(i, u) = "fill" THEN Filling(i) ELSE Datum(i, u)

\* A sound image that the partition can take
Suits(i) ==
  IF IsSparse(i)
  THEN /\ i.total_blks = Blocks(i) /\ i.total_blks * i.blk <= PartitionSize
       /\ i.blk % BlockSize = 0
  ELSE i.len <= PartitionSize

NoImage == [name |-> 0, len |-> 0]
NoPiece == [img |-> NoImage, from |-> 0, to |-> 0]
NoChunk == [kind |-> "none", left |-> 0, next |-> 0]
NoWrite == [src |-> 0, offset |-> 0, left |-> 0, unit |-> 0, tail |-> 0]

Init ==
  /\ disk = [u \in Units |-> Old] /\ before = disk
  /\ piece = NoPiece /\ pc = "idle"
  /\ TotalBlocks = 0 /\ chunk = NoChunk /\ write = NoWrite
  /\ FlashResult = "ok" /\ spoiled = FALSE
  /\ host = [st |-> "none", img |-> NoImage, from |-> 0]
  /\ images = 0 /\ faults = 0

-----------------------------------------------------------------------------
(* The host                                                                *)

HostStarts(i) ==
  /\ pc = "idle" /\ host.st \in {"none", "sure"} /\ images < MaxImages
  /\ host' = [st |-> "sends", img |-> i, from |-> 0]
  /\ before' = disk
  /\ images' = images + 1
  /\ UNCHANGED <<disk, flash, faults>>

\* How far the next piece may go: a file with a wrong header, and a raw image,
\* are sent as they are.
PieceEnds(i, from) ==
  IF ~IsSparse(i) THEN {0}
  ELSE IF i.total_blks # Blocks(i) THEN {Blocks(i)}
  ELSE from + 1 .. Blocks(i)

\* AcceptCmd for a download or flash, of the next piece or after the last one:
\* the last flash failed, and the host gives up.
LastFlashFailed ==
  /\ pc = "idle" /\ host.st \in {"sends", "sent"} /\ FlashResult = "err"
  /\ FlashResult' = "ok"
  /\ host' = [host EXCEPT !.st = "none"]
  /\ UNCHANGED <<disk, before, piece, pc, TotalBlocks, chunk, write, spoiled,
                 images, faults>>

\* The next piece is downloaded and its flash begins.
HostFlashes ==
  /\ pc = "idle" /\ host.st = "sends" /\ FlashResult = "ok"
  /\ \E to \in PieceEnds(host.img, host.from) :
       piece' = [img |-> host.img, from |-> host.from, to |-> to]
  /\ pc' = "header" /\ TotalBlocks' = 0 /\ spoiled' = FALSE
  /\ UNCHANGED <<disk, before, chunk, write, FlashResult, host, images, faults>>

\* The download or flash after the last piece is accepted: the host knows that
\* the image was flashed.
HostIsSure ==
  /\ pc = "idle" /\ host.st = "sent" /\ FlashResult = "ok"
  /\ host' = [host EXCEPT !.st = "sure"]
  /\ UNCHANGED <<disk, before, flash, images, faults>>

-----------------------------------------------------------------------------
(* WriteBlockToPartition                                                   *)

\* The call: units is the unit in which it writes.
WriteBlocks(src, offset, size, units) ==
  LET DivMsgBufSize == (size \div BlockSize) * BlockSize
  IN  /\ \E unit \in units :
           write' = [src |-> src, offset |-> offset, left |-> DivMsgBufSize,
                     unit |-> unit, tail |-> size - DivMsgBufSize]
      /\ pc' = IF DivMsgBufSize > 0 THEN "write" ELSE "tail"

\* The request that is due, and what it makes of the partition if only its
\* first n units are written.
WriteSize == IF write.left > write.unit THEN write.unit ELSE write.left
Fits(size) == write.offset * BlockSize + size <= PartitionSize
Source(n) ==
  IF chunk.kind = "fill" THEN Filling(piece.img)
                         ELSE Datum(piece.img, write.src + n)
WrittenUpTo(n) ==
  [u \in Units |-> LET k == u - write.offset * BlockSize
                   IN  IF k \in 0 .. n - 1 THEN Source(k) ELSE disk[u]]

\* The flash ends with an error.
Fails ==
  /\ FlashResult' = "err" /\ spoiled' = (faults' > faults) /\ pc' = "end"
  /\ chunk' = NoChunk /\ write' = NoWrite
  /\ UNCHANGED <<before, piece, TotalBlocks, host, images>>

\* Locals after a request that succeeded.
NextRequest ==
  [write EXCEPT !.src = @ + WriteSize, !.offset = @ + WriteSize \div BlockSize,
                !.left = @ - WriteSize]

WriteRequest ==
  /\ pc = "write" /\ write.left > 0 /\ Fits(WriteSize)
  /\ disk' = WrittenUpTo(WriteSize)
  /\ write' = NextRequest
  /\ pc' = IF write'.left > 0 THEN "write"
           ELSE IF write.tail > 0 THEN "tail" ELSE "written"
  /\ UNCHANGED <<before, piece, TotalBlocks, chunk, FlashResult, spoiled, host,
                 images, faults>>

\* The request fails after some of its blocks, or is refused by the driver.
WriteRequestFails ==
  /\ pc = "write"
  /\ IF Fits(WriteSize)
     THEN /\ faults < MaxFaults /\ faults' = faults + 1
          /\ \E n \in 0 .. WriteSize \div BlockSize :
               disk' = WrittenUpTo(n * BlockSize)
     ELSE UNCHANGED <<disk, faults>>
  /\ Fails

\* Mutant of LastBuffer: the last block is not read before it is written.
LastBufferZeroed ==
  [u \in Units |-> LET k == u - write.offset * BlockSize
                   IN  IF k \in 0 .. write.tail - 1 THEN Source(k)
                       ELSE IF k \in 0 .. BlockSize - 1 THEN Old ELSE disk[u]]

\* ImageBuffer, read and then changed, written back
LastBuffer == WrittenUpTo(write.tail)

WriteTail ==
  /\ pc = "tail" /\ Fits(BlockSize)
  /\ disk' = LastBuffer
  /\ pc' = "written"
  /\ UNCHANGED <<before, piece, TotalBlocks, chunk, write, FlashResult, spoiled,
                 host, images, faults>>

\* Allocating, reading or writing the last block fails.
WriteTailFails ==
  /\ pc = "tail"
  /\ IF Fits(BlockSize) THEN faults < MaxFaults /\ faults' = faults + 1
                        ELSE UNCHANGED faults
  /\ UNCHANGED disk
  /\ Fails

-----------------------------------------------------------------------------
(* HandleRawImgFlash                                                       *)

FlashRaw ==
  /\ pc = "header" /\ ~IsSparse(piece.img)
  /\ piece.img.len <= PartitionSize
  /\ WriteBlocks(0, 0, piece.img.len, {piece.img.len})
  /\ UNCHANGED <<disk, before, piece, TotalBlocks, chunk, FlashResult, spoiled,
                 host, images, faults>>

RawRefused ==
  /\ pc = "header" /\ ~IsSparse(piece.img)
  /\ PartitionSize < piece.img.len
  /\ UNCHANGED <<disk, faults>> /\ Fails

-----------------------------------------------------------------------------
(* HandleSparseImgFlash                                                    *)

SparseWrite(src, offset, size) ==
  WriteBlocks(src, offset, size, {MaxWrite, size})

BlockCountFactor == piece.img.blk \div BlockSize

\* The block of the device at which the next block is written.
WrittenBlockCount == TotalBlocks * BlockCountFactor

\* Mutant of HeaderFits: an image as large as the partition is refused.
HeaderFitsStrictly(img) ==
  img.total_blks * img.blk < PartitionSize /\ img.blk % BlockSize = 0

HeaderFits(img) ==
  img.total_blks * img.blk <= PartitionSize /\ img.blk % BlockSize = 0

CheckHeader ==
  /\ pc = "header" /\ IsSparse(piece.img) /\ HeaderFits(piece.img)
  /\ pc' = "chunk"
  /\ UNCHANGED <<disk, before, piece, TotalBlocks, chunk, write, FlashResult,
                 spoiled, host, images, faults>>

HeaderRefused ==
  /\ pc = "header" /\ IsSparse(piece.img) /\ ~HeaderFits(piece.img)
  /\ UNCHANGED <<disk, faults>> /\ Fails

\* What the piece has for a block of its image
KindAt(b) ==
  IF b \in piece.from .. piece.to - 1 THEN piece.img.kinds[b + 1] ELSE "none"

\* The lengths that the next chunk may have.
ChunkSizes ==
  {n \in 1 .. Blocks(piece.img) - chunk.next :
     \A b \in chunk.next .. chunk.next + n - 1 : KindAt(b) = KindAt(chunk.next)}

MoreChunks == pc = "chunk" /\ chunk.next < Blocks(piece.img)

\* Mutant of ChunkFits: only its beginning has to be in the partition.
ChunkBegins(n) == TotalBlocks * piece.img.blk < PartitionSize

ChunkFits(n) ==
  /\ TotalBlocks * piece.img.blk < PartitionSize
  /\ TotalBlocks * piece.img.blk + n * piece.img.blk <= PartitionSize

ChunkRefused ==
  /\ MoreChunks
  /\ \E n \in ChunkSizes : ~ChunkFits(n)
  /\ UNCHANGED <<disk, faults>> /\ Fails

\* The piece ends within the chunk, or there is no memory for FillBuf.
ChunkCut ==
  /\ MoreChunks /\ KindAt(chunk.next) # "none"
  /\ faults < MaxFaults /\ faults' = faults + 1
  /\ UNCHANGED disk /\ Fails

RawChunk ==
  /\ MoreChunks /\ KindAt(chunk.next) = "raw"
  /\ \E n \in ChunkSizes :
       /\ ChunkFits(n)
       /\ chunk' = [kind |-> "raw", left |-> n, next |-> chunk.next + n]
       /\ SparseWrite(chunk.next * piece.img.blk, WrittenBlockCount,
                      n * piece.img.blk)
  /\ UNCHANGED <<disk, before, piece, TotalBlocks, FlashResult, spoiled, host,
                 images, faults>>

FillChunk ==
  /\ MoreChunks /\ KindAt(chunk.next) = "fill"
  /\ \E n \in ChunkSizes :
       /\ ChunkFits(n)
       /\ chunk' = [kind |-> "fill", left |-> n, next |-> chunk.next + n]
  /\ pc' = "fill"
  /\ UNCHANGED <<disk, before, piece, TotalBlocks, write, FlashResult, spoiled,
                 host, images, faults>>

SkippedChunk ==
  /\ MoreChunks /\ KindAt(chunk.next) = "none"
  /\ \E n \in ChunkSizes :
       /\ ChunkFits(n)
       /\ chunk' = [chunk EXCEPT !.next = @ + n]
       /\ TotalBlocks' = TotalBlocks + n
  /\ UNCHANGED <<disk, before, piece, pc, write, FlashResult, spoiled, host,
                 images, faults>>

FillBlock ==
  /\ pc = "fill"
  /\ TotalBlocks * piece.img.blk + piece.img.blk <= PartitionSize
  /\ SparseWrite(0, WrittenBlockCount, piece.img.blk)
  /\ UNCHANGED <<disk, before, piece, TotalBlocks, chunk, FlashResult, spoiled,
                 host, images, faults>>

\* The blocks written by this call of WriteToDisk are counted.
CountWritten ==
  LET n == IF chunk.kind = "fill" THEN 1 ELSE chunk.left
  IN  TotalBlocks' = TotalBlocks + n /\ chunk' = [chunk EXCEPT !.left = @ - n]

ChunkWritten ==
  /\ pc = "written" /\ IsSparse(piece.img)
  /\ CountWritten
  /\ pc' = IF chunk'.left > 0 THEN "fill" ELSE "chunk"
  /\ write' = NoWrite
  /\ UNCHANGED <<disk, before, piece, FlashResult, spoiled, host, images,
                 faults>>

\* All chunks are processed.
CompareTotal ==
  /\ pc = "chunk" /\ chunk.next = Blocks(piece.img)
  /\ pc' = "end" /\ chunk' = NoChunk
  /\ FlashResult' = IF TotalBlocks = piece.img.total_blks THEN "ok" ELSE "err"
  /\ UNCHANGED <<disk, before, piece, TotalBlocks, write, spoiled, host, images,
                 faults>>

-----------------------------------------------------------------------------
(* CmdFlash                                                                *)

RawWritten ==
  /\ pc = "written" /\ ~IsSparse(piece.img)
  /\ pc' = "end" /\ write' = NoWrite
  /\ UNCHANGED <<disk, before, piece, TotalBlocks, chunk, FlashResult, spoiled,
                 host, images, faults>>

\* Mutant of ResultKept: the result of a flash is reset when it was answered.
ResultReset == FlashResult' = "ok"

\* Only a command that comes later looks at the result of a sparse piece.
ResultKept == FlashResult' = FlashResult

\* A sparse piece is answered with OKAY whatever its result.
AnswerSparse ==
  /\ pc = "end" /\ IsSparse(piece.img)
  /\ pc' = "idle"
  /\ LET st == IF piece.to = Blocks(piece.img) THEN "sent" ELSE host.st
     IN  host' = [host EXCEPT !.from = piece.to, !.st = st]
  /\ ResultKept
  /\ UNCHANGED <<disk, before, piece, TotalBlocks, chunk, write, spoiled,
                 images, faults>>

AnswerRaw ==
  /\ pc = "end" /\ ~IsSparse(piece.img)
  /\ pc' = "idle" /\ FlashResult' = "ok"
  /\ host' = [host EXCEPT !.st = IF FlashResult = "ok" THEN "sure" ELSE "none"]
  /\ UNCHANGED <<disk, before, piece, TotalBlocks, chunk, write, spoiled,
                 images, faults>>

\* Power is lost; a request under way has written some of its blocks.
PowerCut ==
  /\ pc # "idle" /\ faults < MaxFaults /\ faults' = faults + 1
  /\ \/ pc # "write" /\ UNCHANGED disk
     \/ /\ pc = "write"
        /\ \E n \in 0 .. WriteSize \div BlockSize :
             disk' = WrittenUpTo(n * BlockSize)
  /\ piece' = NoPiece /\ pc' = "idle" /\ TotalBlocks' = 0
  /\ chunk' = NoChunk /\ write' = NoWrite
  /\ FlashResult' = "ok" /\ spoiled' = FALSE
  /\ host' = [host EXCEPT !.st = "none"]
  /\ UNCHANGED <<before, images>>

Device ==
  \/ FlashRaw \/ RawRefused
  \/ CheckHeader \/ HeaderRefused
  \/ ChunkRefused \/ ChunkCut \/ RawChunk \/ FillChunk \/ SkippedChunk
  \/ FillBlock \/ ChunkWritten \/ CompareTotal
  \/ WriteRequest \/ WriteRequestFails \/ WriteTail \/ WriteTailFails
  \/ RawWritten \/ AnswerSparse \/ AnswerRaw

Next ==
  \/ \E i \in SparseImages \cup RawImages : HostStarts(i)
  \/ LastFlashFailed \/ HostFlashes \/ HostIsSure
  \/ Device \/ PowerCut

Spec == Init /\ [][Next]_vars

-----------------------------------------------------------------------------
(* Correctness                                                             *)

\* Every variable keeps its shape.
TypeOK ==
  /\ pc \in {"idle", "header", "chunk", "fill", "write", "tail", "written", "end"}
  /\ TotalBlocks \in Nat /\ images \in Nat /\ faults \in Nat
  /\ chunk \in [kind : Kinds, left : Nat, next : Nat]
  /\ write \in [src : Nat, offset : Nat, left : Nat, unit : Nat, tail : Nat]
  /\ host \in [st : {"none", "sends", "sent", "sure"},
               img : SparseImages \cup RawImages \cup {NoImage}, from : Nat]
  /\ FlashResult \in {"ok", "err"} /\ spoiled \in BOOLEAN

\* When all pieces of an image were answered and the command after them was
\* accepted, everything that any piece carried is on the partition: although
\* the answers to the pieces say nothing, no failure is lost, and no piece
\* destroys what another one has written.  HandleSparseImgFlash, CmdFlash.
FlashedWhole ==
  host.st = "sure" =>
    \A u \in Units : Covers(host.img, u) => disk[u] = Promised(host.img, u)

\* Whatever fails and whenever power is lost, a unit has what it had before the
\* image, or what the image has for it; a unit the image says nothing of, be it
\* DONT_CARE or the rest of a last block, is as before.
\* WriteBlockToPartition.
OldOrNew ==
  \A u \in Units :
    \/ disk[u] = before[u]
    \/ Covers(host.img, u) /\ disk[u] = Promised(host.img, u)

\* A flash is an error only if a request failed or the piece was cut short, or
\* if the image is wrong or the partition cannot take it: an image as large as
\* the partition is accepted, in every division into pieces and chunks.
\* HandleSparseImgFlash, HandleRawImgFlash.
AcceptsFitting == FlashResult = "err" => spoiled \/ ~Suits(piece.img)

\* No request leaves the partition, with a header that does not tell the number
\* of blocks too; the checks of the header, of the chunk and of each filled
\* block are what stands before the driver.  HandleSparseImgFlash.
InPartition ==
  /\ pc = "write" =>
       write.offset * BlockSize + write.left + write.tail <= PartitionSize
  /\ pc = "tail" => (write.offset + 1) * BlockSize <= PartitionSize
=============================================================================
