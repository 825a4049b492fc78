--------------------------- MODULE FastbootSession ---------------------------
(***************************************************************************)
(* A fastboot session: the command and data phases of FastbootCmds.c, the  *)
(* event loop of FastbootMain.c, its timers, and the host at the other end *)
(* of the cable.                                                           *)
(*                                                                         *)
(* The main thread polls the USB driver and executes a command within the  *)
(* poll.  While it flashes a sparse image into a big partition a periodic  *)
(* timer polls in its stead, so that the next image could be downloaded    *)
(* into the other buffer.  A host that waits for the OKAY of its flash     *)
(* does not do so, because that is sent after the flash; a host that was   *)
(* plugged in again in the meantime does.  Timer callbacks run to          *)
(* completion between any two steps of the main thread and never interrupt *)
(* one another: each is one action.  A flash that is started by a callback *)
(* is therefore one action, one that is started by the main loop is        *)
(* several.                                                                *)
(*                                                                         *)
(* The USB driver is not part of the repository.  It holds one transfer    *)
(* per direction; Send on an endpoint that has one fails, as EFIUsbDevice.h*)
(* documents it; the reply it was called for may still replace the one     *)
(* that is waiting, because both are put into gTxBuffer.  The cable may    *)
(* be pulled and plugged in again at any time.                             *)
(*                                                                         *)
(* Events and memory are taken to be available (CreateEvent succeeds), the *)
(* storage has two buffers (it is not NAND), and parallel download is      *)
(* compiled in.  Bound: the cable is pulled at most MaxReplugs times.      *)
(***************************************************************************)
EXTENDS Integers

CONSTANTS
  Images,       \* what a host may download
  Sparse,       \* the images that start with SPARSE_HEADER_MAGIC
  SizeOf,       \* SizeOf[p]: the size of partition p against MAX_DOWNLOAD_SIZE;
                \* "absent" also for one that may not be flashed
  Transfers,    \* USB transfers in the data phase of a download
  MaxReplugs    \* bound on replugs

Ptns == DOMAIN SizeOf

ASSUME SessionAssumption ==
  /\ Sparse \subseteq Images
  /\ \A p \in Ptns : SizeOf[p] \in {"absent", "small", "exact", "big"}
  /\ Transfers \in Nat \ {0}
  /\ MaxReplugs \in Nat

Bufs == {0, 1}

\* What a buffer holds besides an image, and a length no image has.
Zeros == "zeros"
Mixed == "mixed"
BadLength == "bad"

ASSUME MarkAssumption == {Zeros, Mixed, BadLength} \cap Images = {}

\* What may arrive in gRxBuffer; "other" stands for all commands that do
\* nothing but answer, "unknown" for image data that is taken for a command.
Commands ==
  [k : {"download"}, img : Images \cup {BadLength}] \cup
  [k : {"flash"}, ptn : Ptns] \cup
  [k : {"other", "unknown"}]

Replies == {"OKAY", "FAIL", "DATA"}

VARIABLES
  mState,         \* ExpectCmdState or ExpectDataState
  usbBuf,         \* mUsbDataBuffer; mFlashDataBuffer is the other one
  content,        \* what the two buffers hold
  numData,        \* mNumDataBytes, as the image that has this length
  got,            \* mBytesReceivedSoFar, in whole transfers
  intact,         \* this data phase brought the image and nothing else
  main,           \* the main thread: its step and the locals of CmdFlash
  flashComplete,  \* IsFlashComplete
  flashResult,    \* FlashResult
  usbTimer,       \* UsbTimerEvent exists
  okTimers,       \* events of FlashCompleteHandler
  cmdTimers,      \* events of AcceptCmdHandler
  rxBuf,          \* the command in gRxBuffer
  rx,             \* where the pending receive goes: gRxBuffer ("cmd"), the
                  \* start of the download buffer, or where the data ends
  tx,             \* the reply that is being sent
  conn,           \* the cable: "down", "new" until it is noticed, "up"
  host,           \* what the host is doing
  replugs,        \* how often the cable was pulled
  careful,        \* history: the host flashed only what it had downloaded
  clash,          \* history: Send was called on an endpoint in use
  wrote,          \* history: the last flash
  owed,           \* history: a flash failed and the host has not read FAIL
  waiting         \* history: the command that was deferred last

session == <<mState, usbBuf, content, numData, got, intact>>
flashing == <<main, flashComplete, flashResult, wrote, owed>>
vars == <<session, flashing, usbTimer, okTimers, cmdTimers, rxBuf, rx, tx,
          conn, host, replugs, careful, clash, waiting>>

Looping == [pc |-> "loop"]

\* have: the image that the host believes to be on the device
Idle(have) == [st |-> "idle", have |-> have]

NoImage == "none"

Init ==
  /\ mState = "cmd"
  /\ usbBuf = 0 /\ content = [b \in Bufs |-> Zeros]
  /\ numData = BadLength /\ got = 0 /\ intact = TRUE
  /\ main = Looping /\ flashComplete = TRUE /\ flashResult = "ok"
  /\ usbTimer = FALSE /\ okTimers = 0 /\ cmdTimers = 0
  /\ rxBuf = [k |-> "other"] /\ rx = "none" /\ tx = "none"
  /\ conn = "new" /\ host = Idle(NoImage) /\ replugs = 0 /\ careful = TRUE
  /\ clash = FALSE /\ owed = FALSE /\ waiting = [k |-> "other"]
  /\ wrote = [img |-> NoImage, len |-> NoImage, want |-> NoImage]

-----------------------------------------------------------------------------
(* Replies                                                                 *)

\* FastbootAck for each of the replies in turn, with nothing in between.
Ack(replies) ==
  IF conn # "up" THEN UNCHANGED <<tx, clash>>
  ELSE IF tx = "none" /\ \A r, q \in replies : r = q
       THEN tx' \in replies /\ clash' = clash
       ELSE tx' \in (replies \cup {tx}) \ {"none"} /\ clash' = TRUE

ResultReply(result) == IF result = "ok" THEN "OKAY" ELSE "FAIL"

-----------------------------------------------------------------------------
(* CmdFlash                                                                *)

\* Mutant of AnswersResult: the result is always answered, too.
AlwaysAnswers(img, ptn) == TRUE

\* A flash answers after its result is known, but for a sparse image in a
\* partition that is not small.
AnswersResult(img, ptn) == img \notin Sparse \/ SizeOf[ptn] = "small"

\* Mutant of Exchange: the buffers are not exchanged.
KeepBuffers == UNCHANGED <<mState, usbBuf, content, numData, got, intact>>

\* ExchangeFlashAndUsbDataBuf
Exchange ==
  /\ usbBuf' = 1 - usbBuf
  /\ UNCHANGED <<mState, content, numData, got, intact>>

\* mFlashDataBuffer after the exchange, and what it holds.
FlashBuf == 1 - usbBuf'
FlashImage == content[FlashBuf]

Written ==
  wrote' = [img |-> FlashImage, len |-> numData, want |-> host.have]

\* The image is not sparse: raw, UBI or meta.  Its flash is not interrupted
\* by the USB timer and FlashResult is consumed at once.
FlashRaw(ptn) ==
  /\ FlashImage \notin Sparse
  /\ IF SizeOf[ptn] = "absent" THEN UNCHANGED wrote ELSE Written
  /\ \E result \in IF SizeOf[ptn] = "absent" THEN {"err"} ELSE {"ok", "err"} :
       /\ Ack({ResultReply(result)})
       /\ owed' = (owed \/ result = "err")
  /\ usbTimer' = FALSE
  /\ UNCHANGED <<main, flashComplete, flashResult>>

\* "Partition not found", and likewise the other refusals before a flash.
FlashAbsent(ptn) ==
  /\ FlashImage \in Sparse
  /\ SizeOf[ptn] = "absent"
  /\ Ack({"FAIL"})
  /\ usbTimer' = FALSE
  /\ UNCHANGED flashing

\* The main thread starts to flash a sparse image.
FlashBegins(ptn) ==
  /\ FlashImage \in Sparse
  /\ SizeOf[ptn] # "absent"
  /\ Written
  /\ main' = [pc |-> "flash", ptn |-> ptn, buf |-> FlashBuf, img |-> FlashImage]
  /\ flashComplete' = FALSE
  /\ usbTimer' = (SizeOf[ptn] = "big")
  /\ UNCHANGED <<flashResult, owed, tx, clash>>

\* A timer callback flashes a sparse image: nothing can come in between.
FlashAtOnce(ptn) ==
  /\ FlashImage \in Sparse
  /\ SizeOf[ptn] # "absent"
  /\ Written
  /\ \E result \in {"ok", "err"} :
       /\ owed' = (owed \/ result = "err")
       /\ IF SizeOf[ptn] = "small"
          THEN Ack({"OKAY", ResultReply(result)}) /\ flashResult' = "ok"
          ELSE Ack({"OKAY"}) /\ flashResult' = result
  /\ usbTimer' = FALSE
  /\ UNCHANGED <<main, flashComplete>>

CmdFlash(ptn, callback) ==
  /\ Exchange
  /\ \/ FlashRaw(ptn)
     \/ FlashAbsent(ptn)
     \/ callback /\ FlashAtOnce(ptn)
     \/ ~callback /\ FlashBegins(ptn)

\* Mutant of FlashEnds: the flag is left to the tail of CmdFlash.
FlashEndsUnnoticed ==
  /\ main.pc = "flash"
  /\ flashResult' \in {"ok", "err"}
  /\ owed' = (owed \/ flashResult' = "err")
  /\ main' = [main EXCEPT !.pc = "ended"]
  /\ UNCHANGED <<session, flashComplete, wrote, usbTimer, okTimers, cmdTimers,
                 rxBuf, rx, tx, conn, host, replugs, careful, clash, waiting>>

\* HandleSparseImgFlash returns.
FlashEnds ==
  /\ main.pc = "flash"
  /\ flashResult' \in {"ok", "err"}
  /\ owed' = (owed \/ flashResult' = "err")
  /\ flashComplete' = TRUE
  /\ main' = [main EXCEPT !.pc = "ended"]
  /\ UNCHANGED <<session, wrote, usbTimer, okTimers, cmdTimers, rxBuf, rx, tx,
                 conn, host, replugs, careful, clash, waiting>>

\* FastbootOkay, whatever the result
FlashAcks ==
  /\ main.pc = "ended"
  /\ Ack({"OKAY"})
  /\ main' = [main EXCEPT !.pc = "acked"]
  /\ UNCHANGED <<session, flashComplete, flashResult, wrote, owed, usbTimer,
                 okTimers, cmdTimers, rxBuf, rx, conn, host, replugs, careful, waiting>>

FlashTail ==
  /\ main.pc = "acked"
  /\ usbTimer' = FALSE
  /\ IF AnswersResult(content[main.buf], main.ptn)
     THEN Ack({ResultReply(flashResult)}) /\ flashResult' = "ok"
     ELSE UNCHANGED <<tx, clash, flashResult>>
  /\ main' = Looping
  /\ UNCHANGED <<session, flashComplete, wrote, owed, okTimers, cmdTimers,
                 rxBuf, rx, conn, host, replugs, careful, waiting>>

-----------------------------------------------------------------------------
(* AcceptCmd                                                               *)

CmdDownload(img) ==
  /\ numData' = img
  /\ IF img = BadLength
     THEN Ack({"FAIL"}) /\ UNCHANGED <<mState, got, intact>>
     ELSE Ack({"DATA"}) /\ mState' = "data" /\ got' = 0 /\ intact' = TRUE
  /\ UNCHANGED <<usbBuf, content, flashing, usbTimer>>

\* Mutant of ReportsLastFlash: only a flash is refused.
RefusesFlash(c) == flashResult = "err" /\ c.k = "flash"

\* "Error: Last flash failed"
ReportsLastFlash(c) == flashResult = "err" /\ c.k \in {"flash", "download"}

\* callback: the command is executed by a timer callback.
Execute(c, callback) ==
  \/ /\ ReportsLastFlash(c)
     /\ Ack({"FAIL"})
     /\ flashResult' = "ok"
     /\ usbTimer' = (usbTimer /\ c.k = "download")
     /\ UNCHANGED <<session, main, flashComplete, wrote, owed>>
  \/ /\ ~ReportsLastFlash(c)
     /\ \/ c.k = "download" /\ CmdDownload(c.img)
        \/ c.k = "flash" /\ CmdFlash(c.ptn, callback)
        \/ /\ c.k \in {"other", "unknown"}
           /\ Ack({IF c.k = "other" THEN "OKAY" ELSE "FAIL"})
           /\ usbTimer' = FALSE
           /\ UNCHANGED <<session, flashing>>

\* Mutant of MustWait: commands do not wait for the flash.
NeverWaits(c) == FALSE

\* "Wait for flash finished before next command"
MustWait(c) == c.k # "download" /\ ~flashComplete

\* AcceptCmdTimerInit keeps a pointer to gRxBuffer, not the command.
AcceptCmd(c) ==
  \/ /\ MustWait(c)
     /\ usbTimer' = FALSE
     /\ cmdTimers' = cmdTimers + 1
     /\ waiting' = c
     /\ UNCHANGED <<session, flashing, tx, clash>>
  \/ /\ ~MustWait(c)
     /\ Execute(c, main # Looping)
     /\ UNCHANGED <<cmdTimers, waiting>>

\* AcceptCmd again, for what is in gRxBuffer now.  While a flash goes on the
\* timer of the command is set anew and the USB timer is stopped.
AcceptCmdHandler ==
  /\ cmdTimers > 0
  /\ main.pc # "exit"
  /\ \/ /\ MustWait(rxBuf)
        /\ usbTimer' = FALSE
        /\ UNCHANGED <<session, flashing, tx, clash, cmdTimers>>
     \/ /\ ~MustWait(rxBuf)
        /\ Execute(rxBuf, TRUE)
        /\ cmdTimers' = cmdTimers - 1
  /\ UNCHANGED <<okTimers, rxBuf, rx, conn, host, replugs, careful, waiting>>

-----------------------------------------------------------------------------
(* AcceptData                                                              *)

\* Mutant of NextReceive: the next command is asked for at once.
ReceiveAlways == IF got' < Transfers THEN "next" ELSE "cmd"

\* The driver is asked for the rest of the data.  After the last of it no
\* receive is pending until the host has read the reply.
NextReceive == IF got' < Transfers THEN "next" ELSE "none"

\* One transfer was received.  Something else than image data is short: it
\* ends the data phase only if next to nothing was missing.
AcceptData ==
  LET proper == /\ host.st = "send" /\ host.cmd.img = numData
                /\ rx = "next" \/ (rx = "start" /\ got = 0)
  IN  /\ got' \in IF host.st = "send" THEN {got + 1} ELSE {got, got + 1}
      /\ intact' = (intact /\ proper)
      /\ content' = [content EXCEPT ![usbBuf] =
                       IF intact' /\ got' = Transfers THEN numData ELSE Mixed]
      /\ rx' = NextReceive
      /\ IF got' = Transfers
         THEN mState' = "cmd" /\ usbTimer' = FALSE /\ okTimers' = okTimers + 1
         ELSE UNCHANGED <<mState, usbTimer, okTimers>>
      /\ UNCHANGED <<usbBuf, numData, flashing, cmdTimers, tx, clash, waiting>>

\* Until the flash is complete the timer is just set again.
FlashCompleteHandler ==
  /\ okTimers > 0
  /\ main.pc # "exit"
  /\ \/ /\ ~flashComplete
        /\ UNCHANGED <<okTimers, tx, clash>>
     \/ /\ flashComplete
        /\ okTimers' = okTimers - 1
        /\ Ack({"OKAY"})
  /\ UNCHANGED <<session, flashing, usbTimer, cmdTimers, rxBuf, rx, conn, host,
                 replugs, careful, waiting>>

-----------------------------------------------------------------------------
(* HandleUsbEvents, from the main loop or from UsbTimerHandler             *)

Polling == main = Looping \/ (main.pc # "exit" /\ usbTimer)

PollConnected ==
  /\ Polling
  /\ conn = "new"
  /\ conn' = "up" /\ rx' = "cmd"
  /\ UNCHANGED <<session, flashing, usbTimer, okTimers, cmdTimers, rxBuf, tx,
                 host, replugs, careful, clash, waiting>>

\* A transfer from the host is complete: DataReady.
Receive(c) ==
  /\ rxBuf' = IF rx = "cmd" THEN c ELSE rxBuf
  /\ \/ /\ mState = "cmd"
        /\ AcceptCmd(rxBuf')
        /\ rx' = "none"
        /\ UNCHANGED okTimers
     \/ /\ mState = "data"
        /\ AcceptData
  /\ UNCHANGED <<conn, replugs>>

\* The host starts a command: this is its transfer.
HostCommand(c) ==
  /\ Polling /\ conn = "up" /\ rx # "none"
  /\ host.st = "idle"
  /\ c.k # "unknown"
  /\ careful' = (careful /\ (c.k = "flash" => host.have # NoImage))
  /\ Receive(c)
  /\ host' = [st |-> "wait", have |-> host.have, cmd |-> c]

\* ... or goes on with the data phase.
HostData ==
  /\ Polling /\ conn = "up" /\ rx # "none"
  /\ host.st = "send"
  /\ Receive([k |-> "unknown"])
  /\ host' = IF host.left = 1 THEN [host EXCEPT !.st = "end", !.left = 0]
             ELSE [host EXCEPT !.left = @ - 1]
  /\ UNCHANGED careful

\* What a host does with a reply; one it did not expect ends its program.
AfterReply(r) ==
  IF host.st = "end"
  THEN Idle(IF r = "OKAY" THEN host.cmd.img ELSE NoImage)
  ELSE IF host.cmd.k = "download" /\ r = "DATA"
       THEN [st |-> "send", have |-> NoImage, cmd |-> host.cmd,
             left |-> Transfers]
       ELSE Idle(IF host.cmd.k = "other" /\ r = "OKAY"
                 THEN host.have ELSE NoImage)

\* A reply was sent: ProcessBulkXfrCompleteTx asks for what comes next.  If
\* the driver refuses, FastbootInitialize leaves its loop.
PollSent ==
  /\ Polling /\ conn = "up" /\ tx # "none"
  /\ host.st \in {"wait", "end"}
  /\ host' = AfterReply(tx)
  /\ owed' = (owed /\ tx # "FAIL")
  /\ tx' = "none"
  /\ IF rx = "none"
     THEN rx' = (IF mState = "data" THEN "start" ELSE "cmd") /\ main' = main
     ELSE rx' = rx /\ main' = IF main = Looping THEN [pc |-> "exit"] ELSE main
  /\ UNCHANGED <<session, flashComplete, flashResult, wrote, usbTimer, okTimers,
                 cmdTimers, rxBuf, conn, replugs, careful, clash, waiting>>

-----------------------------------------------------------------------------
(* The cable                                                               *)

Unplug ==
  /\ conn # "down"
  /\ replugs < MaxReplugs
  /\ replugs' = replugs + 1
  /\ conn' = "down" /\ rx' = "none" /\ tx' = "none"
  /\ host' = Idle(NoImage)
  /\ UNCHANGED <<session, flashing, usbTimer, okTimers, cmdTimers, rxBuf, careful,
                 clash, waiting>>

Plug ==
  /\ conn = "down"
  /\ conn' = "new"
  /\ UNCHANGED <<session, flashing, usbTimer, okTimers, cmdTimers, rxBuf, rx, tx,
                 host, replugs, careful, clash, waiting>>

-----------------------------------------------------------------------------

Device ==
  \/ FlashEnds \/ FlashAcks \/ FlashTail
  \/ AcceptCmdHandler \/ FlashCompleteHandler
  \/ PollConnected \/ PollSent

Next ==
  \/ Device
  \/ \E c \in Commands : HostCommand(c)
  \/ HostData
  \/ Unplug \/ Plug

Spec == Init /\ [][Next]_vars

\* The main thread, the timers and the polling go on without help.
FairSpec == Spec /\ WF_vars(Device)

-----------------------------------------------------------------------------
(* Properties                                                              *)

\* The flags apart, every variable has its type.
TypeOK ==
  /\ mState \in {"cmd", "data"}
  /\ usbBuf \in Bufs
  /\ content \in [Bufs -> Images \cup {Zeros, Mixed, BadLength}]
  /\ numData \in Images \cup {BadLength}
  /\ got \in Nat
  /\ main.pc \in {"loop", "flash", "ended", "acked", "exit"}
  /\ flashResult \in {"ok", "err"}
  /\ okTimers \in Nat /\ cmdTimers \in Nat
  /\ rxBuf \in Commands
  /\ rx \in {"none", "cmd", "start", "next"}
  /\ tx \in Replies \cup {"none"}
  /\ conn \in {"down", "new", "up"}
  /\ host.st \in {"idle", "wait", "send", "end"}
  /\ replugs \in Nat

\* The cable stayed in and no reply was put on top of another one.
Undisturbed == replugs = 0 /\ ~clash

\* The image that the main thread is flashing stays what it was: neither a
\* download that goes on at the same time nor a flash command that arrives
\* before the end touches its buffer.
FlashBufferStable ==
  main.pc = "flash" => content[main.buf] = main.img /\ main.buf # usbBuf

\* What a flash writes is the image the host downloaded last, with its length.
FlashWritesDownload ==
  Undisturbed /\ careful /\ wrote.want # NoImage => wrote.img = wrote.want /\ wrote.len = wrote.want

\* The failure of a flash that was answered with OKAY beforehand is not lost:
\* the host cannot begin the data of a further download before it read a FAIL.
FailureStops == Undisturbed => (host.st = "send" => ~owed)

\* The receive that is queued when a reply has been sent is never refused: no
\* other is pending then.  So FastbootInitialize does not leave its loop
\* ("even if it happens we keep waiting for USB to be connected").
SessionSurvives == Undisturbed => main.pc # "exit"

\* USB events are handled by the timer only while the main thread flashes:
\* the two never handle events at the same time.
TimerOnlyWhileFlashing == usbTimer => main.pc \in {"flash", "ended", "acked"}

\* A host that waits for a reply gets one, as long as its cable stays in: the
\* delayed OKAY of a download is sent, and every flash answers.
Answered ==
  (Undisturbed /\ host.st \in {"wait", "end"})
    ~> (~Undisturbed \/ host.st \notin {"wait", "end"})

\* "Don't call this function again until the previous transfer on the same
\* endpoint has finished" (EFIUsbDevice.h): while the cable stays in, the one
\* reply that is put on top of another is the result of a sparse image in a
\* small partition, which CmdFlash has answered with OKAY already.
OneSendAtATime ==
  [][ Undisturbed /\ clash' =>
        \E ptn \in Ptns : /\ SizeOf[ptn] = "small"
                         /\ \/ main.pc = "acked" /\ main.ptn = ptn
                            \/ rxBuf' = [k |-> "flash", ptn |-> ptn] ]_vars

\* A command that arrived during a flash is executed as it was received.
DeferredIntact == cmdTimers > 0 => rxBuf = waiting

=============================================================================
