------------------------ MODULE FastbootSessionProofs ------------------------
(***************************************************************************)
(* The safety properties of FastbootSession for every set of images and    *)
(* partitions, every length of a data phase and any number of replugs.     *)
(*                                                                         *)
(* Two things carry the proofs.  The flash of the main thread keeps its    *)
(* buffer whatever the host does: FlashInv.  And while the cable stays in  *)
(* and no reply was put on top of another, host and device take turns:     *)
(* Turn says, for each state of the host, what the device owes it.      *)
(***************************************************************************)
EXTENDS FastbootSession, TLAPS

FlashSteps == {"flash", "ended", "acked"}
Flashing == [pc : FlashSteps, ptn : Ptns, buf : Bufs, img : Images]

Claims == Images \cup {NoImage, BadLength}
Contents == Images \cup {Zeros, Mixed, BadLength}

\* Every variable has its type.
TypeInv ==
  /\ mState \in {"cmd", "data"}
  /\ usbBuf \in Bufs /\ content \in [Bufs -> Contents]
  /\ numData \in Images \cup {BadLength}
  /\ got \in Nat
  /\ main \in {Looping, [pc |-> "exit"]} \cup Flashing
  /\ flashResult \in {"ok", "err"}
  /\ okTimers \in Nat /\ cmdTimers \in Nat
  /\ rxBuf \in Commands
  /\ rx \in {"none", "cmd", "start", "next"} /\ tx \in Replies \cup {"none"}
  /\ conn \in {"down", "new", "up"}
  /\ replugs \in Nat
  /\ host \in [st : {"idle"}, have : Claims]
       \cup [st : {"wait"}, have : Claims, cmd : Commands]
       \cup [st : {"send", "end"}, have : {NoImage},
             cmd : [k : {"download"}, img : Images \cup {BadLength}], left : Int]

\* The flash of the main thread, its flag, its timer and its buffer.
FlashInv ==
  /\ main.pc = "flash" <=> ~flashComplete
  /\ usbTimer => main.pc \in FlashSteps
  /\ main.pc \in FlashSteps =>
       /\ main.img \in Sparse /\ SizeOf[main.ptn] # "absent"
       /\ usbTimer => SizeOf[main.ptn] = "big"
  /\ main.pc = "flash" => main.buf # usbBuf /\ content[main.buf] = main.img

\* Whose turn it is.
Turn ==
  /\ cmdTimers = 0 /\ okTimers \in {0, 1}
  /\ conn \in {"new", "up"}
  /\ conn = "new" => host.st = "idle" /\ rx = "none" /\ main = Looping
  /\ (conn = "up" /\ host.st = "idle") => rx = "cmd"
  /\ host.st = "idle" => tx = "none"
  /\ host.st # "end" => okTimers = 0
  /\ host.st \in {"idle", "end"} => mState = "cmd"
  /\ host.st = "wait" =>
       /\ rx = "none"
       /\ tx = "DATA" <=> mState = "data"
       /\ tx = "DATA" => host.cmd.k = "download" /\ got = 0 /\ host.cmd.img = numData
       /\ tx = "none" => main.pc \in {"flash", "ended"} /\ host.cmd.k = "flash"
  /\ host.st = "send" =>
       /\ tx = "none" /\ mState = "data" /\ numData = host.cmd.img
       /\ rx = "next" \/ (rx = "start" /\ got = 0)
       /\ host.left > 0 /\ got + host.left = Transfers
  /\ host.st = "end" =>
       /\ rx = "none" /\ tx \in {"none", "OKAY"} /\ (tx = "none" <=> okTimers = 1)
  /\ main.pc \in {"flash", "ended"} => host.st = "wait" /\ tx = "none"
  /\ main.pc = "ended" => main.buf # usbBuf /\ content[main.buf] = main.img
  /\ main.pc = "acked" =>
       /\ content[main.buf] = main.img /\ (main.buf # usbBuf \/ ~usbTimer)
       /\ SizeOf[main.ptn] = "small" => tx # "none"
  /\ main.pc # "exit"

\* The buffer that the host filled, as far as it believes in it.
Have ==
  /\ mState = "data" => intact
  /\ host.st = "end" => content[usbBuf] = numData /\ numData = host.cmd.img
  /\ (host.st = "idle" \/ (host.st = "wait" /\ host.cmd.k = "other")) =>
       (host.have # NoImage => content[usbBuf] = host.have /\ numData = host.have)

\* A failure that the host has not read is remembered or on its way.
Owed ==
  /\ owed => flashResult = "err" \/ tx = "FAIL"
  /\ (mState = "data" \/ main.pc = "flash") => flashResult = "ok" /\ tx # "FAIL"

Wrote == wrote.want # NoImage => wrote.img = wrote.want /\ wrote.len = wrote.want

Good == Turn /\ Have /\ Owed /\ Wrote

IInv == TypeInv /\ FlashInv /\ (Undisturbed => Good)

-----------------------------------------------------------------------------
(* Types of records                                                        *)

LEMMA MainType ==
  ASSUME TypeInv
  PROVE /\ main.pc \in {"loop", "exit"} \cup FlashSteps
        /\ main = Looping <=> main.pc = "loop"
        /\ main.pc \in FlashSteps =>
             /\ main \in Flashing /\ main.buf \in Bufs /\ main.img \in Images
             /\ main.ptn \in Ptns
  BY DEF TypeInv, Looping, Flashing, FlashSteps

LEMMA HostType ==
  ASSUME TypeInv
  PROVE /\ host.st \in {"idle", "wait", "send", "end"}
        /\ host.st = "idle" => host \in [st : {"idle"}, have : Claims]
        /\ host.st = "wait" =>
             /\ host \in [st : {"wait"}, have : Claims, cmd : Commands]
             /\ host.cmd \in Commands
        /\ host.st \in {"send", "end"} =>
             /\ host \in [st : {"send", "end"}, have : {NoImage},
                          cmd : [k : {"download"}, img : Images \cup {BadLength}],
                          left : Int]
             /\ host.left \in Int /\ host.cmd.img \in Images \cup {BadLength}
             /\ host.cmd.k = "download"
        /\ host.have \in Claims
<1> DEFINE I == [st : {"idle"}, have : Claims]
           W == [st : {"wait"}, have : Claims, cmd : Commands]
           S == [st : {"send", "end"}, have : {NoImage},
                 cmd : [k : {"download"}, img : Images \cup {BadLength}], left : Int]
<1>1. host \in I \/ host \in W \/ host \in S
  BY DEF TypeInv
<1>2. NoImage \in Claims
  BY DEF Claims
<1>3. CASE host \in I
  BY <1>3
<1>4. CASE host \in W
  BY <1>4
<1>5. CASE host \in S
  BY <1>2, <1>5
<1> QED
  BY <1>1, <1>3, <1>4, <1>5

LEMMA CommandType ==
  ASSUME NEW c \in Commands
  PROVE /\ c.k \in {"download", "flash", "other", "unknown"}
        /\ c.k = "download" => c.img \in Images \cup {BadLength}
                               /\ c \in [k : {"download"}, img : Images \cup {BadLength}]
        /\ c.k = "flash" => c.ptn \in Ptns
  BY DEF Commands

-----------------------------------------------------------------------------
(* Replies                                                                 *)

\* The parts of the state that a command changes keep their types.
CommandTypes ==
  /\ mState \in {"cmd", "data"} /\ usbBuf \in Bufs /\ content \in [Bufs -> Contents]
  /\ numData \in Images \cup {BadLength} /\ got \in Nat
  /\ main \in {Looping, [pc |-> "exit"]} \cup Flashing
  /\ flashResult \in {"ok", "err"} /\ tx \in Replies \cup {"none"}

LEMMA AckType ==
  ASSUME TypeInv, NEW R \in SUBSET Replies, Ack(R), R # {}
  PROVE tx' \in Replies \cup {"none"}
  BY DEF Ack, TypeInv

\* One reply on an endpoint that is free.
LEMMA AckOnce ==
  ASSUME NEW R, Ack(R), conn = "up", tx = "none", ~clash'
  PROVE tx' \in R /\ (\A r, q \in R : r = q)
  BY DEF Ack

\* A reply on top of another one shows.
LEMMA AckTwice ==
  ASSUME NEW R, Ack(R), conn = "up", tx # "none"
  PROVE clash'
  BY DEF Ack

LEMMA ResultReplyType ==
  ASSUME NEW result \in {"ok", "err"}
  PROVE ResultReply(result) \in {"OKAY", "FAIL"} /\ ResultReply(result) \in Replies
  BY DEF ResultReply, Replies

-----------------------------------------------------------------------------
(* Types and the flash of the main thread                                  *)

LEMMA ExchangeFacts ==
  ASSUME TypeInv, Exchange
  PROVE /\ usbBuf' = 1 - usbBuf /\ usbBuf' \in Bufs /\ FlashBuf = usbBuf
        /\ FlashImage = content[usbBuf] /\ FlashImage \in Contents
        /\ UNCHANGED <<mState, content, numData, got, intact>>
  BY DEF Exchange, FlashBuf, FlashImage, TypeInv, Bufs

\* CmdFlash, outside a flash of the main thread.
LEMMA FlashKeeps ==
  ASSUME TypeInv, FlashInv, flashComplete,
         NEW ptn \in Ptns, NEW callback \in BOOLEAN, callback \/ main = Looping,
         main.pc # "exit", CmdFlash(ptn, callback)
  PROVE CommandTypes' /\ FlashInv'
<1>1. /\ usbBuf' = 1 - usbBuf /\ usbBuf' \in Bufs /\ FlashBuf = usbBuf
      /\ FlashImage = content[usbBuf] /\ FlashImage \in Contents
      /\ UNCHANGED <<mState, content, numData, got, intact>>
  BY ExchangeFacts DEF CmdFlash
<1>2. main.pc # "flash"
  BY DEF FlashInv
<1>3. CASE FlashRaw(ptn)
  <2>1. ~usbTimer' /\ UNCHANGED <<main, flashComplete, flashResult>>
    BY <1>3 DEF FlashRaw
  <2>2. PICK result \in {"ok", "err"} : Ack({ResultReply(result)})
    BY <1>3 DEF FlashRaw
  <2>3. tx' \in Replies \cup {"none"}
    BY <2>2, AckType, ResultReplyType
  <2> QED
    BY <1>1, <1>2, <2>1, <2>3 DEF CommandTypes, TypeInv, FlashInv
<1>4. CASE FlashAbsent(ptn)
  <2>1. ~usbTimer' /\ UNCHANGED <<main, flashComplete, flashResult>> /\ Ack({"FAIL"})
    BY <1>4 DEF FlashAbsent, flashing
  <2>2. tx' \in Replies \cup {"none"}
    BY <2>1, AckType DEF Replies
  <2> QED
    BY <1>1, <1>2, <2>1, <2>2 DEF CommandTypes, TypeInv, FlashInv
<1>5. CASE FlashAtOnce(ptn)
  <2>1. ~usbTimer' /\ UNCHANGED <<main, flashComplete>>
    BY <1>5 DEF FlashAtOnce
  <2>2. PICK result \in {"ok", "err"} :
          \/ Ack({"OKAY", ResultReply(result)}) /\ flashResult' = "ok"
          \/ Ack({"OKAY"}) /\ flashResult' = result
    BY <1>5 DEF FlashAtOnce
  <2>3. tx' \in Replies \cup {"none"} /\ flashResult' \in {"ok", "err"}
    <3>1. {"OKAY", ResultReply(result)} \in SUBSET Replies /\ {"OKAY"} \in SUBSET Replies
      BY ResultReplyType DEF Replies
    <3> QED
      BY <2>2, <3>1, AckType
  <2> QED
    BY <1>1, <1>2, <2>1, <2>3 DEF CommandTypes, TypeInv, FlashInv
<1>6. CASE ~callback /\ FlashBegins(ptn)
  <2>1. /\ FlashImage \in Sparse /\ SizeOf[ptn] # "absent"
        /\ main' = [pc |-> "flash", ptn |-> ptn, buf |-> usbBuf, img |-> FlashImage]
        /\ ~flashComplete' /\ (usbTimer' <=> SizeOf[ptn] = "big")
        /\ UNCHANGED <<flashResult, tx>>
    BY <1>1, <1>6 DEF FlashBegins
  <2>2. FlashImage \in Images
    BY <2>1, SessionAssumption
  <2>3. main' \in Flashing
    BY <2>1, <2>2 DEF Flashing, FlashSteps, TypeInv
  <2>4. usbBuf \in Bufs /\ usbBuf # 1 - usbBuf
    BY DEF TypeInv, Bufs
  <2> QED
    BY <1>1, <2>1, <2>3, <2>4 DEF CommandTypes, TypeInv, FlashInv, FlashSteps
<1> QED
  BY <1>3, <1>4, <1>5, <1>6 DEF CmdFlash

\* Execute, when the command need not wait.
LEMMA ExecuteKeeps ==
  ASSUME TypeInv, FlashInv, NEW c \in Commands, NEW callback \in BOOLEAN,
         ~MustWait(c), callback \/ main = Looping, main.pc # "exit",
         Execute(c, callback)
  PROVE CommandTypes' /\ FlashInv'
<1>1. CASE /\ Ack({"FAIL"}) /\ flashResult' = "ok" /\ (usbTimer' => usbTimer)
           /\ UNCHANGED <<session, main, flashComplete, wrote, owed>>
  <2>1. tx' \in Replies \cup {"none"}
    BY <1>1, AckType DEF Replies
  <2> QED
    BY <1>1, <2>1 DEF CommandTypes, TypeInv, FlashInv, session
<1>2. CASE c.k = "download" /\ CmdDownload(c.img)
  <2>1. c.img \in Images \cup {BadLength}
    BY <1>2, CommandType
  <2>2. /\ numData' = c.img /\ UNCHANGED <<usbBuf, content, flashing, usbTimer>>
        /\ mState' \in {mState, "data"} /\ got' \in {got, 0}
        /\ Ack({"FAIL"}) \/ Ack({"DATA"})
    BY <1>2 DEF CmdDownload
  <2>3. tx' \in Replies \cup {"none"}
    BY <2>2, AckType DEF Replies
  <2> QED
    BY <2>1, <2>2, <2>3 DEF CommandTypes, TypeInv, FlashInv, flashing
<1>3. CASE c.k = "flash" /\ CmdFlash(c.ptn, callback)
  <2>1. c.ptn \in Ptns
    BY <1>3, CommandType
  <2>2. flashComplete
    BY <1>3 DEF MustWait
  <2> QED
    BY <1>3, <2>1, <2>2, FlashKeeps
<1>4. CASE /\ c.k \in {"other", "unknown"}
           /\ Ack({IF c.k = "other" THEN "OKAY" ELSE "FAIL"})
           /\ ~usbTimer' /\ UNCHANGED <<session, flashing>>
  <2>1. tx' \in Replies \cup {"none"}
    BY <1>4, AckType DEF Replies
  <2> QED
    BY <1>4, <2>1 DEF CommandTypes, TypeInv, FlashInv, session, flashing
<1> QED
  BY <1>1, <1>2, <1>3, <1>4 DEF Execute

\* AcceptCmd
LEMMA AcceptKeeps ==
  ASSUME TypeInv, FlashInv, NEW c \in Commands, main.pc # "exit", AcceptCmd(c)
  PROVE CommandTypes' /\ FlashInv' /\ cmdTimers' \in Nat
<1>1. CASE /\ ~usbTimer' /\ cmdTimers' = cmdTimers + 1
           /\ UNCHANGED <<session, flashing, tx, clash>>
  BY <1>1 DEF CommandTypes, TypeInv, FlashInv, session, flashing
<1>2. CASE ~MustWait(c) /\ Execute(c, main # Looping) /\ cmdTimers' = cmdTimers
  <2>1. (main # Looping) \in BOOLEAN /\ ((main # Looping) \/ main = Looping)
    OBVIOUS
  <2> QED
    BY <1>2, <2>1, ExecuteKeeps DEF TypeInv
<1> QED
  BY <1>1, <1>2 DEF AcceptCmd

\* AcceptData fills the buffer that is not being flashed.
LEMMA DataKeeps ==
  ASSUME TypeInv, FlashInv, AcceptData
  PROVE CommandTypes' /\ FlashInv' /\ okTimers' \in Nat /\ rx' \in {"none", "next"}
        /\ cmdTimers' = cmdTimers
<1>1. /\ got' \in {got, got + 1}
      /\ content' = [content EXCEPT ![usbBuf] =
                       IF intact' /\ got' = Transfers THEN numData ELSE Mixed]
      /\ rx' \in {"none", "next"}
      /\ mState' \in {mState, "cmd"} /\ okTimers' \in {okTimers, okTimers + 1}
      /\ usbTimer' => usbTimer
      /\ UNCHANGED <<usbBuf, numData, flashing, cmdTimers, tx, clash, waiting>>
  <2> DEFINE proper == /\ host.st = "send" /\ host.cmd.img = numData
                       /\ rx = "next" \/ (rx = "start" /\ got = 0)
  <2>1. /\ got' \in IF host.st = "send" THEN {got + 1} ELSE {got, got + 1}
        /\ content' = [content EXCEPT ![usbBuf] =
                         IF intact' /\ got' = Transfers THEN numData ELSE Mixed]
        /\ rx' = NextReceive
        /\ IF got' = Transfers
           THEN mState' = "cmd" /\ usbTimer' = FALSE /\ okTimers' = okTimers + 1
           ELSE UNCHANGED <<mState, usbTimer, okTimers>>
        /\ UNCHANGED <<usbBuf, numData, flashing, cmdTimers, tx, clash, waiting>>
    BY DEF AcceptData
  <2> QED
    BY <2>1 DEF NextReceive
<1>2. got' \in Nat /\ okTimers' \in Nat
  BY <1>1 DEF TypeInv
<1>3. content' \in [Bufs -> Contents]
  BY <1>1 DEF TypeInv, Contents
<1>4. \A b \in Bufs : b # usbBuf => content'[b] = content[b]
  BY <1>1 DEF TypeInv
<1>5. FlashInv'
  <2>1. UNCHANGED <<main, flashComplete, usbBuf>>
    BY <1>1 DEF flashing
  <2>2. main.pc = "flash" => main.buf \in Bufs /\ main.buf # usbBuf
    BY MainType DEF FlashInv, FlashSteps
  <2> QED
    BY <1>1, <1>4, <2>1, <2>2 DEF FlashInv
<1> QED
  BY <1>1, <1>2, <1>3, <1>5 DEF CommandTypes, TypeInv, flashing

\* Types of the rest.
OtherTypes ==
  /\ okTimers \in Nat /\ cmdTimers \in Nat /\ rxBuf \in Commands
  /\ rx \in {"none", "cmd", "start", "next"} /\ conn \in {"down", "new", "up"}
  /\ replugs \in Nat
  /\ host \in [st : {"idle"}, have : Claims]
       \cup [st : {"wait"}, have : Claims, cmd : Commands]
       \cup [st : {"send", "end"}, have : {NoImage},
             cmd : [k : {"download"}, img : Images \cup {BadLength}], left : Int]

LEMMA Types == TypeInv <=> CommandTypes /\ OtherTypes
  BY DEF TypeInv, CommandTypes, OtherTypes

LEMMA TypesNext == TypeInv' <=> CommandTypes' /\ OtherTypes'
  BY DEF TypeInv, CommandTypes, OtherTypes

\* HandleUsbEvents keeps what a command or the data keep.
LEMMA ReceiveKeeps ==
  ASSUME TypeInv, FlashInv, NEW c \in Commands, main.pc # "exit", Receive(c)
  PROVE CommandTypes' /\ FlashInv' /\ okTimers' \in Nat /\ cmdTimers' \in Nat
        /\ rxBuf' \in Commands /\ rx' \in {"none", "next"}
        /\ UNCHANGED <<conn, replugs>>
<1>1. rxBuf' \in Commands /\ UNCHANGED <<conn, replugs>>
  BY DEF Receive, TypeInv
<1>2. CASE mState = "cmd" /\ AcceptCmd(rxBuf') /\ rx' = "none" /\ okTimers' = okTimers
  BY <1>1, <1>2, AcceptKeeps DEF TypeInv
<1>3. CASE mState = "data" /\ AcceptData
  BY <1>1, <1>3, DataKeeps DEF TypeInv
<1> QED
  BY <1>1, <1>2, <1>3 DEF Receive

\* Who polls is not the loop that was left.
LEMMA PollingRuns ==
  ASSUME TypeInv, Polling
  PROVE main.pc # "exit"
  BY DEF Polling, Looping

LEMMA UnknownCommand == [k |-> "unknown"] \in Commands
  BY DEF Commands

\* The type of what the host makes of a reply.
LEMMA AfterReplyType ==
  ASSUME TypeInv, SessionAssumption, NEW r, host.st \in {"wait", "end"}
  PROVE AfterReply(r) \in [st : {"idle"}, have : Claims]
          \cup [st : {"send"}, have : {NoImage},
                cmd : [k : {"download"}, img : Images \cup {BadLength}], left : Int]
<1>1. CASE host.st = "end"
  <2>1. host.cmd.img \in Images \cup {BadLength}
    BY <1>1, HostType
  <2> QED
    BY <1>1, <2>1 DEF AfterReply, Idle, Claims
<1>2. CASE host.st = "wait"
  <2>1. host.cmd \in Commands /\ host.have \in Claims
    BY <1>2, HostType
  <2>2. CASE host.cmd.k = "download" /\ r = "DATA"
    BY <1>2, <2>1, <2>2, CommandType, SessionAssumption DEF AfterReply
  <2>3. CASE ~(host.cmd.k = "download" /\ r = "DATA")
    BY <1>2, <2>1, <2>3 DEF AfterReply, Idle, Claims
  <2> QED
    BY <2>2, <2>3
<1> QED
  BY <1>1, <1>2

LEMMA FlashStepsKeep ==
  TypeInv /\ FlashInv /\ (FlashEnds \/ FlashAcks \/ FlashTail) => TypeInv' /\ FlashInv'
<1> SUFFICES ASSUME TypeInv, FlashInv, FlashEnds \/ FlashAcks \/ FlashTail
             PROVE TypeInv' /\ FlashInv'
  OBVIOUS
<1>1. CASE FlashEnds
  <2>1. /\ main.pc = "flash" /\ flashResult' \in {"ok", "err"} /\ flashComplete'
        /\ main' = [main EXCEPT !.pc = "ended"]
        /\ UNCHANGED <<session, usbTimer, okTimers, cmdTimers, rxBuf, rx, tx, conn,
                       host, replugs>>
    BY <1>1 DEF FlashEnds
  <2>2. main \in Flashing
    BY <2>1, MainType DEF FlashSteps
  <2>3. /\ main' \in Flashing /\ main'.pc = "ended" /\ main'.ptn = main.ptn
        /\ main'.img = main.img
    BY <2>1, <2>2 DEF Flashing, FlashSteps
  <2> QED
    BY <2>1, <2>3 DEF TypeInv, FlashInv, FlashSteps, session
<1>2. CASE FlashAcks
  <2>1. /\ main.pc = "ended" /\ Ack({"OKAY"})
        /\ main' = [main EXCEPT !.pc = "acked"]
        /\ UNCHANGED <<session, flashComplete, flashResult, usbTimer, okTimers,
                       cmdTimers, rxBuf, rx, conn, host, replugs>>
    BY <1>2 DEF FlashAcks
  <2>2. main \in Flashing
    BY <2>1, MainType DEF FlashSteps
  <2>3. /\ main' \in Flashing /\ main'.pc = "acked" /\ main'.ptn = main.ptn
        /\ main'.img = main.img
    BY <2>1, <2>2 DEF Flashing, FlashSteps
  <2>4. tx' \in Replies \cup {"none"}
    BY <2>1, AckType DEF Replies
  <2> QED
    BY <2>1, <2>3, <2>4 DEF TypeInv, FlashInv, FlashSteps, session
<1>3. CASE FlashTail
  <2>1. /\ main.pc = "acked" /\ ~usbTimer' /\ main' = Looping
        /\ \/ Ack({ResultReply(flashResult)}) /\ flashResult' = "ok"
           \/ UNCHANGED <<tx, flashResult>>
        /\ UNCHANGED <<session, flashComplete, okTimers, cmdTimers, rxBuf, rx, conn,
                       host, replugs>>
    BY <1>3 DEF FlashTail
  <2>2. tx' \in Replies \cup {"none"} /\ flashResult' \in {"ok", "err"}
    <3>1. ResultReply(flashResult) \in Replies
      BY ResultReplyType DEF TypeInv
    <3> QED
      BY <2>1, <3>1, AckType DEF TypeInv
  <2> QED
    BY <2>1, <2>2 DEF TypeInv, FlashInv, FlashSteps, session, Looping
<1> QED
  BY <1>1, <1>2, <1>3

LEMMA HandlersKeep ==
  TypeInv /\ FlashInv /\ (AcceptCmdHandler \/ FlashCompleteHandler)
    => TypeInv' /\ FlashInv'
<1> SUFFICES ASSUME TypeInv, FlashInv, AcceptCmdHandler \/ FlashCompleteHandler
             PROVE TypeInv' /\ FlashInv'
  OBVIOUS
<1>1. CASE AcceptCmdHandler
  <2>1. /\ cmdTimers > 0 /\ main.pc # "exit"
        /\ UNCHANGED <<okTimers, rxBuf, rx, conn, host, replugs>>
    BY <1>1 DEF AcceptCmdHandler
  <2>2. CASE ~usbTimer' /\ UNCHANGED <<session, flashing, tx, clash, cmdTimers>>
    BY <2>1, <2>2 DEF TypeInv, FlashInv, session, flashing
  <2>3. CASE ~MustWait(rxBuf) /\ Execute(rxBuf, TRUE) /\ cmdTimers' = cmdTimers - 1
    <3>1. CommandTypes' /\ FlashInv'
      BY <2>1, <2>3, ExecuteKeeps DEF TypeInv
    <3>2. cmdTimers' \in Nat
      BY <2>1, <2>3 DEF TypeInv
    <3>3. OtherTypes'
      BY <2>1, <3>2 DEF OtherTypes, TypeInv
    <3> QED
      BY <3>1, <3>3, TypesNext
  <2> QED
    BY <1>1, <2>2, <2>3 DEF AcceptCmdHandler
<1>2. CASE FlashCompleteHandler
  <2>1. /\ okTimers > 0
        /\ \/ UNCHANGED <<okTimers, tx, clash>>
           \/ okTimers' = okTimers - 1 /\ Ack({"OKAY"})
        /\ UNCHANGED <<session, flashing, usbTimer, cmdTimers, rxBuf, rx, conn, host,
                       replugs>>
    BY <1>2 DEF FlashCompleteHandler
  <2>2. tx' \in Replies \cup {"none"} /\ okTimers' \in Nat
    BY <2>1, AckType DEF Replies, TypeInv
  <2> QED
    BY <2>1, <2>2 DEF TypeInv, FlashInv, session, flashing
<1> QED
  BY <1>1, <1>2

LEMMA PollsKeep ==
  TypeInv /\ FlashInv /\ (PollConnected \/ PollSent \/ Unplug \/ Plug)
    => TypeInv' /\ FlashInv'
<1> SUFFICES ASSUME TypeInv, FlashInv, PollConnected \/ PollSent \/ Unplug \/ Plug
             PROVE TypeInv' /\ FlashInv'
  OBVIOUS
<1>1. CASE PollConnected
  BY <1>1 DEF PollConnected, TypeInv, FlashInv, session, flashing
<1>2. CASE PollSent
  <2>1. /\ host.st \in {"wait", "end"} /\ host' = AfterReply(tx) /\ tx' = "none"
        /\ \/ rx' \in {"start", "cmd"} /\ main' = main
           \/ rx' = rx /\ main' = IF main = Looping THEN [pc |-> "exit"] ELSE main
        /\ UNCHANGED <<session, flashComplete, flashResult, usbTimer, okTimers,
                       cmdTimers, rxBuf, conn, replugs>>
    BY <1>2 DEF PollSent
  <2>2. OtherTypes'
    <3>1. host' \in [st : {"idle"}, have : Claims]
            \cup [st : {"send"}, have : {NoImage},
                  cmd : [k : {"download"}, img : Images \cup {BadLength}], left : Int]
      BY <2>1, AfterReplyType, SessionAssumption
    <3>2. host' \in [st : {"idle"}, have : Claims]
       \cup [st : {"wait"}, have : Claims, cmd : Commands]
       \cup [st : {"send", "end"}, have : {NoImage},
             cmd : [k : {"download"}, img : Images \cup {BadLength}], left : Int]
      BY <3>1
    <3> QED
      BY <2>1, <3>2 DEF OtherTypes, TypeInv
  <2>3. main' = main \/ (main = Looping /\ main' = [pc |-> "exit"])
    BY <2>1
  <2>4. CommandTypes' /\ FlashInv'
    BY <2>1, <2>3 DEF CommandTypes, TypeInv, FlashInv, session, Looping, FlashSteps
  <2> QED
    BY <2>2, <2>4, TypesNext
<1>3. CASE Unplug
  BY <1>3 DEF Unplug, TypeInv, FlashInv, session, flashing, Idle, Claims
<1>4. CASE Plug
  BY <1>4 DEF Plug, TypeInv, FlashInv, session, flashing
<1> QED
  BY <1>1, <1>2, <1>3, <1>4

LEMMA HostKeeps ==
  ASSUME TypeInv, FlashInv, HostData \/ \E c \in Commands : HostCommand(c)
  PROVE TypeInv' /\ FlashInv'
<1>1. CASE HostData
  <2>1. /\ Polling /\ host.st = "send" /\ Receive([k |-> "unknown"])
        /\ host' = IF host.left = 1 THEN [host EXCEPT !.st = "end", !.left = 0]
                   ELSE [host EXCEPT !.left = @ - 1]
    BY <1>1 DEF HostData
  <2>2. /\ CommandTypes' /\ FlashInv' /\ okTimers' \in Nat /\ cmdTimers' \in Nat
        /\ rxBuf' \in Commands /\ rx' \in {"none", "next"}
        /\ UNCHANGED <<conn, replugs>>
    BY <2>1, PollingRuns, UnknownCommand, ReceiveKeeps
  <2> DEFINE D == [k : {"download"}, img : Images \cup {BadLength}]
             H == [st : {"send", "end"}, have : {NoImage}, cmd : D, left : Int]
  <2>3. host \in H /\ host.left \in Int
    BY <2>1, HostType
  <2> HIDE DEF D
  <2>4. host' \in H
    <3>1. CASE host.left = 1
      <4> DEFINE h == [host EXCEPT !.st = "end"]
      <4>1. host' = [h EXCEPT !.left = 0]
        BY <2>1, <3>1
      <4>2. h \in H
        BY <2>3
      <4> HIDE DEF h
      <4> QED
        BY <4>1, <4>2
    <3>2. CASE host.left # 1
      <4>1. host' = [host EXCEPT !.left = host.left - 1] /\ host.left - 1 \in Int
        BY <2>1, <2>3, <3>2
      <4> QED
        BY <2>3, <4>1
    <3> QED
      BY <3>1, <3>2
  <2>5. OtherTypes'
    BY <2>2, <2>4 DEF OtherTypes, TypeInv, D
  <2>6. TypeInv'
    BY <2>2, <2>5, TypesNext
  <2> QED
    BY <2>2, <2>6
<1>2. ASSUME NEW c \in Commands, HostCommand(c)
      PROVE TypeInv' /\ FlashInv'
  <2>1. /\ Polling /\ host.st = "idle" /\ Receive(c)
        /\ host' = [st |-> "wait", have |-> host.have, cmd |-> c]
    BY <1>2 DEF HostCommand
  <2>2. /\ CommandTypes' /\ FlashInv' /\ okTimers' \in Nat /\ cmdTimers' \in Nat
        /\ rxBuf' \in Commands /\ rx' \in {"none", "next"}
        /\ UNCHANGED <<conn, replugs>>
    BY <2>1, PollingRuns, ReceiveKeeps
  <2>3. host' \in [st : {"wait"}, have : Claims, cmd : Commands]
    BY <2>1, HostType
  <2>4. OtherTypes'
    BY <2>2, <2>3 DEF OtherTypes, TypeInv
  <2> QED
    BY <2>2, <2>4, TypesNext
<1> QED
  BY <1>1, <1>2

-----------------------------------------------------------------------------
(* Taking turns                                                            *)

LEMMA FlashEndsTurn ==
  ASSUME TypeInv, FlashInv, Good, ~clash', FlashEnds
  PROVE Good'
<1>1. /\ main.pc = "flash" /\ flashResult' \in {"ok", "err"}
      /\ owed' = (owed \/ flashResult' = "err")
      /\ main' = [main EXCEPT !.pc = "ended"]
      /\ UNCHANGED <<session, wrote, usbTimer, okTimers, cmdTimers, rxBuf, rx, tx,
                     conn, host, replugs>>
  BY DEF FlashEnds
<1>2. main \in Flashing
  BY <1>1, MainType DEF FlashSteps
<1>3. main'.pc = "ended" /\ main'.buf = main.buf /\ main'.img = main.img
  BY <1>1, <1>2 DEF Flashing
<1>4. main.buf # usbBuf /\ content[main.buf] = main.img /\ main # Looping
  BY <1>1 DEF FlashInv, Looping
<1>5. Turn'
  BY <1>1, <1>3, <1>4 DEF Good, Turn, session
<1>6. Have' /\ Wrote'
  BY <1>1 DEF Good, Have, Wrote, session
<1>7. Owed'
  <2>1. ~owed /\ tx = "none" /\ mState = "cmd"
    BY <1>1 DEF Good, Owed, Turn, TypeInv
  <2>2. owed' => flashResult' = "err"
    BY <1>1, <2>1
  <2> QED
    BY <1>1, <1>3, <2>1, <2>2 DEF Owed, session
<1> QED
  BY <1>5, <1>6, <1>7 DEF Good

LEMMA FlashAcksTurn ==
  ASSUME TypeInv, FlashInv, Good, ~clash', FlashAcks
  PROVE Good'
<1>1. /\ main.pc = "ended" /\ Ack({"OKAY"})
      /\ main' = [main EXCEPT !.pc = "acked"]
      /\ UNCHANGED <<session, flashComplete, flashResult, wrote, owed, usbTimer,
                     okTimers, cmdTimers, rxBuf, rx, conn, host, replugs>>
  BY DEF FlashAcks
<1>2. main \in Flashing
  BY <1>1, MainType DEF FlashSteps
<1>3. /\ main'.pc = "acked" /\ main'.buf = main.buf /\ main'.img = main.img
  BY <1>1, <1>2 DEF Flashing
<1>4. host.st = "wait" /\ tx = "none" /\ conn = "up" /\ mState = "cmd"
  BY <1>1 DEF Good, Turn, TypeInv, Looping
<1>5. tx' = "OKAY"
  BY <1>1, <1>4, AckOnce
<1>6. Turn'
  BY <1>1, <1>3, <1>4, <1>5 DEF Good, Turn, session
<1>7. Have' /\ Wrote' /\ Owed'
  BY <1>1, <1>3, <1>4, <1>5 DEF Good, Have, Wrote, Owed, session
<1> QED
  BY <1>6, <1>7 DEF Good

LEMMA FlashTailTurn ==
  ASSUME TypeInv, FlashInv, Good, ~clash', FlashTail
  PROVE Good'
<1>1. /\ main.pc = "acked" /\ ~usbTimer' /\ main' = Looping
      /\ IF AnswersResult(content[main.buf], main.ptn)
         THEN Ack({ResultReply(flashResult)}) /\ flashResult' = "ok"
         ELSE UNCHANGED <<tx, clash, flashResult>>
      /\ UNCHANGED <<session, flashComplete, wrote, owed, okTimers, cmdTimers,
                     rxBuf, rx, conn, host, replugs>>
  BY DEF FlashTail
<1>2. main.img \in Sparse /\ content[main.buf] = main.img /\ conn = "up"
  BY <1>1 DEF FlashInv, FlashSteps, Good, Turn, Looping
<1>3. ~AnswersResult(content[main.buf], main.ptn)
  <2>1. SUFFICES ASSUME AnswersResult(content[main.buf], main.ptn) PROVE FALSE
    OBVIOUS
  <2>2. SizeOf[main.ptn] = "small"
    BY <1>2, <2>1 DEF AnswersResult
  <2>3. tx # "none"
    BY <1>1, <2>2 DEF Good, Turn
  <2> QED
    BY <1>1, <1>2, <2>1, <2>3, AckTwice
<1>4. UNCHANGED <<tx, flashResult>>
  BY <1>1, <1>3
<1>5. main'.pc = "loop"
  BY <1>1 DEF Looping
<1>6. host.st = "wait" => tx # "none"
  BY <1>1 DEF Good, Turn
<1>7. Turn'
  BY <1>1, <1>2, <1>4, <1>5, <1>6 DEF Good, Turn, session
<1>8. Have' /\ Wrote' /\ Owed'
  BY <1>1, <1>4, <1>5 DEF Good, Have, Wrote, Owed, session
<1> QED
  BY <1>7, <1>8 DEF Good

LEMMA FlashCompleteTurn ==
  ASSUME TypeInv, FlashInv, Good, ~clash', FlashCompleteHandler
  PROVE Good'
<1>1. /\ okTimers > 0
      /\ \/ UNCHANGED <<okTimers, tx, clash>>
         \/ okTimers' = okTimers - 1 /\ Ack({"OKAY"})
      /\ UNCHANGED <<session, flashing, usbTimer, cmdTimers, rxBuf, rx, conn, host,
                     replugs>>
  BY DEF FlashCompleteHandler
<1>2. okTimers = 1 /\ host.st = "end" /\ tx = "none" /\ conn = "up" /\ mState = "cmd"
  BY <1>1 DEF Good, Turn
<1>3. (okTimers' = 1 /\ tx' = "none") \/ (okTimers' = 0 /\ tx' = "OKAY")
  BY <1>1, <1>2, AckOnce
<1>4. Turn'
  BY <1>1, <1>2, <1>3 DEF Good, Turn, session, flashing
<1>5. Have' /\ Wrote' /\ Owed'
  BY <1>1, <1>2, <1>3 DEF Good, Have, Wrote, Owed, session, flashing
<1> QED
  BY <1>4, <1>5 DEF Good

LEMMA PollConnectedTurn ==
  ASSUME TypeInv, FlashInv, Good, PollConnected
  PROVE Good'
  BY DEF PollConnected, Good, Turn, Have, Wrote, Owed, session, flashing, Looping

LEMMA PollSentTurn ==
  ASSUME TypeInv, FlashInv, Good, PollSent
  PROVE Good'
<1>1. /\ Polling /\ conn = "up" /\ tx # "none" /\ host.st \in {"wait", "end"}
      /\ host' = AfterReply(tx) /\ owed' = (owed /\ tx # "FAIL") /\ tx' = "none"
      /\ UNCHANGED <<session, flashComplete, flashResult, wrote, usbTimer, okTimers,
                     cmdTimers, rxBuf, conn, replugs>>
  BY DEF PollSent
<1>2. rx = "none"
  BY <1>1 DEF Good, Turn
<1>3. rx' = (IF mState = "data" THEN "start" ELSE "cmd") /\ main' = main
  BY <1>2 DEF PollSent
<1>4. main.pc \in {"loop", "acked"}
  BY <1>1, MainType DEF Good, Turn, FlashSteps
<1>5. main.pc = "acked" => usbTimer /\ SizeOf[main.ptn] = "big"
  BY <1>1 DEF Polling, Looping, FlashInv, FlashSteps
<1>6. owed' => flashResult' = "err"
  BY <1>1 DEF Good, Owed
<1>7. Wrote' /\ Owed'
  BY <1>1, <1>3, <1>4, <1>6 DEF Good, Wrote, Owed, session
<1>8. CASE host.st = "end"
  <2>1. tx = "OKAY" /\ okTimers = 0 /\ mState = "cmd"
    BY <1>1, <1>8 DEF Good, Turn
  <2>2. host' = [st |-> "idle", have |-> host.cmd.img]
    BY <1>1, <1>8, <2>1 DEF AfterReply, Idle
  <2>3. Turn'
    BY <1>1, <1>3, <1>4, <1>5, <2>1, <2>2 DEF Good, Turn, session
  <2>4. Have'
    BY <1>1, <1>8, <2>1, <2>2 DEF Good, Have, session
  <2> QED
    BY <1>7, <2>3, <2>4 DEF Good
<1>9. CASE host.st = "wait" /\ tx = "DATA"
  <2>1. /\ mState = "data" /\ host.cmd.k = "download" /\ got = 0
        /\ host.cmd.img = numData /\ okTimers = 0
    BY <1>9 DEF Good, Turn
  <2>2. host' = [st |-> "send", have |-> NoImage, cmd |-> host.cmd, left |-> Transfers]
    BY <1>1, <1>9, <2>1 DEF AfterReply
  <2>3. Transfers > 0 /\ 0 + Transfers = Transfers
    BY SessionAssumption
  <2>4. Turn'
    BY <1>1, <1>3, <1>4, <1>5, <2>1, <2>2, <2>3 DEF Good, Turn, session
  <2>5. Have'
    BY <1>1, <1>9, <2>1, <2>2 DEF Good, Have, session
  <2> QED
    BY <1>7, <2>4, <2>5 DEF Good
<1>10. CASE host.st = "wait" /\ tx # "DATA"
  <2>1. mState = "cmd" /\ okTimers = 0
    BY <1>10 DEF Good, Turn, TypeInv
  <2>2. host' = [st |-> "idle", have |-> IF host.cmd.k = "other" /\ tx = "OKAY"
                                         THEN host.have ELSE NoImage]
    BY <1>1, <1>10 DEF AfterReply, Idle
  <2>3. Turn'
    BY <1>1, <1>3, <1>4, <1>5, <2>1, <2>2 DEF Good, Turn, session
  <2>4. Have'
    BY <1>1, <1>10, <2>1, <2>2 DEF Good, Have, session
  <2> QED
    BY <1>7, <2>3, <2>4 DEF Good
<1> QED
  BY <1>1, <1>8, <1>9, <1>10

LEMMA HostDataTurn ==
  ASSUME TypeInv, FlashInv, Good, HostData
  PROVE Good'
<1>1. /\ Polling /\ conn = "up" /\ host.st = "send" /\ Receive([k |-> "unknown"])
      /\ host' = IF host.left = 1 THEN [host EXCEPT !.st = "end", !.left = 0]
                 ELSE [host EXCEPT !.left = @ - 1]
  BY DEF HostData
<1>2. /\ tx = "none" /\ mState = "data" /\ numData = host.cmd.img
      /\ rx = "next" \/ (rx = "start" /\ got = 0)
      /\ host.left > 0 /\ got + host.left = Transfers
      /\ okTimers = 0 /\ intact /\ main.pc \in {"loop", "acked"}
  BY <1>1, MainType DEF Good, Turn, Have, FlashSteps
<1>3. AcceptData /\ UNCHANGED <<conn, replugs>>
  BY <1>1, <1>2 DEF Receive
<1>4. /\ got' = got + 1 /\ intact'
      /\ content' = [content EXCEPT ![usbBuf] =
                       IF got' = Transfers THEN numData ELSE Mixed]
      /\ rx' = NextReceive
      /\ IF got' = Transfers
         THEN mState' = "cmd" /\ usbTimer' = FALSE /\ okTimers' = okTimers + 1
         ELSE UNCHANGED <<mState, usbTimer, okTimers>>
      /\ UNCHANGED <<usbBuf, numData, flashing, cmdTimers, tx, clash, waiting>>
  BY <1>1, <1>2, <1>3 DEF AcceptData
<1>5. main.pc = "acked" => main.buf # usbBuf /\ main.buf \in Bufs /\ main # Looping
  <2>1. main.pc = "acked" => usbTimer
    BY <1>1 DEF Polling, Looping
  <2> QED
    BY <2>1, MainType DEF Good, Turn, FlashSteps
<1>6. main.pc = "acked" => content'[main.buf] = main.img
  <2>1. SUFFICES ASSUME main.pc = "acked" PROVE content'[main.buf] = main.img
    OBVIOUS
  <2>2. content'[main.buf] = content[main.buf]
    BY <1>4, <1>5, <2>1 DEF TypeInv
  <2> QED
    BY <2>1, <2>2 DEF Good, Turn
<1>7. main.pc = "acked" => SizeOf[main.ptn] # "small"
  BY <1>2 DEF Good, Turn
<1>8. got \in Nat /\ host.left \in Int
  BY <1>1, HostType DEF TypeInv
<1>9. CASE host.left = 1
  <2>1. got' = Transfers
    BY <1>2, <1>4, <1>8, <1>9
  <2>2. /\ mState' = "cmd" /\ okTimers' = 1 /\ rx' = "none"
    BY <1>2, <1>4, <2>1, SessionAssumption DEF NextReceive
  <2>3. content'[usbBuf] = numData
    BY <1>4, <2>1 DEF TypeInv
  <2>4. host'.st = "end" /\ host'.cmd = host.cmd
    BY <1>1, <1>9, HostType
  <2>5. Turn'
    BY <1>1, <1>2, <1>3, <1>4, <1>5, <1>6, <1>7, <2>2, <2>4 DEF Good, Turn, flashing
  <2>6. Have' /\ Wrote' /\ Owed'
    BY <1>2, <1>4, <2>2, <2>3, <2>4 DEF Good, Have, Wrote, Owed, flashing
  <2> QED
    BY <2>5, <2>6 DEF Good
<1>10. CASE host.left # 1
  <2>1. got' # Transfers /\ got' < Transfers
    BY <1>2, <1>4, <1>8, <1>10
  <2>2. UNCHANGED <<mState, usbTimer, okTimers>> /\ rx' = "next"
    BY <1>4, <2>1 DEF NextReceive
  <2>3. host'.st = "send" /\ host'.cmd = host.cmd /\ host'.left = host.left - 1
    BY <1>1, <1>10, HostType
  <2>4. host.left - 1 > 0 /\ got' + (host.left - 1) = Transfers
    BY <1>2, <1>4, <1>8, <1>10
  <2>5. Turn'
    BY <1>1, <1>2, <1>3, <1>4, <1>5, <1>6, <1>7, <2>2, <2>3, <2>4
       DEF Good, Turn, flashing
  <2>6. Have' /\ Wrote' /\ Owed'
    BY <1>2, <1>4, <2>2, <2>3 DEF Good, Have, Wrote, Owed, flashing
  <2> QED
    BY <2>5, <2>6 DEF Good
<1> QED
  BY <1>9, <1>10

\* What is known when the host starts a command.
CommandArrives(c) ==
  /\ conn = "up" /\ host.st = "idle" /\ rx = "cmd" /\ tx = "none"
  /\ mState = "cmd" /\ okTimers = 0 /\ cmdTimers = 0
  /\ main.pc \in {"loop", "acked"} /\ flashComplete
  /\ main.pc = "acked" =>
       content[main.buf] = main.img /\ main.buf # usbBuf /\ SizeOf[main.ptn] # "small"
  /\ conn' = "up" /\ rx' = "none" /\ okTimers' = 0 /\ cmdTimers' = 0
  /\ host' = [st |-> "wait", have |-> host.have, cmd |-> c]

LEMMA CommandArrivesFacts ==
  ASSUME TypeInv, FlashInv, Good, NEW c \in Commands, HostCommand(c)
  PROVE CommandArrives(c) /\ Execute(c, main # Looping)
<1>1. /\ Polling /\ conn = "up" /\ rx # "none" /\ host.st = "idle" /\ Receive(c)
      /\ host' = [st |-> "wait", have |-> host.have, cmd |-> c]
  BY DEF HostCommand
<1>2. /\ rx = "cmd" /\ tx = "none" /\ mState = "cmd" /\ okTimers = 0 /\ cmdTimers = 0
      /\ main.pc \in {"loop", "acked"}
  BY <1>1, MainType DEF Good, Turn, FlashSteps
<1>3. flashComplete
  BY <1>2 DEF FlashInv
<1>4. rxBuf' = c /\ AcceptCmd(c) /\ rx' = "none" /\ UNCHANGED <<okTimers, conn, replugs>>
  BY <1>1, <1>2 DEF Receive
<1>5. ~MustWait(c)
  BY <1>3 DEF MustWait
<1>6. Execute(c, main # Looping) /\ cmdTimers' = cmdTimers
  BY <1>4, <1>5 DEF AcceptCmd
<1>7. main.pc = "acked" => usbTimer
  BY <1>1 DEF Polling, Looping
<1>8. main.pc = "acked" =>
        content[main.buf] = main.img /\ main.buf # usbBuf /\ SizeOf[main.ptn] # "small"
  BY <1>7 DEF Good, Turn, FlashInv, FlashSteps
<1> QED
  BY <1>1, <1>2, <1>3, <1>4, <1>6, <1>8 DEF CommandArrives

\* A command that was answered and left the buffers alone.
LEMMA AnsweredTurn ==
  ASSUME TypeInv, FlashInv, Good, NEW c \in Commands, CommandArrives(c),
         tx' \in {"OKAY", "FAIL"}, UNCHANGED <<mState, content, main>>,
         (main.pc = "acked" => usbBuf' = usbBuf \/ ~usbTimer'),
         owed' => flashResult' = "err" \/ tx' = "FAIL", Wrote',
         c.k = "other" => UNCHANGED <<usbBuf, numData>>
  PROVE Good'
<1>1. Turn'
  BY DEF CommandArrives, Turn
<1>2. Have'
  BY DEF CommandArrives, Good, Have
<1>3. Owed'
  BY DEF CommandArrives, Owed
<1> QED
  BY <1>1, <1>2, <1>3 DEF Good

LEMMA DownloadTurn ==
  ASSUME TypeInv, FlashInv, Good, ~clash', NEW c \in Commands, CommandArrives(c),
         c.k = "download", flashResult # "err", CmdDownload(c.img)
  PROVE Good'
<1>1. /\ numData' = c.img
      /\ IF c.img = BadLength
         THEN Ack({"FAIL"}) /\ UNCHANGED <<mState, got, intact>>
         ELSE Ack({"DATA"}) /\ mState' = "data" /\ got' = 0 /\ intact' = TRUE
      /\ UNCHANGED <<usbBuf, content, flashing, usbTimer>>
  BY DEF CmdDownload
<1>2. flashResult = "ok" /\ ~owed /\ conn = "up" /\ tx = "none" /\ mState = "cmd"
  BY DEF TypeInv, Good, Owed, CommandArrives
<1>3. Wrote'
  BY <1>1 DEF Good, Wrote, flashing
<1>4. CASE c.img = BadLength
  <2>1. tx' = "FAIL"
    BY <1>1, <1>2, <1>4, AckOnce
  <2> QED
    BY <1>1, <1>2, <1>3, <1>4, <2>1, AnsweredTurn DEF flashing
<1>5. CASE c.img # BadLength
  <2>1. tx' = "DATA"
    BY <1>1, <1>2, <1>5, AckOnce
  <2>2. mState' = "data" /\ got' = 0 /\ intact'
    BY <1>1, <1>5
  <2>3. Turn'
    BY <1>1, <2>1, <2>2 DEF CommandArrives, Turn, flashing
  <2>4. Have' /\ Owed'
    BY <1>1, <1>2, <2>1, <2>2 DEF CommandArrives, Have, Owed, flashing
  <2> QED
    BY <1>3, <2>3, <2>4 DEF Good
<1> QED
  BY <1>4, <1>5

LEMMA WrittenFits ==
  ASSUME TypeInv, FlashInv, Good, NEW c \in Commands, CommandArrives(c), Exchange,
         wrote' = wrote \/ Written
  PROVE Wrote'
<1>1. FlashImage = content[usbBuf]
  BY ExchangeFacts
<1>2. host.have # NoImage => content[usbBuf] = host.have /\ numData = host.have
  BY DEF CommandArrives, Good, Have
<1> QED
  BY <1>1, <1>2 DEF Written, Good, Wrote

LEMMA FlashTurn ==
  ASSUME TypeInv, FlashInv, Good, ~clash', NEW c \in Commands, CommandArrives(c),
         c.k = "flash", flashResult # "err", CmdFlash(c.ptn, main # Looping)
  PROVE Good'
<1>1. /\ Exchange /\ FlashBuf = usbBuf /\ usbBuf' = 1 - usbBuf
      /\ FlashImage = content[usbBuf]
      /\ UNCHANGED <<mState, content, numData, got, intact>>
  BY ExchangeFacts DEF CmdFlash
<1>2. flashResult = "ok" /\ ~owed /\ conn = "up" /\ tx = "none" /\ mState = "cmd"
  BY DEF TypeInv, Good, Owed, CommandArrives
<1>3. CASE FlashRaw(c.ptn)
  <2>1. /\ wrote' = wrote \/ Written
        /\ ~usbTimer' /\ UNCHANGED <<main, flashComplete, flashResult>>
    BY <1>3 DEF FlashRaw
  <2>2. PICK result \in {"ok", "err"} :
          /\ Ack({ResultReply(result)})
          /\ owed' = (owed \/ result = "err")
    BY <1>3 DEF FlashRaw
  <2>3. tx' = ResultReply(result)
    BY <1>2, <2>2, AckOnce
  <2>4. tx' \in {"OKAY", "FAIL"} /\ (owed' => tx' = "FAIL")
    BY <1>2, <2>2, <2>3 DEF ResultReply
  <2>5. Wrote'
    BY <1>1, <2>1, WrittenFits
  <2> QED
    BY <1>1, <2>1, <2>4, <2>5, AnsweredTurn
<1>4. CASE FlashAbsent(c.ptn)
  <2>1. Ack({"FAIL"}) /\ ~usbTimer' /\ UNCHANGED flashing
    BY <1>4 DEF FlashAbsent
  <2>2. tx' = "FAIL"
    BY <1>2, <2>1, AckOnce
  <2>3. Wrote'
    BY <1>1, <2>1, WrittenFits DEF flashing
  <2> QED
    BY <1>1, <2>1, <2>2, <2>3, AnsweredTurn DEF flashing
<1>5. CASE FlashAtOnce(c.ptn)
  <2>1. Written /\ ~usbTimer' /\ UNCHANGED <<main, flashComplete>>
    BY <1>5 DEF FlashAtOnce
  <2>2. PICK result \in {"ok", "err"} :
          /\ owed' = (owed \/ result = "err")
          /\ IF SizeOf[c.ptn] = "small"
             THEN Ack({"OKAY", ResultReply(result)}) /\ flashResult' = "ok"
             ELSE Ack({"OKAY"}) /\ flashResult' = result
    BY <1>5 DEF FlashAtOnce
  <2>3. tx' = "OKAY" /\ (owed' => flashResult' = "err")
    <3>1. CASE SizeOf[c.ptn] = "small"
      <4>1. /\ tx' \in {"OKAY", ResultReply(result)}
            /\ \A r, q \in {"OKAY", ResultReply(result)} : r = q
        BY <1>2, <2>2, <3>1, AckOnce
      <4>2. ResultReply(result) = "OKAY"
        BY <4>1
      <4>3. result = "ok"
        BY <4>2 DEF ResultReply
      <4> QED
        BY <1>2, <2>2, <4>1, <4>2, <4>3
    <3>2. CASE SizeOf[c.ptn] # "small"
      BY <1>2, <2>2, <3>2, AckOnce
    <3> QED
      BY <3>1, <3>2
  <2>4. Wrote'
    BY <1>1, <2>1, WrittenFits
  <2> QED
    BY <1>1, <2>1, <2>3, <2>4, AnsweredTurn
<1>6. CASE ~(main # Looping) /\ FlashBegins(c.ptn)
  <2>1. /\ Written /\ flashComplete' = FALSE
        /\ main' = [pc |-> "flash", ptn |-> c.ptn, buf |-> FlashBuf,
                    img |-> FlashImage]
        /\ UNCHANGED <<flashResult, owed, tx, clash>>
    BY <1>6 DEF FlashBegins
  <2>2. main'.pc = "flash" /\ main'.buf = usbBuf /\ main'.img = content[usbBuf]
    BY <1>1, <2>1
  <2>3. Turn'
    BY <1>1, <1>2, <2>1, <2>2 DEF CommandArrives, Turn
  <2>4. Have' /\ Owed'
    BY <1>1, <1>2, <2>1, <2>2 DEF CommandArrives, Have, Owed
  <2>5. Wrote'
    BY <1>1, <2>1, WrittenFits
  <2> QED
    BY <2>3, <2>4, <2>5 DEF Good
<1> QED
  BY <1>3, <1>4, <1>5, <1>6 DEF CmdFlash

LEMMA HostCommandTurn ==
  ASSUME TypeInv, FlashInv, Good, ~clash', NEW c \in Commands, HostCommand(c)
  PROVE Good'
<1>1. CommandArrives(c) /\ Execute(c, main # Looping)
  BY CommandArrivesFacts
<1>2. conn = "up" /\ tx = "none"
  BY <1>1 DEF CommandArrives
<1>3. CASE ReportsLastFlash(c) /\ Ack({"FAIL"})
           /\ UNCHANGED <<session, main, flashComplete, wrote, owed>>
  <2>1. tx' = "FAIL"
    BY <1>2, <1>3, AckOnce
  <2>2. Wrote'
    BY <1>3 DEF Good, Wrote
  <2> QED
    BY <1>1, <1>3, <2>1, <2>2, AnsweredTurn DEF session
<1>4. CASE ~ReportsLastFlash(c) /\ c.k = "download" /\ CmdDownload(c.img)
  BY <1>1, <1>4, DownloadTurn DEF ReportsLastFlash
<1>5. CASE ~ReportsLastFlash(c) /\ c.k = "flash" /\ CmdFlash(c.ptn, main # Looping)
  BY <1>1, <1>5, FlashTurn DEF ReportsLastFlash
<1>6. CASE /\ Ack({IF c.k = "other" THEN "OKAY" ELSE "FAIL"})
           /\ UNCHANGED <<session, flashing>>
  <2>1. tx' \in {"OKAY", "FAIL"}
    BY <1>2, <1>6, AckOnce
  <2>2. Wrote' /\ (owed' => flashResult' = "err" \/ tx' = "FAIL")
    BY <1>2, <1>6 DEF Good, Wrote, Owed, flashing
  <2> QED
    BY <1>1, <1>6, <2>1, <2>2, AnsweredTurn DEF session, flashing
<1> QED
  BY <1>1, <1>3, <1>4, <1>5, <1>6 DEF Execute

-----------------------------------------------------------------------------
(* The invariant                                                           *)

\* Nothing undoes a reply on top of another.
LEMMA AckClash ==
  ASSUME NEW R, Ack(R), clash
  PROVE clash'
  BY DEF Ack

LEMMA ExecuteClash ==
  ASSUME NEW c, NEW callback, Execute(c, callback), clash
  PROVE clash'
<1>1. ASSUME NEW ptn, CmdFlash(ptn, callback) PROVE clash'
  BY <1>1, AckClash DEF CmdFlash, FlashRaw, FlashAbsent, FlashAtOnce, FlashBegins
<1>2. ASSUME NEW img, CmdDownload(img) PROVE clash'
  BY <1>2, AckClash DEF CmdDownload
<1> QED
  BY <1>1, <1>2, AckClash DEF Execute

LEMMA ClashStays ==
  ASSUME Next, clash
  PROVE clash'
<1>1. CASE FlashEnds \/ PollConnected \/ PollSent \/ Unplug \/ Plug
  BY <1>1 DEF FlashEnds, PollConnected, PollSent, Unplug, Plug
<1>2. CASE FlashAcks \/ FlashTail \/ FlashCompleteHandler
  BY <1>2, AckClash DEF FlashAcks, FlashTail, FlashCompleteHandler
<1>3. CASE AcceptCmdHandler
  BY <1>3, ExecuteClash DEF AcceptCmdHandler
<1>4. ASSUME NEW c, Receive(c) PROVE clash'
  <2>1. ASSUME NEW d, AcceptCmd(d) PROVE clash'
    BY <2>1, ExecuteClash DEF AcceptCmd
  <2> QED
    BY <1>4, <2>1 DEF Receive, AcceptData
<1>5. CASE HostData \/ \E c \in Commands : HostCommand(c)
  BY <1>4, <1>5 DEF HostData, HostCommand
<1> QED
  BY <1>1, <1>2, <1>3, <1>5 DEF Next, Device

\* A cable that was pulled stays pulled in the count.
LEMMA ReplugsStay ==
  ASSUME TypeInv, Next
  PROVE /\ replugs' = 0 => replugs = 0
        /\ Unplug => replugs' # 0
<1>1. Unplug => replugs' # 0
  BY DEF Unplug, TypeInv
<1>2. CASE FlashEnds \/ FlashAcks \/ FlashTail \/ FlashCompleteHandler
             \/ AcceptCmdHandler \/ PollConnected \/ PollSent \/ Plug
  BY <1>1, <1>2 DEF FlashEnds, FlashAcks, FlashTail, FlashCompleteHandler,
              AcceptCmdHandler, PollConnected, PollSent, Plug
<1>3. CASE HostData \/ \E c \in Commands : HostCommand(c)
  BY <1>1, <1>3 DEF HostData, HostCommand, Receive
<1> QED
  BY <1>1, <1>2, <1>3 DEF Next, Device

LEMMA InitStep == Init => IInv
<1> SUFFICES ASSUME Init PROVE IInv
  OBVIOUS
<1>1. TypeInv
  BY DEF Init, TypeInv, Bufs, Contents, Zeros, Looping, Commands, Idle, Claims
<1>2. FlashInv
  BY DEF Init, FlashInv, FlashSteps, Looping
<1>3. Good
  BY DEF Init, Good, Turn, Have, Owed, Wrote, Looping, Idle
<1> QED
  BY <1>1, <1>2, <1>3 DEF IInv

LEMMA NextStep == IInv /\ [Next]_vars => IInv'
<1> SUFFICES ASSUME IInv, [Next]_vars PROVE IInv'
  OBVIOUS
<1>1. TypeInv /\ FlashInv
  BY DEF IInv
<1>2. CASE UNCHANGED vars
  <2>1. TypeInv' /\ FlashInv'
    BY <1>1, <1>2 DEF vars, session, flashing, TypeInv, FlashInv
  <2>2. Undisturbed' => Good'
    BY <1>2 DEF IInv, Undisturbed, vars, session, flashing, Good, Turn, Have, Owed,
                Wrote
  <2> QED
    BY <2>1, <2>2 DEF IInv
<1>3. CASE Next
  <2>1. TypeInv' /\ FlashInv'
    BY <1>1, <1>3, FlashStepsKeep, HandlersKeep, PollsKeep, HostKeeps DEF Next, Device
  <2>2. ASSUME Undisturbed' PROVE Good'
    <3>1. ~clash' /\ ~clash /\ replugs = 0 /\ ~Unplug
      BY <1>1, <1>3, <2>2, ClashStays, ReplugsStay DEF Undisturbed
    <3>2. Good
      BY <3>1 DEF IInv, Undisturbed
    <3>3. ~AcceptCmdHandler
      BY <3>2 DEF Good, Turn, AcceptCmdHandler
    <3>4. ~Plug
      BY <3>2 DEF Good, Turn, Plug
    <3>5. CASE FlashEnds \/ FlashAcks \/ FlashTail
      BY <1>1, <3>1, <3>2, <3>5, FlashEndsTurn, FlashAcksTurn, FlashTailTurn
    <3>6. CASE FlashCompleteHandler \/ PollConnected \/ PollSent
      BY <1>1, <3>1, <3>2, <3>6, FlashCompleteTurn, PollConnectedTurn, PollSentTurn
    <3>7. CASE HostData \/ \E c \in Commands : HostCommand(c)
      BY <1>1, <3>1, <3>2, <3>7, HostDataTurn, HostCommandTurn
    <3> QED
      BY <1>3, <3>1, <3>3, <3>4, <3>5, <3>6, <3>7 DEF Next, Device
  <2> QED
    BY <2>1, <2>2 DEF IInv
<1> QED
  BY <1>2, <1>3

LEMMA Invariance == Spec => []IInv
<1>1. Init => IInv
  BY InitStep
<1>2. IInv /\ [Next]_vars => IInv'
  BY NextStep
<1> QED
  BY <1>1, <1>2, PTL DEF Spec

-----------------------------------------------------------------------------

\* Every variable has its type; the lengths and counts stay natural numbers.
THEOREM TypeCorrect == Spec => []TypeOK
<1>1. IInv => TypeOK
  BY MainType, HostType DEF IInv, TypeInv, TypeOK, Contents, FlashSteps
<1> QED
  BY <1>1, Invariance, PTL

\* The flash of the main thread keeps its buffer, even when the cable is
\* pulled and a new host downloads at the same time.
THEOREM FlashBufferInvariance == Spec => []FlashBufferStable
<1>1. IInv => FlashBufferStable
  BY DEF IInv, FlashInv, FlashBufferStable
<1> QED
  BY <1>1, Invariance, PTL

\* UsbTimerEvent exists only while CmdFlash runs in the main thread.
THEOREM TimerInvariance == Spec => []TimerOnlyWhileFlashing
<1>1. IInv => TimerOnlyWhileFlashing
  BY DEF IInv, FlashInv, TimerOnlyWhileFlashing, FlashSteps
<1> QED
  BY <1>1, Invariance, PTL

\* As long as the cable stays in and no reply is put on top of another, a
\* flash writes the image that the host downloaded last, with its length.
THEOREM DownloadFlashed == Spec => []FlashWritesDownload
<1>1. IInv => FlashWritesDownload
  BY DEF IInv, Good, Wrote, FlashWritesDownload
<1> QED
  BY <1>1, Invariance, PTL

\* ... and a host does not begin the data of a download before it read the
\* failure of the flash before.
THEOREM FailureReported == Spec => []FailureStops
<1>1. IInv => FailureStops
  <2> SUFFICES ASSUME IInv, Undisturbed, host.st = "send" PROVE ~owed
    BY DEF FailureStops
  <2>1. TypeInv /\ Good
    BY DEF IInv
  <2>2. mState = "data" /\ tx = "none"
    BY <2>1 DEF Good, Turn
  <2> QED
    BY <2>1, <2>2 DEF Good, Owed
<1> QED
  BY <1>1, Invariance, PTL

\* ... and FastbootInitialize does not leave its loop.
THEOREM SessionInvariance == Spec => []SessionSurvives
<1>1. IInv => SessionSurvives
  BY DEF IInv, Good, Turn, SessionSurvives
<1> QED
  BY <1>1, Invariance, PTL

-----------------------------------------------------------------------------
(* Replies on top of others                                                *)

LEMMA AckFree ==
  ASSUME NEW r, Ack({r}), conn = "up" => tx = "none", ~clash
  PROVE ~clash'
  BY DEF Ack

LEMMA CommandClash ==
  ASSUME TypeInv, FlashInv, Good, ~clash, clash',
         NEW c \in Commands, HostCommand(c)
  PROVE \E ptn \in Ptns : SizeOf[ptn] = "small"
                          /\ rxBuf' = [k |-> "flash", ptn |-> ptn]
<1>1. CommandArrives(c) /\ Execute(c, main # Looping)
  BY CommandArrivesFacts
<1>2. tx = "none" /\ rxBuf' = c
  BY <1>1 DEF CommandArrives, HostCommand, Receive
<1>3. c.k = "flash" /\ CmdFlash(c.ptn, main # Looping)
  <2>1. ASSUME NEW img, CmdDownload(img) PROVE FALSE
    BY <1>2, <2>1, AckFree DEF CmdDownload
  <2> QED
    BY <1>1, <1>2, <2>1, AckFree DEF Execute
<1>4. FlashAtOnce(c.ptn)
  BY <1>2, <1>3, AckFree DEF CmdFlash, FlashRaw, FlashAbsent, FlashBegins
<1>5. SizeOf[c.ptn] = "small"
  BY <1>2, <1>4, AckFree DEF FlashAtOnce
<1>6. c.ptn \in Ptns /\ c = [k |-> "flash", ptn |-> c.ptn]
  BY <1>3 DEF Commands
<1> QED
  BY <1>2, <1>5, <1>6

LEMMA ClashStep ==
  ASSUME IInv, [Next]_vars, Undisturbed, clash'
  PROVE \E ptn \in Ptns : /\ SizeOf[ptn] = "small"
                          /\ \/ main.pc = "acked" /\ main.ptn = ptn
                             \/ rxBuf' = [k |-> "flash", ptn |-> ptn]
<1>1. TypeInv /\ FlashInv /\ Good /\ ~clash
  BY DEF IInv, Undisturbed
<1>2. Next
  BY <1>1 DEF vars
<1>3. ~(FlashEnds \/ PollConnected \/ PollSent \/ Unplug \/ Plug)
  BY <1>1 DEF FlashEnds, PollConnected, PollSent, Unplug, Plug
<1>4. ~FlashAcks
  BY <1>1, AckFree DEF FlashAcks, Good, Turn
<1>5. ~FlashCompleteHandler
  <2>1. okTimers > 0 => tx = "none"
    BY <1>1 DEF Good, Turn
  <2> QED
    BY <1>1, <2>1, AckFree DEF FlashCompleteHandler
<1>6. ~AcceptCmdHandler
  BY <1>1 DEF AcceptCmdHandler, Good, Turn
<1>7. ~HostData
  <2>1. HostData => mState = "data"
    BY <1>1 DEF HostData, Good, Turn
  <2> QED
    BY <1>1, <2>1 DEF HostData, Receive, AcceptData
<1>8. CASE FlashTail
  <2>1. main.pc = "acked" /\ AnswersResult(content[main.buf], main.ptn)
    BY <1>1, <1>8 DEF FlashTail
  <2>2. main.ptn \in Ptns /\ content[main.buf] \in Sparse
    BY <1>1, <2>1, MainType DEF FlashInv, FlashSteps, Good, Turn
  <2>3. SizeOf[main.ptn] = "small"
    BY <2>1, <2>2 DEF AnswersResult
  <2> QED
    BY <2>1, <2>2, <2>3
<1>9. ASSUME NEW c \in Commands, HostCommand(c)
      PROVE \E ptn \in Ptns : SizeOf[ptn] = "small"
                              /\ rxBuf' = [k |-> "flash", ptn |-> ptn]
  BY <1>1, <1>9, CommandClash
<1> QED
  BY <1>2, <1>3, <1>4, <1>5, <1>6, <1>7, <1>8, <1>9 DEF Next, Device

\* While the cable stays in, the one reply that CmdFlash puts on top of another
\* is the result of a sparse image in a small partition; no timer, handler or
\* other command calls Send on an endpoint in use.
THEOREM OneSend == Spec => OneSendAtATime
<1>1. IInv /\ [Next]_vars =>
        [ Undisturbed /\ clash' =>
            \E ptn \in Ptns : /\ SizeOf[ptn] = "small"
                             /\ \/ main.pc = "acked" /\ main.ptn = ptn
                                \/ rxBuf' = [k |-> "flash", ptn |-> ptn] ]_vars
  BY ClashStep
<1> QED
  BY <1>1, Invariance, PTL DEF Spec, OneSendAtATime
=============================================================================
