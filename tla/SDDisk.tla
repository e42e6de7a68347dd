-------------------------------- MODULE SDDisk --------------------------------
(***************************************************************************)
(* The SD card disk driver under FatFs: Src/sd_diskio.c with the part of   *)
(* FatFs' diskio.c that dispatches to it, the BSP layer it calls and the   *)
(* HAL DMA transfer with its interrupt.                                    *)
(*                                                                         *)
(* One task at a time is inside the driver (FatFs holds the volume lock    *)
(* around every disk_* call, _FS_REENTRANT = 1).  The card, the SDMMC DMA  *)
(* and the SDMMC1 interrupt run concurrently with it.  The driver learns   *)
(* of a completion only through the message queue SDQueueID.               *)
(*                                                                         *)
(* Time is not counted: a bounded wait may give up at any moment at which  *)
(* what it waits for is absent.  TickWait.tla treats the tick arithmetic.  *)
(***************************************************************************)
EXTENDS Naturals, Sequences

CONSTANTS
  NSec,          (* hsd->SdCard.LogBlockNbr: sectors on the card            *)
  MaxCount,      (* bound on the number of sectors of one request           *)
  Data,          (* what a sector can hold                                  *)
  Junk,          (* uninitialised memory                                    *)
  QUEUE_SIZE,    (* length of SDQueueID                                     *)
  InitOutcomes   (* how BSP_SD_Init and the status check after it may end   *)

ASSUME SDAssumption ==
  /\ NSec \in Nat \ {0} /\ MaxCount \in Nat \ {0}
  /\ Junk \notin Data
  /\ QUEUE_SIZE \in Nat /\ QUEUE_SIZE >= 2
  /\ InitOutcomes \subseteq {"ok", "absent", "early", "late"}

Sectors == 0 .. NSec - 1
Content == Data \cup {Junk}
Buffer  == [1 .. MaxCount -> Content]
EmptyBuffer == [k \in 1 .. MaxCount |-> Junk]

READ_CPLT_MSG  == "READ_CPLT_MSG"
WRITE_CPLT_MSG == "WRITE_CPLT_MSG"

VARIABLES
  (* disk.is_initialized, the driver's Stat and queue, FatFs' view *)
  isInit, Stat, mounted, SDQueueID, queue,
  (* configASSERT failed in the interrupt: the processor spins for ever *)
  halted,
  (* the HAL handle uSdHandle (State, LogBlockNbr), the DMA transfer, the card *)
  halState, LogBlockNbr, xfer, card, disk,
  (* the call in progress: position, arguments, loop index, blocks copied,
     caller's buffer, result; and the static scratch block *)
  pc, req, i, copied, buff, scratch, res,
  (* history: a wait was given up while its transfer was still in flight;
     a wait of the current call ended without the message it waited for *)
  late, missed

initVars == <<isInit, Stat, mounted, SDQueueID>>
halVars  == <<halState, LogBlockNbr, xfer, card, disk>>
callVars == <<pc, req, i, copied, buff, scratch, res>>
history  == <<late, missed>>
vars == <<initVars, queue, halted, halVars, callVars, history>>

NoReq == [op |-> "none", fast |-> TRUE, sector |-> 0, count |-> 1,
          data |-> EmptyBuffer]
SyncReq == [op |-> "sync", fast |-> TRUE, sector |-> 0, count |-> 1,
            data |-> EmptyBuffer]
Request ==
  [op : {"none", "read", "write", "sync"}, fast : BOOLEAN, sector : Sectors,
   count : 1 .. MaxCount, data : Buffer]

NoXfer == [dir |-> "none", mem |-> "none", sector |-> 0, count |-> 0,
           phase |-> "none"]
Transfer ==
  [dir : {"read", "write"}, mem : {"buff", "scratch", "gone"},
   sector : Sectors, count : 1 .. MaxCount, phase : {"run", "end"}]

InFlight == IF xfer = NoXfer THEN 0 ELSE 1

TypeOK ==
  /\ isInit \in BOOLEAN /\ mounted \in BOOLEAN /\ SDQueueID \in BOOLEAN
  /\ Stat \in {"STA_NOINIT", "OK"}
  /\ queue \in Seq({READ_CPLT_MSG, WRITE_CPLT_MSG})
  /\ halted \in BOOLEAN
  /\ halState \in {"RESET", "READY", "BUSY"}
  /\ LogBlockNbr \in {0, NSec}
  /\ xfer \in Transfer \cup {NoXfer}
  /\ card \in {"OFF", "TRAN", "DATA", "PRG"}
  /\ disk \in [Sectors -> Content]
  /\ pc \in {"idle", "check", "start", "wait", "poll", "ret"}
  /\ req \in Request
  /\ i \in 0 .. MaxCount /\ copied \in 0 .. MaxCount
  /\ buff \in Buffer /\ scratch \in Content
  /\ res \in {"RES_OK", "RES_ERROR", "RES_NOTRDY"}
  /\ late \in BOOLEAN /\ missed \in BOOLEAN

(* MX_FATFS_Init has called SD_Initialize, and with it BSP_SD_Init, once before
   it mounts. *)
Init ==
  /\ isInit = FALSE /\ Stat = "STA_NOINIT" /\ mounted = FALSE
  /\ SDQueueID = FALSE /\ queue = <<>> /\ halted = FALSE
  /\ xfer = NoXfer
  /\ \E outcome \in InitOutcomes :
       /\ halState = IF outcome = "absent" THEN "RESET" ELSE "READY"
       /\ LogBlockNbr = IF outcome \in {"late", "ok"} THEN NSec ELSE 0
       /\ card = IF outcome \in {"late", "ok"} THEN "TRAN" ELSE "OFF"
  /\ disk \in [Sectors -> Data]
  /\ pc = "idle" /\ req = NoReq /\ i = 0 /\ copied = 0
  /\ buff = EmptyBuffer /\ scratch = Junk /\ res = "RES_ERROR"
  /\ late = FALSE /\ missed = FALSE

-------------------------------------------------------------------------------
(* What FatFs calls *)

(* BSP_SD_Init: "absent" finds no card, "early" fails before the card's size
   is known, "late" fails after it (bus width, status) or is followed by a
   status check that fails; HAL_SD_Init leaves State READY in all but the
   first, and what an attempt does not reach keeps its value.  The flag is set
   before the attempt. *)
disk_initialize(outcome) ==
  /\ pc = "idle" /\ ~isInit
  /\ isInit' = TRUE
  /\ halState' = IF outcome = "absent" THEN halState ELSE "READY"
  /\ LogBlockNbr' = IF outcome \in {"late", "ok"} THEN NSec ELSE LogBlockNbr
  /\ card' = IF outcome \in {"late", "ok"} THEN "TRAN" ELSE "OFF"
  /\ Stat' = IF outcome = "ok" THEN "OK" ELSE "STA_NOINIT"
  /\ SDQueueID' = (outcome = "ok")
  /\ mounted' = (outcome = "ok")
  /\ UNCHANGED <<queue, halted, xfer, disk, callVars, history>>

(* The second and later calls of disk_initialize report RES_OK unread. *)
disk_initialize_again ==
  /\ pc = "idle" /\ isInit
  /\ mounted' = TRUE
  /\ UNCHANGED <<isInit, Stat, SDQueueID, queue, halted, halVars, callVars,
                 history>>

(* SD_status: CMD13 may also fail on a card that is ready. *)
SD_CheckStatus(answered) ==
  /\ pc = "idle" /\ mounted
  /\ Stat' = IF card = "TRAN" /\ answered THEN "OK" ELSE "STA_NOINIT"
  /\ UNCHANGED <<isInit, mounted, SDQueueID, queue, halted, halVars, callVars,
                 history>>

(* Entry of SD_read and SD_write. *)
Call(r) ==
  /\ pc = "idle" /\ mounted
  /\ pc' = "check" /\ req' = r
  /\ i' = 0 /\ copied' = 0 /\ buff' = r.data /\ res' = "RES_ERROR"
  /\ missed' = FALSE
  /\ UNCHANGED <<initVars, queue, halted, halVars, scratch, late>>

SD_read(fast, sector, count) ==
  Call([op |-> "read", fast |-> fast, sector |-> sector, count |-> count,
        data |-> EmptyBuffer])

SD_write(fast, sector, count, data) ==
  Call([op |-> "write", fast |-> fast, sector |-> sector, count |-> count,
        data |-> [k \in 1 .. MaxCount |-> IF k \in 1 .. count THEN data[k] ELSE Junk]])

(* SD_ioctl with CTRL_SYNC *)
SD_ioctl_sync ==
  /\ pc = "idle" /\ mounted
  /\ pc' = "ret" /\ req' = SyncReq
  /\ res' = IF Stat = "STA_NOINIT" THEN "RES_NOTRDY" ELSE "RES_OK"
  /\ UNCHANGED <<initVars, queue, halted, halVars, i, copied, buff, scratch,
                 history>>

-------------------------------------------------------------------------------
(* The driver's steps inside a call *)

(* SD_CheckStatusWithTimeout *)
CheckReady ==
  /\ pc = "check" /\ card = "TRAN"
  /\ pc' = "start"
  /\ UNCHANGED <<initVars, queue, halted, halVars, req, i, copied, buff,
                 scratch, res, history>>

CheckTimeout ==
  /\ pc = "check"
  /\ pc' = "ret"
  /\ UNCHANGED <<initVars, queue, halted, halVars, req, i, copied, buff,
                 scratch, res, history>>

(* The sectors the next HAL transfer moves: all at once on the fast path, the
   i-th alone on the slow path. *)
FirstSector_OneBased == req.sector + i + 1
FirstSector == IF req.fast THEN req.sector ELSE req.sector + i
BlockCount_Single == 1
BlockCount_LastIndex == req.count - 1
BlockCount == IF req.fast THEN req.count ELSE 1

(* What HAL_SD_ReadBlocks_DMA and HAL_SD_WriteBlocks_DMA require, and the card
   for the read or write command itself. *)
HalAccepts ==
  /\ halState = "READY"
  /\ FirstSector + BlockCount <= LogBlockNbr
  /\ card = "TRAN"

StartTransfer ==
  /\ pc = "start" /\ HalAccepts
  /\ halState' = "BUSY"
  /\ xfer' = [dir |-> req.op, mem |-> IF req.fast THEN "buff" ELSE "scratch",
              sector |-> FirstSector, count |-> BlockCount, phase |-> "run"]
  /\ card' = "DATA"
  /\ pc' = "wait"
  /\ UNCHANGED <<initVars, queue, halted, LogBlockNbr, disk, req, i, copied,
                 buff, scratch, res, history>>

(* MSD_ERROR: the HAL is busy, the range is outside the card, or a command
   got no answer (possible in every state). *)
StartFails ==
  /\ pc = "start"
  /\ pc' = "ret"
  /\ UNCHANGED <<initVars, queue, halted, halVars, req, i, copied, buff,
                 scratch, res, history>>

(* Where a wait goes that ended with ("hit") or without the message. *)
AfterWait(hit) ==
  IF req.fast
    THEN /\ pc' = IF hit /\ req.op = "write" THEN "poll" ELSE "ret"
         /\ res' = IF hit /\ req.op = "read" THEN "RES_OK" ELSE res
         /\ UNCHANGED <<i, copied, buff>>
    ELSE /\ i' = i + 1
         /\ copied' = IF hit THEN copied + 1 ELSE copied
         /\ buff' = IF hit THEN [buff EXCEPT ![copied + 1] = scratch] ELSE buff
         /\ pc' = IF i + 1 = req.count THEN "ret" ELSE "start"
         /\ res' = IF i + 1 = req.count THEN "RES_OK" ELSE res

Expected_Swapped == IF req.op = "write" THEN READ_CPLT_MSG ELSE WRITE_CPLT_MSG
Expected == IF req.op = "read" THEN READ_CPLT_MSG ELSE WRITE_CPLT_MSG

(* osMessageGet returns a message, the expected one or another. *)
GetMessage ==
  /\ pc = "wait" /\ SDQueueID /\ queue # <<>>
  /\ queue' = Tail(queue)
  /\ AfterWait(Head(queue) = Expected)
  /\ missed' = (missed \/ Head(queue) # Expected)
  /\ UNCHANGED <<initVars, halted, halVars, req, scratch, late>>

(* When osMessageGet may come back empty-handed: the queue stayed empty for
   SD_TIMEOUT, or there is no queue. *)
MessageAbsent_Always == TRUE
MessageAbsent_Forever == FALSE
MessageAbsent == SDQueueID => queue = <<>>

GetTimeout ==
  /\ pc = "wait" /\ MessageAbsent
  /\ AfterWait(FALSE)
  /\ late' = (late \/ xfer # NoXfer)
  /\ missed' = TRUE
  /\ UNCHANGED <<initVars, queue, halted, halVars, req, scratch>>

(* The fast write's wait for the card to finish programming *)
PollReady_NoCheck ==
  /\ pc = "poll"
  /\ pc' = "ret" /\ res' = "RES_OK"
  /\ UNCHANGED <<initVars, queue, halted, halVars, req, i, copied, buff,
                 scratch, history>>
PollReady ==
  /\ pc = "poll" /\ card = "TRAN"
  /\ pc' = "ret" /\ res' = "RES_OK"
  /\ UNCHANGED <<initVars, queue, halted, halVars, req, i, copied, buff,
                 scratch, history>>

PollTimeout ==
  /\ pc = "poll"
  /\ pc' = "ret"
  /\ UNCHANGED <<initVars, queue, halted, halVars, req, i, copied, buff,
                 scratch, res, history>>

(* The call returns: the caller may reuse its buffer from here on, whether or
   not a transfer still points at it. *)
Return ==
  /\ pc = "ret"
  /\ pc' = "idle" /\ req' = NoReq /\ i' = 0 /\ copied' = 0
  /\ buff' = EmptyBuffer /\ res' = "RES_ERROR" /\ missed' = FALSE
  /\ xfer' = IF xfer.mem = "buff" THEN [xfer EXCEPT !.mem = "gone"] ELSE xfer
  /\ UNCHANGED <<initVars, queue, halted, halState, LogBlockNbr, card, disk,
                 scratch, late>>

-------------------------------------------------------------------------------
(* The hardware and the interrupt *)

(* The DMA moves the blocks in S of the current transfer; memory is what the
   source holds when the caller's buffer is gone. *)
MoveBlocks(S, memory) ==
  LET Source(k) == CASE xfer.mem = "buff"    -> buff[k]
                     [] xfer.mem = "scratch" -> scratch
                     [] OTHER                -> memory[k]
  IN IF xfer.dir = "read"
       THEN /\ buff' = IF xfer.mem = "buff"
                         THEN [k \in 1 .. MaxCount |->
                                 IF k \in S THEN disk[xfer.sector + k - 1] ELSE buff[k]]
                         ELSE buff
            /\ scratch' = IF xfer.mem = "scratch" /\ 1 \in S
                            THEN disk[xfer.sector] ELSE scratch
            /\ UNCHANGED disk
       ELSE /\ disk' = [s \in Sectors |->
                          IF \E k \in S : s = xfer.sector + k - 1
                            THEN Source(s + 1 - xfer.sector) ELSE disk[s]]
            /\ UNCHANGED <<buff, scratch>>

(* A card that has sent its data is ready again; one that has received data
   programs it; after a multi-block command it waits for the stop command. *)
CardAfter == IF xfer.dir = "read" THEN "TRAN" ELSE "PRG"

TransferEnds(memory) ==
  /\ xfer # NoXfer /\ xfer.phase = "run" /\ ~halted
  /\ MoveBlocks(1 .. xfer.count, memory)
  /\ xfer' = [xfer EXCEPT !.phase = "end"]
  /\ card' = IF xfer.count = 1 THEN CardAfter ELSE card
  /\ UNCHANGED <<initVars, queue, halted, halState, LogBlockNbr, pc, req, i,
                 copied, res, history>>

(* HAL_SD_IRQHandler, DATAEND: stop command, State READY, completion callback,
   osMessagePut from the interrupt.  xQueueGenericSendFromISR asserts that the
   queue exists and drops the message when the queue is full. *)
DataEndIRQ ==
  /\ xfer # NoXfer /\ xfer.phase = "end" /\ ~halted
  /\ halState' = "READY" /\ xfer' = NoXfer
  /\ card' = IF xfer.count = 1 THEN card ELSE CardAfter
  /\ halted' = ~SDQueueID
  /\ queue' = IF SDQueueID /\ Len(queue) < QUEUE_SIZE
                THEN Append(queue, IF xfer.dir = "read" THEN READ_CPLT_MSG
                                                        ELSE WRITE_CPLT_MSG)
                ELSE queue
  /\ UNCHANGED <<initVars, LogBlockNbr, disk, callVars, history>>

(* HAL_SD_IRQHandler on CRC failure, data timeout or FIFO error: the blocks in
   S got through; no message is sent (the error callback is not enabled). *)
ErrorIRQ(S, memory) ==
  /\ xfer # NoXfer /\ xfer.phase = "run" /\ ~halted
  /\ S \subseteq 1 .. xfer.count
  /\ MoveBlocks(S, memory)
  /\ halState' = "READY" /\ xfer' = NoXfer /\ card' = "TRAN"
  /\ UNCHANGED <<initVars, queue, halted, LogBlockNbr, pc, req, i, copied,
                 res, history>>

CardProgrammed ==
  /\ card = "PRG" /\ ~halted
  /\ card' = "TRAN"
  /\ UNCHANGED <<initVars, queue, halted, halState, LogBlockNbr, xfer, disk,
                 callVars, history>>

-------------------------------------------------------------------------------
(* What memory may hold where a transfer's buffer is no longer the caller's *)
Memory == IF xfer.mem = "gone" /\ xfer.dir = "write" THEN Buffer ELSE {EmptyBuffer}

FatFs ==
  \/ \E o \in InitOutcomes : disk_initialize(o)
  \/ disk_initialize_again
  \/ \E a \in BOOLEAN : SD_CheckStatus(a)
  \/ \E f \in BOOLEAN, s \in Sectors, n \in 1 .. MaxCount : SD_read(f, s, n)
  \/ \E f \in BOOLEAN, s \in Sectors, n \in 1 .. MaxCount :
       \E d \in [1 .. n -> Data] : SD_write(f, s, n, d)
  \/ SD_ioctl_sync

Driver ==
  \/ CheckReady \/ CheckTimeout \/ StartTransfer \/ StartFails
  \/ GetMessage \/ GetTimeout \/ PollReady \/ PollTimeout \/ Return

Hardware ==
  \/ \E m \in Memory : TransferEnds(m)
  \/ DataEndIRQ
  \/ \E S \in SUBSET (1 .. MaxCount), m \in Memory : ErrorIRQ(S, m)
  \/ CardProgrammed

Next == (~halted /\ (FatFs \/ Driver)) \/ Hardware

Spec == Init /\ [][Next]_vars

(* The task inside the driver keeps running and the tick keeps counting, so
   every bounded wait ends; nothing is assumed of the card. *)
FairSpec == Spec /\ WF_vars(~halted /\ Driver)
-------------------------------------------------------------------------------
(* Properties.  Outstanding counts the completions the driver has asked for
   and not yet taken: at most the message of the transfer in flight, or the
   message already queued. *)
Outstanding == Len(queue) + InFlight

(* When the completion interrupt posts its message the queue has room, so no
   completion is ever dropped (sd_diskio.c:505 and 528, xQueueGenericSendFromISR),
   whatever the card does and however many waits are given up. *)
PostFindsRoom == xfer # NoXfer => Len(queue) < QUEUE_SIZE

(* A transfer points at memory that its caller has taken back only if some
   wait was given up while its transfer was in flight (sd_diskio.c:267). *)
BufferReleased == xfer.mem = "gone" => late

(* As long as no wait has been given up with its transfer in flight, the
   message a waiting call takes is that of its own, finished transfer. *)
OwnMessage ==
  pc = "wait" /\ queue # <<>> /\ ~late =>
     xfer = NoXfer /\ Len(queue) = 1 /\ Head(queue) = Expected

Returned(op, fast) == pc = "ret" /\ req.op = op /\ req.fast = fast /\ res = "RES_OK"

(* The caller's buffer holds what the card holds in the requested sectors. *)
BufferIsDisk == \A k \in 1 .. req.count : buff[k] = disk[req.sector + k - 1]

(* The requested sectors hold what the caller passed. *)
DiskIsRequest == \A k \in 1 .. req.count : disk[req.sector + k - 1] = req.data[k]

(* SD_read to an aligned buffer returns RES_OK only with the sectors read,
   as long as no wait was ever given up with its transfer in flight. *)
FastReadSound == Returned("read", TRUE) /\ ~late => BufferIsDisk

(* SD_read to an unaligned buffer does so if, besides, none of its own waits
   missed its message (sd_diskio.c:286-308 goes on after a miss). *)
SlowReadSound == Returned("read", FALSE) /\ ~late /\ ~missed => BufferIsDisk

(* SD_write from an aligned buffer returns RES_OK only when the card holds the
   data and has finished programming, as long as no wait was ever given up. *)
FastWriteSound ==
  Returned("write", TRUE) /\ ~late => DiskIsRequest /\ card = "TRAN"

(* A sector changes only during a call of SD_write that covers it, unless a
   wait was given up with its transfer in flight. *)
NoStrayWrite ==
  [][\A s \in Sectors : disk'[s] # disk[s] =>
        \/ late
        \/ /\ pc = "wait" /\ req.op = "write"
           /\ s \in req.sector .. req.sector + req.count - 1]_vars

(* Every call returns, however the card behaves: each of its waits is bounded.
   Only the failed assertion in the interrupt stops the system. *)
EveryCallReturns == pc # "idle" ~> (pc = "idle" \/ halted)

-------------------------------------------------------------------------------
(* What a comment of the code says, and the code does not keep. *)

(* sd_diskio.c:327 "@param *buff: Data to be written". *)
SlowWriteWritesBuffer == Returned("write", FALSE) /\ ~late => DiskIsRequest
===============================================================================
