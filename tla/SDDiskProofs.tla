----------------------------- MODULE SDDiskProofs -----------------------------
(***************************************************************************)
(* The safety properties of SDDisk for every card size, request size,      *)
(* queue length of at least two, sector content and outcome of the         *)
(* initialisation.                                                         *)
(***************************************************************************)
EXTENDS SDDisk, TickWait, SequenceTheorems, TLAPS

-------------------------------------------------------------------------------
(* The control part of the inductive invariant *)

InCall == pc \in {"check", "start", "wait", "poll"}

(* Nothing is in flight before the first disk_initialize; without a queue no
   message is queued. *)
SetUp ==
  /\ ~isInit => ~mounted /\ pc = "idle" /\ xfer = NoXfer /\ ~SDQueueID
  /\ ~SDQueueID => queue = <<>>

(* Where the call in progress stands *)
CallInv ==
  /\ InCall => req.op \in {"read", "write"} /\ res = "RES_ERROR"
  /\ pc \in {"check", "start", "wait"} => i < req.count
  /\ copied <= i
  /\ req.fast => i = 0
  /\ pc = "idle" => i = 0
  /\ pc = "poll" => req.fast /\ req.op = "write"

(* The HAL is busy exactly while a transfer runs, and that is on the card. *)
HalInv ==
  /\ halState = "BUSY" <=> xfer # NoXfer
  /\ xfer # NoXfer => xfer.sector + xfer.count <= NSec

(* Completions that a call left behind are at most one. *)
CountInv == Outstanding <= IF pc = "wait" THEN 2 ELSE 1

OwnTransfer ==
  /\ xfer.dir = req.op
  /\ xfer.mem = (IF req.fast THEN "buff" ELSE "scratch")
  /\ xfer.sector = FirstSector /\ xfer.count = BlockCount

(* As long as no wait was given up early, a transfer and a message exist only
   in the wait for them. *)
OnTime ==
  ~late =>
    /\ pc # "wait" => queue = <<>> /\ xfer = NoXfer
    /\ xfer # NoXfer => queue = <<>> /\ OwnTransfer
    /\ queue # <<>> => xfer = NoXfer /\ queue = <<Expected>>

Core == TypeOK /\ SetUp /\ CallInv /\ HalInv /\ CountInv /\ OnTime /\ BufferReleased

-------------------------------------------------------------------------------
(* Lemmas *)

Messages == {READ_CPLT_MSG, WRITE_CPLT_MSG}

(* What is known of a queue's length, head and tail *)
LEMMA QueueFacts ==
  ASSUME NEW q \in Seq(Messages)
  PROVE  /\ Len(q) \in Nat
         /\ Len(q) = 0 <=> q = <<>>
         /\ q # <<>> => /\ Head(q) \in Messages /\ Tail(q) \in Seq(Messages)
                        /\ Len(q) >= 1 /\ Len(Tail(q)) = Len(q) - 1
<1>1. Len(q) \in Nat /\ (Len(q) = 0 <=> q = <<>>)
  BY EmptySeq
<1>2. ASSUME q # <<>>
      PROVE  /\ Head(q) \in Messages /\ Tail(q) \in Seq(Messages)
             /\ Len(Tail(q)) = Len(q) - 1
  BY <1>2, HeadTailProperties
<1> QED BY <1>1, <1>2

LEMMA PostFacts ==
  ASSUME NEW q \in Seq(Messages), NEW m \in Messages
  PROVE  /\ Append(q, m) \in Seq(Messages)
         /\ Len(Append(q, m)) = Len(q) + 1
         /\ q = <<>> => Append(q, m) = <<m>>
<1>1. Append(q, m) \in Seq(Messages) /\ Len(Append(q, m)) = Len(q) + 1
  BY AppendProperties
<1>2. Append(<<>>, m) = <<m>>
  OBVIOUS
<1> QED BY <1>1, <1>2

LEMMA OneMessage ==
  ASSUME NEW m PROVE <<m>> # <<>> /\ Len(<<m>>) = 1 /\ Head(<<m>>) = m /\ Tail(<<m>>) = <<>>
OBVIOUS

(* NoXfer is no transfer. *)
LEMMA NoXferFields ==
  /\ NoXfer \notin Transfer
  /\ NoXfer.mem = "none" /\ NoXfer.phase = "none"
  /\ \A x \in Transfer : /\ x.dir \in {"read", "write"}
                         /\ x.mem \in {"buff", "scratch", "gone"}
                         /\ x.sector \in Sectors /\ x.count \in 1 .. MaxCount
                         /\ x.phase \in {"run", "end"}
BY DEF NoXfer, Transfer

LEMMA NoReqTyped == NoReq \in Request /\ SyncReq \in Request /\ EmptyBuffer \in Buffer
BY SDAssumption DEF NoReq, SyncReq, Request, EmptyBuffer, Buffer, Content, Sectors

LEMMA InitCore == Init => Core
<1> SUFFICES ASSUME Init PROVE Core
  OBVIOUS
<1> USE DEF Init
<1>1. TypeOK
  <2>1. disk \in [Sectors -> Content] /\ scratch \in Content
    BY DEF Content
  <2>2. queue \in Seq({READ_CPLT_MSG, WRITE_CPLT_MSG})
    BY EmptySeq
  <2>3. i \in 0 .. MaxCount /\ copied \in 0 .. MaxCount
    BY SDAssumption
  <2>4. req \in Request /\ buff \in Buffer /\ LogBlockNbr \in {0, NSec}
    BY NoReqTyped
  <2> QED BY <2>1, <2>2, <2>3, <2>4 DEF TypeOK
<1>2. SetUp /\ HalInv /\ OnTime /\ BufferReleased
  BY DEF SetUp, HalInv, OnTime, BufferReleased, NoXfer
<1>3. CallInv
  BY DEF CallInv, InCall, NoReq
<1>4. CountInv
  BY DEF CountInv, Outstanding, InFlight
<1> QED BY <1>1, <1>2, <1>3, <1>4 DEF Core

-------------------------------------------------------------------------------
(* The control invariant: FatFs' calls *)

LEMMA CoreInitialize ==
  ASSUME Core, NEW o \in InitOutcomes, disk_initialize(o)
  PROVE  Core'
<1> USE DEF disk_initialize, callVars, history, Core
<1>1. TypeOK'
  BY DEF TypeOK
<1>2. SetUp' /\ HalInv' /\ BufferReleased'
  BY DEF SetUp, HalInv, BufferReleased
<1>3. CallInv' /\ CountInv'
  BY DEF CallInv, InCall, CountInv, Outstanding, InFlight
<1>4. OnTime'
  BY DEF OnTime, SetUp
<1> QED BY <1>1, <1>2, <1>3, <1>4

LEMMA CoreStatus ==
  ASSUME Core, disk_initialize_again \/ \E a \in BOOLEAN : SD_CheckStatus(a)
  PROVE  Core'
<1> USE DEF disk_initialize_again, SD_CheckStatus, callVars, halVars, history, Core
<1>1. TypeOK'
  <2>1. Stat' \in {"STA_NOINIT", "OK"} /\ mounted' \in BOOLEAN
    BY DEF TypeOK
  <2> QED BY <2>1 DEF TypeOK
<1>2. SetUp' /\ HalInv' /\ BufferReleased'
  BY DEF SetUp, HalInv, BufferReleased
<1>3. CallInv' /\ CountInv'
  BY DEF CallInv, InCall, CountInv, Outstanding, InFlight
<1>4. OnTime'
  BY DEF OnTime, OwnTransfer, FirstSector, BlockCount, Expected
<1> QED BY <1>1, <1>2, <1>3, <1>4

LEMMA CoreCall ==
  ASSUME Core, NEW r \in Request, r.op \in {"read", "write"}, Call(r)
  PROVE  Core'
<1> USE DEF Call, initVars, halVars, Core
<1>0. r.data \in Buffer /\ r.count \in 1 .. MaxCount
  BY DEF Request
<1>1. TypeOK'
  <2>1. i' \in 0 .. MaxCount /\ copied' \in 0 .. MaxCount
    BY SDAssumption
  <2>2. req' \in Request /\ buff' \in Buffer
    BY <1>0
  <2>3. late' \in BOOLEAN /\ missed' \in BOOLEAN
    BY DEF TypeOK
  <2> QED BY <2>1, <2>2, <2>3 DEF TypeOK
<1>2. SetUp' /\ HalInv' /\ BufferReleased'
  BY DEF SetUp, HalInv, BufferReleased
<1>3. CallInv' /\ CountInv'
  BY <1>0, SDAssumption DEF CallInv, InCall, CountInv, Outstanding, InFlight
<1>4. OnTime'
  BY DEF OnTime
<1> QED BY <1>1, <1>2, <1>3, <1>4

LEMMA CoreSync ==
  ASSUME Core, SD_ioctl_sync
  PROVE  Core'
<1> USE DEF SD_ioctl_sync, initVars, halVars, history, Core
<1>1. TypeOK'
  BY NoReqTyped DEF TypeOK
<1>2. SetUp' /\ HalInv' /\ BufferReleased'
  BY DEF SetUp, HalInv, BufferReleased
<1>3. CallInv' /\ CountInv'
  BY DEF CallInv, InCall, CountInv, Outstanding, InFlight
<1>4. OnTime'
  BY DEF OnTime
<1> QED BY <1>1, <1>2, <1>3, <1>4

(* The requests of FatFs are requests. *)
LEMMA ReadTyped ==
  ASSUME NEW f \in BOOLEAN, NEW s \in Sectors, NEW n \in 1 .. MaxCount
  PROVE  [op |-> "read", fast |-> f, sector |-> s, count |-> n,
          data |-> EmptyBuffer] \in Request
BY NoReqTyped DEF Request

LEMMA WriteTyped ==
  ASSUME NEW f \in BOOLEAN, NEW s \in Sectors, NEW n \in 1 .. MaxCount,
         NEW d \in [1 .. n -> Data]
  PROVE  [op |-> "write", fast |-> f, sector |-> s, count |-> n,
          data |-> [k \in 1 .. MaxCount |-> IF k \in 1 .. n THEN d[k] ELSE Junk]]
         \in Request
<1>1. [k \in 1 .. MaxCount |-> IF k \in 1 .. n THEN d[k] ELSE Junk] \in Buffer
  BY DEF Buffer, Content
<1> QED BY <1>1 DEF Request

LEMMA CoreFatFs == Core /\ FatFs => Core'
<1> SUFFICES ASSUME Core, FatFs PROVE Core'
  OBVIOUS
<1>1. CASE \E o \in InitOutcomes : disk_initialize(o)
  BY <1>1, CoreInitialize
<1>2. CASE disk_initialize_again \/ \E a \in BOOLEAN : SD_CheckStatus(a)
  BY <1>2, CoreStatus
<1>3. CASE \E f \in BOOLEAN, s \in Sectors, n \in 1 .. MaxCount : SD_read(f, s, n)
  BY <1>3, CoreCall, ReadTyped DEF SD_read
<1>4. CASE \E f \in BOOLEAN, s \in Sectors, n \in 1 .. MaxCount :
             \E d \in [1 .. n -> Data] : SD_write(f, s, n, d)
  BY <1>4, CoreCall, WriteTyped DEF SD_write
<1>5. CASE SD_ioctl_sync
  BY <1>5, CoreSync
<1> QED BY <1>1, <1>2, <1>3, <1>4, <1>5 DEF FatFs

-------------------------------------------------------------------------------
(* The control invariant: the driver's steps *)

(* Steps that change only the position in the call and its result *)
LEMMA CoreMove ==
  ASSUME Core, pc \in {"check", "start", "poll"},
         CheckReady \/ CheckTimeout \/ StartFails \/ PollReady \/ PollTimeout
  PROVE  Core'
<1> USE DEF CheckReady, CheckTimeout, StartFails, PollReady, PollTimeout,
            initVars, halVars, history, Core
<1>1. TypeOK'
  <2>1. pc' \in {"start", "ret"} /\ res' \in {"RES_OK", res}
    OBVIOUS
  <2> QED BY <2>1 DEF TypeOK
<1>2. SetUp' /\ HalInv' /\ BufferReleased'
  BY DEF SetUp, HalInv, BufferReleased
<1>3. CallInv' /\ CountInv'
  BY DEF CallInv, InCall, CountInv, Outstanding, InFlight
<1>4. OnTime'
  BY DEF OnTime
<1> QED BY <1>1, <1>2, <1>3, <1>4

(* The transfer that StartTransfer makes lies on the card. *)
LEMMA Started ==
  ASSUME Core, StartTransfer
  PROVE  /\ xfer' \in Transfer /\ xfer' # NoXfer /\ xfer'.phase = "run"
         /\ xfer'.sector + xfer'.count <= NSec
         /\ xfer'.mem # "gone" /\ OwnTransfer'
<1> USE DEF StartTransfer, Core
<1>1. /\ req.op \in {"read", "write"} /\ req.sector \in Sectors
      /\ req.count \in 1 .. MaxCount /\ i \in 0 .. MaxCount
  BY DEF CallInv, InCall, TypeOK, Request
<1>2. FirstSector \in Nat /\ BlockCount \in 1 .. MaxCount
  BY <1>1, SDAssumption DEF FirstSector, BlockCount, Sectors
<1>3. FirstSector + BlockCount <= NSec
  BY <1>2, SDAssumption DEF HalAccepts, TypeOK
<1>4. FirstSector \in Sectors
  BY <1>2, <1>3, SDAssumption DEF Sectors
<1>5. xfer' \in Transfer
  BY <1>1, <1>2, <1>4 DEF Transfer
<1>6. /\ xfer'.dir = req.op /\ xfer'.sector = FirstSector
      /\ xfer'.count = BlockCount /\ xfer'.phase = "run"
      /\ xfer'.mem = (IF req.fast THEN "buff" ELSE "scratch")
  OBVIOUS
<1>7. OwnTransfer'
  BY <1>6 DEF OwnTransfer, FirstSector, BlockCount
<1> QED BY <1>3, <1>5, <1>6, <1>7, NoXferFields

LEMMA CoreStart ==
  ASSUME Core, StartTransfer
  PROVE  Core'
<1> USE DEF StartTransfer, initVars, history, Core
<1>1. TypeOK'
  BY Started DEF TypeOK
<1>2. SetUp' /\ HalInv' /\ BufferReleased'
  BY Started DEF SetUp, HalInv, BufferReleased
<1>3. CallInv'
  BY DEF CallInv, InCall
<1>4. xfer = NoXfer
  BY DEF HalAccepts, HalInv
<1>5. CountInv'
  BY <1>4, QueueFacts DEF CountInv, Outstanding, InFlight, TypeOK, Messages
<1>6. OnTime'
  BY Started DEF OnTime
<1> QED BY <1>1, <1>2, <1>3, <1>5, <1>6

(* What AfterWait does to the call, whatever the wait's end. *)
LEMMA AfterWaitCall ==
  ASSUME Core, pc = "wait", UNCHANGED req, NEW hit \in BOOLEAN, AfterWait(hit)
  PROVE  /\ pc' \in {"start", "poll", "ret"}
         /\ i' \in 0 .. MaxCount /\ copied' \in 0 .. MaxCount
         /\ buff' \in Buffer /\ res' \in {"RES_OK", "RES_ERROR"}
         /\ CallInv'
<1>1. /\ req.op \in {"read", "write"} /\ res = "RES_ERROR" /\ i < req.count
      /\ copied <= i /\ (req.fast => i = 0) /\ req.fast \in BOOLEAN
      /\ req.count \in 1 .. MaxCount /\ i \in 0 .. MaxCount /\ copied \in 0 .. MaxCount
  BY DEF Core, CallInv, InCall, TypeOK, Request
<1>2. CASE req.fast
  BY <1>1, <1>2 DEF AfterWait, CallInv, InCall, Core, TypeOK
<1>3. CASE ~req.fast
  <2>1. /\ i' = i + 1 /\ copied' \in {copied, copied + 1}
        /\ pc' = (IF i + 1 = req.count THEN "ret" ELSE "start")
        /\ res' = IF i + 1 = req.count THEN "RES_OK" ELSE res
    BY <1>3 DEF AfterWait
  <2>2. i + 1 \in 0 .. MaxCount /\ copied + 1 \in 1 .. MaxCount
    BY <1>1, SDAssumption
  <2>3. buff' \in Buffer
    BY <1>3, <2>2 DEF AfterWait, Core, TypeOK, Buffer
  <2>4. copied' <= i' /\ copied' \in 0 .. MaxCount
    BY <1>1, <2>1, <2>2
  <2>5. pc' = "start" => i' < req.count
    BY <1>1, <2>1
  <2>6. CallInv'
    BY <1>1, <1>3, <2>1, <2>4, <2>5 DEF CallInv, InCall
  <2> QED BY <1>1, <2>1, <2>2, <2>3, <2>4, <2>6
<1> QED BY <1>2, <1>3

LEMMA CoreGet ==
  ASSUME Core, GetMessage
  PROVE  Core'
<1> USE DEF GetMessage, initVars, halVars, Core
<1> DEFINE hit == Head(queue) = Expected
<1>1. /\ hit \in BOOLEAN /\ queue \in Seq(Messages) /\ queue # <<>>
      /\ Tail(queue) \in Seq(Messages) /\ Len(Tail(queue)) = Len(queue) - 1
      /\ Len(queue) \in Nat
  BY QueueFacts DEF TypeOK, Messages
<1>2. /\ pc' \in {"start", "poll", "ret"}
      /\ i' \in 0 .. MaxCount /\ copied' \in 0 .. MaxCount
      /\ buff' \in Buffer /\ res' \in {"RES_OK", "RES_ERROR"}
      /\ CallInv'
  BY <1>1, AfterWaitCall
<1>3. TypeOK'
  <2>1. missed' \in BOOLEAN
    BY <1>1 DEF TypeOK
  <2> QED BY <1>1, <1>2, <2>1 DEF TypeOK, Messages
<1>4. SetUp' /\ HalInv' /\ BufferReleased'
  BY <1>2 DEF SetUp, HalInv, BufferReleased
<1>5. CountInv'
  BY <1>1, <1>2 DEF CountInv, Outstanding, InFlight
<1>6. ~late => Tail(queue) = <<>> /\ xfer = NoXfer
  BY OneMessage DEF OnTime
<1>7. OnTime'
  BY <1>2, <1>6 DEF OnTime
<1> QED BY <1>2, <1>3, <1>4, <1>5, <1>7

LEMMA CoreTimeout ==
  ASSUME Core, GetTimeout
  PROVE  Core'
<1> USE DEF GetTimeout, initVars, halVars, Core
<1>1. queue = <<>>
  BY DEF MessageAbsent, SetUp, TypeOK
<1>2. /\ pc' \in {"start", "poll", "ret"}
      /\ i' \in 0 .. MaxCount /\ copied' \in 0 .. MaxCount
      /\ buff' \in Buffer /\ res' \in {"RES_OK", "RES_ERROR"}
      /\ CallInv'
  BY AfterWaitCall
<1>3. late' \in BOOLEAN /\ (late => late') /\ (~late' => xfer = NoXfer)
  BY DEF TypeOK
<1>4. TypeOK'
  BY <1>2, <1>3 DEF TypeOK
<1>5. SetUp' /\ HalInv' /\ BufferReleased'
  BY <1>2, <1>3 DEF SetUp, HalInv, BufferReleased
<1>6. CountInv'
  BY <1>1, <1>2, OneMessage, EmptySeq DEF CountInv, Outstanding, InFlight
<1>7. OnTime'
  BY <1>1, <1>2, <1>3 DEF OnTime
<1> QED BY <1>2, <1>4, <1>5, <1>6, <1>7

LEMMA CoreReturn ==
  ASSUME Core, Return
  PROVE  Core'
<1> USE DEF Return, initVars, Core
<1>1. /\ xfer' \in Transfer \cup {NoXfer} /\ (xfer' = NoXfer <=> xfer = NoXfer)
      /\ xfer' # NoXfer => xfer'.sector = xfer.sector /\ xfer'.count = xfer.count
      /\ xfer'.mem = "gone" => xfer.mem \in {"buff", "gone"}
  <2>1. CASE xfer = NoXfer
    BY <2>1, NoXferFields
  <2>2. CASE xfer \in Transfer
    BY <2>2, NoXferFields DEF Transfer
  <2> QED BY <2>1, <2>2 DEF TypeOK
<1>2. TypeOK'
  <2>1. i' \in 0 .. MaxCount /\ copied' \in 0 .. MaxCount
    BY SDAssumption
  <2> QED BY <1>1, <2>1, NoReqTyped, ZenonT(40) DEF TypeOK
<1>3. SetUp' /\ HalInv'
  BY <1>1 DEF SetUp, HalInv
<1>4. CallInv'
  BY DEF CallInv, InCall
<1>5. CountInv'
  BY <1>1 DEF CountInv, Outstanding, InFlight
<1>6. ~late => xfer = NoXfer
  BY DEF OnTime
<1>7. OnTime' /\ BufferReleased'
  BY <1>1, <1>6, NoXferFields DEF OnTime, BufferReleased
<1> QED BY <1>2, <1>3, <1>4, <1>5, <1>7

LEMMA CoreDriver == Core /\ Driver => Core'
<1> SUFFICES ASSUME Core, Driver PROVE Core'
  OBVIOUS
<1>1. CASE CheckReady \/ CheckTimeout \/ StartFails \/ PollReady \/ PollTimeout
  <2>1. pc \in {"check", "start", "poll"}
    BY <1>1 DEF CheckReady, CheckTimeout, StartFails, PollReady, PollTimeout
  <2> QED BY <1>1, <2>1, CoreMove
<1> QED BY <1>1, CoreStart, CoreGet, CoreTimeout, CoreReturn DEF Driver

-------------------------------------------------------------------------------
(* The control invariant: the hardware's steps *)

LEMMA MemoryTyped == \A m \in Memory : m \in Buffer
BY NoReqTyped DEF Memory

(* The DMA keeps memory and card within their types. *)
LEMMA MoveTyped ==
  ASSUME TypeOK, HalInv, xfer # NoXfer, NEW S \in SUBSET (1 .. xfer.count),
         NEW m \in Buffer, MoveBlocks(S, m)
  PROVE  buff' \in Buffer /\ scratch' \in Content /\ disk' \in [Sectors -> Content]
<1>1. /\ xfer \in Transfer /\ xfer.sector \in Sectors /\ xfer.count \in 1 .. MaxCount
      /\ xfer.sector + xfer.count <= NSec
  BY NoXferFields DEF TypeOK, HalInv
<1>2. \A k \in S : xfer.sector + k - 1 \in Sectors /\ k \in 1 .. MaxCount
  BY <1>1, SDAssumption DEF Sectors
<1>3. buff \in Buffer /\ scratch \in Content /\ disk \in [Sectors -> Content]
  BY DEF TypeOK
<1>4. CASE xfer.dir = "read"
  <2>1. /\ buff' = IF xfer.mem = "buff"
                     THEN [k \in 1 .. MaxCount |->
                             IF k \in S THEN disk[xfer.sector + k - 1] ELSE buff[k]]
                     ELSE buff
        /\ scratch' = IF xfer.mem = "scratch" /\ 1 \in S
                        THEN disk[xfer.sector] ELSE scratch
        /\ disk' = disk
    BY <1>4 DEF MoveBlocks
  <2>2. buff' \in Buffer
    BY <1>2, <1>3, <2>1 DEF Buffer
  <2> QED BY <1>1, <1>3, <2>1, <2>2
<1>5. CASE xfer.dir # "read"
  <2> DEFINE Source(k) == CASE xfer.mem = "buff"    -> buff[k]
                            [] xfer.mem = "scratch" -> scratch
                            [] OTHER                -> m[k]
  <2>1. /\ disk' = [s \in Sectors |->
                      IF \E k \in S : s = xfer.sector + k - 1
                        THEN Source(s + 1 - xfer.sector) ELSE disk[s]]
        /\ UNCHANGED <<buff, scratch>>
    BY <1>5 DEF MoveBlocks
  <2>2. \A k \in 1 .. MaxCount : Source(k) \in Content
    BY <1>3 DEF Buffer
  <2>3. ASSUME NEW s \in Sectors, NEW k \in S, s = xfer.sector + k - 1
        PROVE  s + 1 - xfer.sector = k
    BY <1>1, <1>2, <2>3, SDAssumption DEF Sectors
  <2> HIDE DEF Source
  <2>4. disk' \in [Sectors -> Content]
    BY <1>2, <1>3, <2>1, <2>2, <2>3
  <2> QED BY <1>3, <2>1, <2>4
<1> QED BY <1>4, <1>5

LEMMA CoreTransferEnds ==
  ASSUME Core, NEW m \in Buffer, TransferEnds(m)
  PROVE  Core'
<1> USE DEF TransferEnds, initVars, history, Core
<1>1. xfer \in Transfer /\ xfer.count \in 1 .. MaxCount
  BY NoXferFields DEF TypeOK
<1>2. buff' \in Buffer /\ scratch' \in Content /\ disk' \in [Sectors -> Content]
  BY <1>1, MoveTyped
<1>3. /\ xfer' \in Transfer /\ xfer' # NoXfer
      /\ xfer'.dir = xfer.dir /\ xfer'.mem = xfer.mem
      /\ xfer'.sector = xfer.sector /\ xfer'.count = xfer.count
  BY <1>1, NoXferFields DEF Transfer
<1>4. TypeOK'
  BY <1>2, <1>3 DEF TypeOK, CardAfter
<1>5. SetUp' /\ HalInv' /\ BufferReleased'
  BY <1>3 DEF SetUp, HalInv, BufferReleased
<1>6. CallInv' /\ CountInv'
  BY <1>3 DEF CallInv, InCall, CountInv, Outstanding, InFlight
<1>7. OnTime'
  BY <1>3 DEF OnTime, OwnTransfer, FirstSector, BlockCount, Expected
<1> QED BY <1>4, <1>5, <1>6, <1>7

LEMMA CoreDataEnd ==
  ASSUME Core, DataEndIRQ
  PROVE  Core'
<1> USE DEF DataEndIRQ, initVars, callVars, history, Core
<1> DEFINE m == IF xfer.dir = "read" THEN READ_CPLT_MSG ELSE WRITE_CPLT_MSG
<1>1. /\ queue \in Seq(Messages) /\ m \in Messages /\ Len(queue) \in Nat
      /\ Append(queue, m) \in Seq(Messages)
      /\ Len(Append(queue, m)) = Len(queue) + 1
      /\ queue = <<>> => Append(queue, m) = <<m>>
  BY QueueFacts, PostFacts DEF TypeOK, Messages
<1>2. queue' \in {queue, Append(queue, m)} /\ (~SDQueueID => queue' = queue)
  OBVIOUS
<1>3. TypeOK'
  BY <1>1, <1>2 DEF TypeOK, Messages, CardAfter
<1>4. SetUp' /\ HalInv' /\ BufferReleased'
  BY <1>2, NoXferFields DEF SetUp, HalInv, BufferReleased
<1>5. CallInv' /\ CountInv'
  <2>1. CountInv'
    BY <1>1, <1>2 DEF CountInv, Outstanding, InFlight
  <2> QED BY <2>1 DEF CallInv, InCall
<1>6. OnTime'
  <2>1. CASE ~late
    <3>1. pc = "wait" /\ queue = <<>> /\ xfer.dir = req.op
      BY <2>1 DEF OnTime, OwnTransfer
    <3>2. req.op \in {"read", "write"}
      BY <3>1 DEF CallInv, InCall
    <3>3. m = Expected
      BY <3>1, <3>2 DEF Expected
    <3>4. queue' \in {<<>>, <<Expected>>}
      BY <1>1, <1>2, <3>1, <3>3
    <3> QED BY <3>1, <3>4 DEF OnTime, Expected
  <2>2. CASE late
    BY <2>2 DEF OnTime
  <2> QED BY <2>1, <2>2
<1> QED BY <1>3, <1>4, <1>5, <1>6

LEMMA CoreError ==
  ASSUME Core, NEW S \in SUBSET (1 .. MaxCount), NEW m \in Buffer, ErrorIRQ(S, m)
  PROVE  Core'
<1> USE DEF ErrorIRQ, initVars, history, Core
<1>1. buff' \in Buffer /\ scratch' \in Content /\ disk' \in [Sectors -> Content]
  BY MoveTyped
<1>2. TypeOK'
  BY <1>1 DEF TypeOK
<1>3. SetUp' /\ HalInv' /\ BufferReleased'
  BY NoXferFields DEF SetUp, HalInv, BufferReleased
<1>4. CallInv' /\ CountInv'
  <2>1. CountInv'
    BY QueueFacts DEF CountInv, Outstanding, InFlight, TypeOK, Messages
  <2> QED BY <2>1 DEF CallInv, InCall
<1>5. OnTime'
  BY DEF OnTime, Expected
<1> QED BY <1>2, <1>3, <1>4, <1>5

LEMMA CoreProgrammed ==
  ASSUME Core, CardProgrammed
  PROVE  Core'
<1> USE DEF CardProgrammed, initVars, callVars, history, Core
<1>1. TypeOK'
  BY DEF TypeOK
<1>2. SetUp' /\ HalInv' /\ BufferReleased'
  BY DEF SetUp, HalInv, BufferReleased
<1>3. CallInv' /\ CountInv'
  BY DEF CallInv, InCall, CountInv, Outstanding, InFlight
<1>4. OnTime'
  BY DEF OnTime, OwnTransfer, FirstSector, BlockCount, Expected
<1> QED BY <1>1, <1>2, <1>3, <1>4

LEMMA CoreStutter == ASSUME Core, UNCHANGED vars PROVE Core'
BY DEF vars, initVars, halVars, callVars, history, Core, TypeOK, SetUp, CallInv,
       InCall, HalInv, CountInv, Outstanding, InFlight, OnTime, OwnTransfer,
       FirstSector, BlockCount, Expected, BufferReleased

LEMMA NextCore == Core /\ [Next]_vars => Core'
<1> SUFFICES ASSUME Core, [Next]_vars PROVE Core'
  OBVIOUS
<1>1. CASE Hardware
  BY <1>1, MemoryTyped, CoreTransferEnds, CoreDataEnd, CoreError, CoreProgrammed
     DEF Hardware
<1> QED BY <1>1, CoreFatFs, CoreDriver, CoreStutter DEF Next

-------------------------------------------------------------------------------

(* The state of the driver, the HAL and the card keeps its type, whatever the
   card does. *)
THEOREM TypeCorrect == Spec => []TypeOK
BY InitCore, NextCore, PTL DEF Spec, Core

(* With a queue of at least two messages no completion is ever dropped, for
   every pattern of late and lost completions. *)
THEOREM CompletionFindsRoom == Spec => []PostFindsRoom
<1>1. Core => PostFindsRoom
  BY SDAssumption, QueueFacts
     DEF Core, CountInv, Outstanding, InFlight, PostFindsRoom, TypeOK, Messages
<1> QED BY InitCore, NextCore, <1>1, PTL DEF Spec

(* The DMA points at the caller's buffer after the call has returned only if a
   wait was given up with its transfer in flight. *)
THEOREM NoDanglingTransfer == Spec => []BufferReleased
BY InitCore, NextCore, PTL DEF Spec, Core

(* Without such a wait, a call takes only the message of its own transfer. *)
THEOREM MessageIsOwn == Spec => []OwnMessage
<1>1. Core => OwnMessage
  BY OneMessage DEF Core, OnTime, OwnMessage
<1> QED BY InitCore, NextCore, <1>1, PTL DEF Spec

-------------------------------------------------------------------------------
(***************************************************************************)
(* What the result of a driver call says about the data.  Core tells which *)
(* transfer a wait belongs to; the invariant here, what that transfer has  *)
(* left in memory and on the card.                                         *)
(***************************************************************************)

(* The transfer of the current wait has moved its blocks. *)
Moved == queue # <<>> \/ (xfer # NoXfer /\ xfer.phase = "end")

FastRead ==
  pc = "wait" /\ ~late /\ req.op = "read" /\ req.fast /\ Moved => BufferIsDisk

FastWrite ==
  req.op = "write" /\ req.fast /\ ~late =>
    /\ InCall => buff = req.data
    /\ pc = "poll" \/ (pc = "wait" /\ Moved) => DiskIsRequest

SlowRead ==
  req.op = "read" /\ ~req.fast /\ ~late /\ ~missed =>
    /\ pc \in {"check", "start", "wait"} =>
         /\ copied = i
         /\ \A k \in 1 .. copied : buff[k] = disk[req.sector + k - 1]
    /\ pc = "wait" /\ Moved => scratch = disk[req.sector + i]

DataInv == FastRead /\ FastWrite /\ SlowRead
           /\ FastReadSound /\ FastWriteSound /\ SlowReadSound

LEMMA InitData == Init => DataInv
BY DEF Init, DataInv, FastRead, FastWrite, SlowRead, FastReadSound,
       FastWriteSound, SlowReadSound, Returned, NoReq

-------------------------------------------------------------------------------
(* Steps between calls *)

LEMMA DataFatFs == Core /\ DataInv /\ FatFs => DataInv'
<1> SUFFICES ASSUME Core, DataInv, FatFs PROVE DataInv'
  OBVIOUS
<1> USE DEF DataInv, FastRead, FastWrite, SlowRead, FastReadSound,
            FastWriteSound, SlowReadSound, Returned
<1>1. CASE pc' = "idle"
  <2>1. req' = req
    BY <1>1 DEF FatFs, disk_initialize, disk_initialize_again, SD_CheckStatus,
               SD_read, SD_write, SD_ioctl_sync, Call, callVars
  <2> QED BY <1>1, <2>1 DEF InCall
<1>2. CASE pc' # "idle"
  <2>1. \/ pc' = "check" /\ i' = 0 /\ copied' = 0 /\ buff' = req'.data
        \/ pc' = "ret" /\ req' = SyncReq
    BY <1>2 DEF FatFs, disk_initialize, disk_initialize_again, SD_CheckStatus,
               SD_read, SD_write, SD_ioctl_sync, Call, callVars
  <2>2. CASE pc' = "check" /\ i' = 0 /\ copied' = 0 /\ buff' = req'.data
    BY <2>2
  <2>3. CASE pc' = "ret" /\ req' = SyncReq
    BY <2>3 DEF SyncReq, InCall
  <2> QED BY <2>1, <2>2, <2>3
<1> QED BY <1>1, <1>2

(* Steps of a call before a transfer and after its wait *)
LEMMA DataMove ==
  ASSUME Core, DataInv,
         CheckReady \/ CheckTimeout \/ StartFails \/ PollReady \/ PollTimeout
  PROVE  DataInv'
<1> USE DEF CheckReady, CheckTimeout, StartFails, PollReady, PollTimeout,
            initVars, halVars, history
<1>1. UNCHANGED <<req, buff, disk, i, copied, late, missed, card>>
  OBVIOUS
<1>2. \/ pc = "check" /\ pc' = "start" /\ res' = res
      \/ pc' = "ret" /\ res' = res /\ res = "RES_ERROR"
      \/ pc = "poll" /\ card = "TRAN" /\ pc' = "ret"
  BY DEF Core, CallInv, InCall
<1>3. CASE pc = "check" /\ pc' = "start"
  BY <1>1, <1>3 DEF DataInv, FastRead, FastWrite, SlowRead, FastReadSound,
     FastWriteSound, SlowReadSound, Returned, InCall
<1>4. CASE pc' = "ret" /\ res' = "RES_ERROR"
  BY <1>4 DEF DataInv, FastRead, FastWrite, SlowRead, FastReadSound,
     FastWriteSound, SlowReadSound, Returned, InCall
<1>5. CASE pc = "poll" /\ card = "TRAN" /\ pc' = "ret"
  <2>1. req.op = "write" /\ req.fast
    BY <1>5 DEF Core, CallInv
  <2>2. ~late => DiskIsRequest
    BY <1>5, <2>1 DEF DataInv, FastWrite
  <2>3. ~late' => DiskIsRequest'
    BY <1>1, <2>2 DEF DiskIsRequest
  <2> QED BY <1>1, <1>5, <2>1, <2>3 DEF DataInv, FastRead, FastWrite, SlowRead,
          FastReadSound, FastWriteSound, SlowReadSound, Returned, InCall
<1> QED BY <1>2, <1>3, <1>4, <1>5

LEMMA DataStart ==
  ASSUME Core, DataInv, StartTransfer
  PROVE  DataInv'
<1> USE DEF StartTransfer, initVars, history
<1>1. xfer'.phase = "run" /\ (~late => queue' = <<>>)
  BY Started DEF Core, OnTime
<1>2. ~late' => ~Moved'
  BY <1>1 DEF Moved
<1> QED BY <1>2 DEF DataInv, FastRead, FastWrite, SlowRead, FastReadSound,
        FastWriteSound, SlowReadSound, Returned, InCall

-------------------------------------------------------------------------------
(* The end of a wait *)

LEMMA DataGet ==
  ASSUME Core, DataInv, GetMessage
  PROVE  DataInv'
<1> USE DEF GetMessage, initVars, halVars
<1>1. CASE late
  BY <1>1 DEF DataInv, FastRead, FastWrite, SlowRead, FastReadSound,
     FastWriteSound, SlowReadSound
<1>2. CASE ~late
  <2>1. Head(queue) = Expected /\ Moved
    BY <1>2, OneMessage DEF Core, OnTime, Moved
  <2>2. AfterWait(TRUE) /\ missed' = missed
    <3>1. (Head(queue) = Expected) = TRUE
      BY <2>1
    <3>2. missed \in BOOLEAN
      BY DEF Core, TypeOK
    <3> QED BY <2>1, <3>1, <3>2
  <2>3. UNCHANGED <<req, disk, scratch, late>>
    OBVIOUS
  <2>4. /\ req.op \in {"read", "write"} /\ i < req.count /\ copied <= i
        /\ i \in 0 .. MaxCount /\ copied \in 0 .. MaxCount
        /\ req.count \in 1 .. MaxCount /\ req.sector \in Nat /\ buff \in Buffer
        /\ res = "RES_ERROR"
    BY DEF Core, CallInv, InCall, TypeOK, Request, Sectors
  <2>5. CASE req.fast
    <3>1. /\ pc' = (IF req.op = "write" THEN "poll" ELSE "ret")
          /\ buff' = buff
      BY <2>2, <2>5 DEF AfterWait
    <3>2. CASE req.op = "read"
      <4>1. BufferIsDisk'
        BY <1>2, <2>1, <2>3, <2>5, <3>1, <3>2 DEF DataInv, FastRead, BufferIsDisk
      <4> QED BY <2>3, <2>5, <3>1, <3>2, <4>1 DEF DataInv, FastRead, FastWrite,
              SlowRead, FastReadSound, FastWriteSound, SlowReadSound, Returned
    <3>3. CASE req.op = "write"
      <4>1. DiskIsRequest' /\ buff' = req'.data
        BY <1>2, <2>1, <2>3, <2>5, <3>1, <3>3
           DEF DataInv, FastWrite, DiskIsRequest, InCall
      <4> QED BY <2>3, <2>5, <3>1, <3>3, <4>1 DEF DataInv, FastRead, FastWrite,
              SlowRead, FastReadSound, FastWriteSound, SlowReadSound, Returned
    <3> QED BY <2>4, <3>2, <3>3
  <2>6. CASE ~req.fast
    <3>1. /\ i' = i + 1 /\ copied' = copied + 1
          /\ buff' = [buff EXCEPT ![copied + 1] = scratch]
          /\ pc' = IF i + 1 = req.count THEN "ret" ELSE "start"
      BY <2>2, <2>6 DEF AfterWait
    <3>2. ASSUME req.op = "read", ~missed
          PROVE  /\ copied' = i'
                 /\ \A k \in 1 .. copied' : buff'[k] = disk'[req'.sector + k - 1]
      <4>1. /\ copied = i
            /\ \A k \in 1 .. copied : buff[k] = disk[req.sector + k - 1]
            /\ scratch = disk[req.sector + i]
        BY <1>2, <2>1, <2>6, <3>2 DEF DataInv, SlowRead
      <4>2. copied + 1 \in 1 .. MaxCount
        BY <2>4, <4>1, SDAssumption
      <4>3. ASSUME NEW k \in 1 .. copied + 1
            PROVE  buff'[k] = disk'[req.sector + k - 1]
        <5>1. CASE k = copied + 1
          BY <2>3, <2>4, <3>1, <4>1, <4>2, <5>1 DEF Buffer
        <5>2. CASE k # copied + 1
          BY <2>3, <2>4, <3>1, <4>1, <4>2, <5>2 DEF Buffer
        <5> QED BY <5>1, <5>2
      <4>4. copied' = i' /\ copied' = copied + 1 /\ req'.sector = req.sector
        BY <2>3, <3>1, <4>1
      <4>5. \A k \in 1 .. copied' : buff'[k] = disk'[req'.sector + k - 1]
        BY <4>3, <4>4
      <4> QED BY <4>4, <4>5
    <3>3. ASSUME req.op = "read", ~missed, pc' = "ret" PROVE BufferIsDisk'
      <4>1. copied' = req.count
        BY <3>1, <3>2, <3>3
      <4> QED BY <2>3, <3>2, <3>3, <4>1 DEF BufferIsDisk
    <3> QED BY <2>2, <2>3, <2>6, <3>1, <3>2, <3>3 DEF DataInv, FastRead,
            FastWrite, SlowRead, FastReadSound, FastWriteSound, SlowReadSound,
            Returned
  <2> QED BY <2>5, <2>6
<1> QED BY <1>1, <1>2

LEMMA DataTimeout ==
  ASSUME Core, DataInv, GetTimeout
  PROVE  DataInv'
<1>1. missed' /\ pc' # "wait" /\ req' = req
  BY DEF GetTimeout, AfterWait
<1>2. req.fast => pc' = "ret" /\ res' = "RES_ERROR"
  BY DEF GetTimeout, AfterWait, Core, CallInv, InCall
<1> QED BY <1>1, <1>2 DEF DataInv, FastRead, FastWrite, SlowRead, FastReadSound,
        FastWriteSound, SlowReadSound, Returned, InCall

LEMMA DataReturn ==
  ASSUME Core, DataInv, Return
  PROVE  DataInv'
BY DEF Return, NoReq, DataInv, FastRead, FastWrite, SlowRead, FastReadSound,
       FastWriteSound, SlowReadSound, Returned, InCall

LEMMA DataDriver == Core /\ DataInv /\ Driver => DataInv'
BY DataMove, DataStart, DataGet, DataTimeout, DataReturn DEF Driver
-------------------------------------------------------------------------------
(* The hardware *)

(* What the transfer of a wait that was not given up does to memory and card *)
LEMMA MoveOwn ==
  ASSUME Core, ~late, xfer # NoXfer, NEW S \in SUBSET (1 .. xfer.count), NEW m,
         MoveBlocks(S, m)
  PROVE  /\ pc = "wait" /\ xfer.sector = FirstSector /\ xfer.count = BlockCount
         /\ xfer.sector \in Sectors /\ xfer.count \in 1 .. MaxCount
         /\ xfer.sector + xfer.count <= NSec
         /\ req.op = "read" => disk' = disk
         /\ req.op = "read" /\ req.fast =>
              buff' = [k \in 1 .. MaxCount |->
                         IF k \in S THEN disk[xfer.sector + k - 1] ELSE buff[k]]
         /\ req.op = "read" /\ ~req.fast =>
              buff' = buff /\ (1 \in S => scratch' = disk[xfer.sector])
         /\ req.op = "write" => buff' = buff /\ scratch' = scratch
         /\ req.op = "write" /\ req.fast =>
              disk' = [s \in Sectors |->
                         IF \E k \in S : s = xfer.sector + k - 1
                           THEN buff[s + 1 - xfer.sector] ELSE disk[s]]
<1>1. /\ pc = "wait" /\ OwnTransfer /\ xfer \in Transfer
      /\ xfer.sector \in Sectors /\ xfer.count \in 1 .. MaxCount
      /\ xfer.sector + xfer.count <= NSec
  BY NoXferFields DEF Core, OnTime, HalInv, TypeOK
<1>2. xfer.dir = req.op /\ xfer.mem = (IF req.fast THEN "buff" ELSE "scratch")
  BY <1>1 DEF OwnTransfer
<1>3. CASE req.op = "read"
  BY <1>1, <1>2, <1>3 DEF MoveBlocks, OwnTransfer
<1>4. CASE req.op # "read"
  BY <1>1, <1>2, <1>4 DEF MoveBlocks, OwnTransfer
<1> QED BY <1>3, <1>4

(* Where a transfer that was given up may still run, nothing is claimed. *)
LEMMA DataLate == ASSUME late' PROVE DataInv'
BY DEF DataInv, FastRead, FastWrite, SlowRead, FastReadSound, FastWriteSound,
       SlowReadSound

LEMMA DataTransferEnds ==
  ASSUME Core, DataInv, NEW m \in Buffer, TransferEnds(m)
  PROVE  DataInv'
<1> USE DEF TransferEnds, initVars, history
<1>1. CASE late
  BY <1>1, DataLate
<1>2. CASE ~late
  <2> DEFINE S == 1 .. xfer.count
  <2>1. /\ pc = "wait" /\ xfer.sector = FirstSector /\ xfer.count = BlockCount
        /\ xfer.sector \in Sectors /\ xfer.count \in 1 .. MaxCount
        /\ xfer.sector + xfer.count <= NSec
        /\ req.op = "read" => disk' = disk
        /\ req.op = "read" /\ req.fast =>
             buff' = [k \in 1 .. MaxCount |->
                        IF k \in S THEN disk[xfer.sector + k - 1] ELSE buff[k]]
        /\ req.op = "read" /\ ~req.fast =>
             buff' = buff /\ (1 \in S => scratch' = disk[xfer.sector])
        /\ req.op = "write" => buff' = buff /\ scratch' = scratch
        /\ req.op = "write" /\ req.fast =>
             disk' = [s \in Sectors |->
                        IF \E k \in S : s = xfer.sector + k - 1
                          THEN buff[s + 1 - xfer.sector] ELSE disk[s]]
    BY <1>2, MoveOwn
  <2>2. UNCHANGED <<pc, req, i, copied, late, missed, queue>>
    OBVIOUS
  <2>3. req \in Request /\ req.sector \in Nat /\ req.count \in 1 .. MaxCount
    BY DEF Core, TypeOK, Request, Sectors
  <2>4. FastRead'
    <3> SUFFICES ASSUME req.op = "read", req.fast PROVE BufferIsDisk'
      BY <2>2 DEF FastRead
    <3>1. xfer.sector = req.sector /\ xfer.count = req.count
      BY <2>1 DEF FirstSector, BlockCount
    <3>2. disk' = disk
      BY <2>1
    <3>3. ASSUME NEW k \in 1 .. req.count
          PROVE  buff'[k] = disk[req.sector + k - 1]
      <4>1. k \in 1 .. MaxCount /\ k \in S
        BY <2>3, <3>1, SDAssumption
      <4> QED BY <2>1, <3>1, <4>1
    <3> QED BY <2>2, <3>2, <3>3 DEF BufferIsDisk
  <2>5. FastWrite'
    <3> SUFFICES ASSUME req.op = "write", req.fast
                 PROVE  buff' = req.data /\ DiskIsRequest'
      BY <2>2 DEF FastWrite
    <3>1. xfer.sector = req.sector /\ xfer.count = req.count
      BY <2>1 DEF FirstSector, BlockCount
    <3>2. buff = req.data /\ buff' = buff
      BY <1>2, <2>1 DEF DataInv, FastWrite, InCall
    <3>3. ASSUME NEW k \in 1 .. req.count
          PROVE  disk'[req.sector + k - 1] = req.data[k]
      <4>1. /\ req.sector + k - 1 \in Sectors
            /\ req.sector + k - 1 + 1 - xfer.sector = k
        BY <2>1, <2>3, <3>1, SDAssumption, SMTT(40) DEF Sectors
      <4>2. \E n \in S : req.sector + k - 1 = xfer.sector + n - 1
        BY <3>1
      <4> QED BY <2>1, <3>2, <4>1, <4>2
    <3> QED BY <2>2, <3>2, <3>3 DEF DiskIsRequest
  <2>6. SlowRead'
    <3> SUFFICES ASSUME req.op = "read", ~req.fast, ~missed
                 PROVE  /\ copied = i
                        /\ \A k \in 1 .. copied : buff'[k] = disk'[req.sector + k - 1]
                        /\ scratch' = disk'[req.sector + i]
      BY <2>2 DEF SlowRead
    <3>1. copied = i /\ \A k \in 1 .. copied : buff[k] = disk[req.sector + k - 1]
      BY <1>2, <2>1 DEF DataInv, SlowRead
    <3>2. xfer.sector = req.sector + i /\ xfer.count = 1
      BY <2>1 DEF FirstSector, BlockCount
    <3> QED BY <2>1, <3>1, <3>2
  <2>7. FastReadSound' /\ FastWriteSound' /\ SlowReadSound'
    BY <2>1, <2>2 DEF FastReadSound, FastWriteSound, SlowReadSound, Returned
  <2> QED BY <2>4, <2>5, <2>6, <2>7 DEF DataInv
<1> QED BY <1>1, <1>2

LEMMA DataDataEnd ==
  ASSUME Core, DataInv, DataEndIRQ
  PROVE  DataInv'
<1> USE DEF DataEndIRQ, initVars, callVars, history
<1>1. CASE late
  BY <1>1, DataLate
<1>2. CASE ~late
  <2>1. pc = "wait" /\ Moved
    BY <1>2 DEF Core, OnTime, Moved
  <2> QED BY <2>1 DEF DataInv, FastRead, FastWrite, SlowRead, FastReadSound,
          FastWriteSound, SlowReadSound, Returned, BufferIsDisk, DiskIsRequest,
          InCall
<1> QED BY <1>1, <1>2

LEMMA DataError ==
  ASSUME Core, DataInv, NEW S \in SUBSET (1 .. MaxCount), NEW m \in Buffer,
         ErrorIRQ(S, m)
  PROVE  DataInv'
<1> USE DEF ErrorIRQ, initVars, history
<1>1. CASE late
  BY <1>1, DataLate
<1>2. CASE ~late
  <2>1. /\ pc = "wait"
        /\ req.op = "read" => disk' = disk
        /\ req.op = "read" /\ ~req.fast => buff' = buff
        /\ req.op = "write" => buff' = buff
    BY <1>2, MoveOwn
  <2>2. ~Moved'
    BY <1>2 DEF Core, OnTime, Moved
  <2> QED BY <1>2, <2>1, <2>2 DEF DataInv, FastRead, FastWrite, SlowRead,
          FastReadSound, FastWriteSound, SlowReadSound, Returned, InCall
<1> QED BY <1>1, <1>2

LEMMA DataProgrammed ==
  ASSUME DataInv, CardProgrammed \/ UNCHANGED vars
  PROVE  DataInv'
<1>1. UNCHANGED <<queue, xfer, disk, pc, req, i, copied, buff, scratch, res,
                  late, missed>>
      /\ (card = "TRAN" => card' = "TRAN")
  BY DEF CardProgrammed, vars, initVars, halVars, callVars, history
<1> QED BY <1>1 DEF DataInv, FastRead, FastWrite, SlowRead, FastReadSound,
        FastWriteSound, SlowReadSound, Returned, BufferIsDisk, DiskIsRequest,
        InCall, Moved

LEMMA NextData == Core /\ DataInv /\ [Next]_vars => DataInv'
<1> SUFFICES ASSUME Core, DataInv, [Next]_vars PROVE DataInv'
  OBVIOUS
<1>1. CASE Hardware
  BY <1>1, MemoryTyped, DataTransferEnds, DataDataEnd, DataError, DataProgrammed
     DEF Hardware
<1> QED BY <1>1, DataFatFs, DataDriver, DataProgrammed DEF Next

-------------------------------------------------------------------------------

(* A read into an aligned buffer that returns RES_OK has read the sectors, as
   long as no wait was given up with its transfer in flight. *)
THEOREM FastReadIsSound == Spec => []FastReadSound
BY InitCore, NextCore, InitData, NextData, PTL DEF Spec, DataInv

(* So has a read into an unaligned buffer that, besides, missed none of its
   messages. *)
THEOREM SlowReadIsSound == Spec => []SlowReadSound
BY InitCore, NextCore, InitData, NextData, PTL DEF Spec, DataInv

(* A write from an aligned buffer that returns RES_OK is on the card, which has
   finished programming, as long as no wait was given up with its transfer in
   flight. *)
THEOREM FastWriteIsSound == Spec => []FastWriteSound
BY InitCore, NextCore, InitData, NextData, PTL DEF Spec, DataInv

-------------------------------------------------------------------------------

(* What a write from an unaligned buffer does instead of SlowWriteWritesBuffer *)
StoredScratch(n) ==
  \A k \in 1 .. n : disk[req.sector + k - 1] = scratch /\ buff[k] = scratch

SlowWrite ==
  req.op = "write" /\ ~req.fast /\ ~late /\ ~missed =>
    /\ pc \in {"check", "start", "wait"} => copied = i /\ StoredScratch(i)
    /\ pc = "wait" /\ Moved => disk[req.sector + i] = scratch

SlowWriteStoresScratch ==
  Returned("write", FALSE) /\ ~late /\ ~missed => StoredScratch(req.count)

ScratchInv == SlowWrite /\ SlowWriteStoresScratch

LEMMA InitScratch == Init => ScratchInv
BY DEF Init, ScratchInv, SlowWrite, SlowWriteStoresScratch, Returned, NoReq

LEMMA ScratchFatFs == Core /\ ScratchInv /\ FatFs => ScratchInv'
<1> SUFFICES ASSUME Core, ScratchInv, FatFs PROVE ScratchInv'
  OBVIOUS
<1> USE DEF ScratchInv, SlowWrite, SlowWriteStoresScratch, Returned
<1>1. CASE pc' = "idle"
  BY <1>1
<1>2. CASE pc' # "idle"
  <2>1. \/ pc' = "check" /\ i' = 0 /\ copied' = 0
        \/ pc' = "ret" /\ req' = SyncReq
    BY <1>2 DEF FatFs, disk_initialize, disk_initialize_again, SD_CheckStatus,
               SD_read, SD_write, SD_ioctl_sync, Call, callVars
  <2>2. CASE pc' = "check" /\ i' = 0 /\ copied' = 0
    BY <2>2 DEF StoredScratch
  <2>3. CASE pc' = "ret" /\ req' = SyncReq
    BY <2>3 DEF SyncReq
  <2> QED BY <2>1, <2>2, <2>3
<1> QED BY <1>1, <1>2

LEMMA ScratchMove ==
  ASSUME Core, ScratchInv,
         CheckReady \/ CheckTimeout \/ StartFails \/ PollReady \/ PollTimeout
  PROVE  ScratchInv'
<1> USE DEF CheckReady, CheckTimeout, StartFails, PollReady, PollTimeout,
            initVars, halVars, history
<1>1. UNCHANGED <<req, buff, disk, scratch, i, copied, late, missed>>
  OBVIOUS
<1>2. \/ pc = "check" /\ pc' = "start"
      \/ pc' = "ret" /\ res' = "RES_ERROR"
      \/ pc = "poll" /\ pc' = "ret" /\ req.fast
  BY DEF Core, CallInv, InCall
<1> QED BY <1>1, <1>2 DEF ScratchInv, SlowWrite, SlowWriteStoresScratch, Returned,
        StoredScratch

LEMMA ScratchStart ==
  ASSUME Core, ScratchInv, StartTransfer
  PROVE  ScratchInv'
<1> USE DEF StartTransfer, initVars, history
<1>1. xfer'.phase = "run" /\ (~late => queue' = <<>>)
  BY Started DEF Core, OnTime
<1>2. ~late' => ~Moved'
  BY <1>1 DEF Moved
<1> QED BY <1>2 DEF ScratchInv, SlowWrite, SlowWriteStoresScratch, Returned,
        StoredScratch

LEMMA ScratchGet ==
  ASSUME Core, ScratchInv, GetMessage
  PROVE  ScratchInv'
<1> USE DEF GetMessage, initVars, halVars
<1> SUFFICES ASSUME req.op = "write", ~req.fast, ~late, ~missed, ~missed' PROVE ScratchInv'
  BY DEF ScratchInv, SlowWrite, SlowWriteStoresScratch, Returned, Core, TypeOK
<1>1. Head(queue) = Expected /\ Moved
  BY OneMessage DEF Core, OnTime, Moved
<1>2. AfterWait(TRUE)
  <2>1. (Head(queue) = Expected) = TRUE
    BY <1>1
  <2> QED BY <1>1, <2>1
<1>3. /\ i < req.count /\ i \in 0 .. MaxCount /\ req.count \in 1 .. MaxCount
      /\ req.sector \in Nat /\ buff \in Buffer /\ MaxCount \in Nat
  BY SDAssumption DEF Core, CallInv, InCall, TypeOK, Request, Sectors
<1>4. copied = i /\ StoredScratch(i) /\ disk[req.sector + i] = scratch
  BY <1>1 DEF ScratchInv, SlowWrite
<1>5. /\ i' = i + 1 /\ copied' = i + 1
      /\ buff' = [buff EXCEPT ![i + 1] = scratch]
      /\ pc' = IF i + 1 = req.count THEN "ret" ELSE "start"
      /\ UNCHANGED <<req, disk, scratch>>
  BY <1>2, <1>4 DEF AfterWait
<1>6. ASSUME NEW k \in 1 .. i + 1
      PROVE  disk[req.sector + k - 1] = scratch /\ buff'[k] = scratch
  <2>1. k \in 1 .. MaxCount
    BY <1>3
  <2>2. CASE k = i + 1
    BY <1>3, <1>4, <1>5, <2>1, <2>2 DEF Buffer
  <2>3. CASE k # i + 1
    BY <1>3, <1>4, <1>5, <2>1, <2>3 DEF Buffer, StoredScratch
  <2> QED BY <2>2, <2>3
<1>7. ASSUME NEW n, n = i + 1
      PROVE  \A k \in 1 .. n : disk'[req'.sector + k - 1] = scratch' /\ buff'[k] = scratch'
  BY <1>5, <1>6, <1>7
<1>8. StoredScratch(i)' /\ (pc' = "ret" => StoredScratch(req.count)')
  <2>1. StoredScratch(i)'
    BY <1>5, <1>7 DEF StoredScratch
  <2>2. pc' = "ret" => req'.count = i + 1
    BY <1>5
  <2> QED BY <1>7, <2>1, <2>2 DEF StoredScratch
<1> QED BY <1>5, <1>8 DEF ScratchInv, SlowWrite, SlowWriteStoresScratch, Returned

LEMMA ScratchLate == ASSUME late' PROVE ScratchInv'
BY DEF ScratchInv, SlowWrite, SlowWriteStoresScratch, Returned

LEMMA ScratchDriver == Core /\ ScratchInv /\ Driver => ScratchInv'
<1> SUFFICES ASSUME Core, ScratchInv, Driver PROVE ScratchInv'
  OBVIOUS
<1>1. CASE GetTimeout
  BY <1>1 DEF GetTimeout, ScratchInv, SlowWrite, SlowWriteStoresScratch, Returned
<1>2. CASE Return
  BY <1>2 DEF Return, NoReq, ScratchInv, SlowWrite, SlowWriteStoresScratch, Returned
<1> QED BY <1>1, <1>2, ScratchMove, ScratchStart, ScratchGet DEF Driver

(* A transfer of a slow write whose wait was not given up puts scratch on the
   card and nothing else. *)
LEMMA MoveScratch ==
  ASSUME Core, ~late, xfer # NoXfer, NEW S \in SUBSET (1 .. xfer.count), NEW m,
         MoveBlocks(S, m), req.op = "write", ~req.fast
  PROVE  /\ pc = "wait" /\ xfer.sector = req.sector + i /\ xfer.count = 1
         /\ xfer.sector \in Sectors
         /\ UNCHANGED <<buff, scratch>>
         /\ disk' = [s \in Sectors |->
                       IF \E k \in S : s = xfer.sector + k - 1 THEN scratch ELSE disk[s]]
<1>1. pc = "wait" /\ OwnTransfer /\ xfer.sector \in Sectors
  BY NoXferFields DEF Core, OnTime, TypeOK
<1>2. xfer.dir = "write" /\ xfer.mem = "scratch"
  BY <1>1 DEF OwnTransfer
<1>3. xfer.sector = req.sector + i /\ xfer.count = 1
  BY <1>1 DEF OwnTransfer, FirstSector, BlockCount
<1>4. /\ UNCHANGED <<buff, scratch>>
      /\ disk' = [s \in Sectors |->
                    IF \E k \in S : s = xfer.sector + k - 1 THEN scratch ELSE disk[s]]
  BY <1>2 DEF MoveBlocks
<1> QED BY <1>1, <1>3, <1>4

LEMMA ScratchTransfer ==
  ASSUME Core, ScratchInv, NEW S \in SUBSET (1 .. xfer.count), NEW m, MoveBlocks(S, m),
         xfer # NoXfer, UNCHANGED <<pc, req, i, copied, res, late, missed>>,
         Moved' => 1 \in S
  PROVE  ScratchInv'
<1> SUFFICES ASSUME req.op = "write", ~req.fast, ~late, ~missed PROVE ScratchInv'
  BY DEF ScratchInv, SlowWrite, SlowWriteStoresScratch, Returned
<1>1. /\ pc = "wait" /\ xfer.sector = req.sector + i /\ xfer.count = 1
      /\ xfer.sector \in Sectors
      /\ UNCHANGED <<buff, scratch>>
      /\ disk' = [s \in Sectors |->
                    IF \E k \in S : s = xfer.sector + k - 1 THEN scratch ELSE disk[s]]
  BY MoveScratch
<1>2. /\ i < req.count /\ i \in Nat /\ req.sector \in Nat
      /\ NSec \in Nat /\ req.sector + i \in 0 .. NSec - 1
  BY <1>1, SDAssumption DEF Core, CallInv, InCall, TypeOK, Request, Sectors
<1>3. copied = i /\ StoredScratch(i)
  BY <1>1 DEF ScratchInv, SlowWrite
<1>4. ASSUME NEW k \in 1 .. i
      PROVE  disk'[req.sector + k - 1] = scratch /\ buff[k] = scratch
  <2>1. req.sector + k - 1 \in Sectors
    BY <1>2 DEF Sectors
  <2>2. disk[req.sector + k - 1] = scratch /\ buff[k] = scratch
    BY <1>3 DEF StoredScratch
  <2> QED BY <1>1, <2>1, <2>2
<1>5. StoredScratch(i)'
  BY <1>1, <1>4 DEF StoredScratch
<1>6. 1 \in S => disk'[req.sector + i] = scratch
  BY <1>1, <1>2 DEF Sectors
<1> QED BY <1>1, <1>3, <1>5, <1>6 DEF ScratchInv, SlowWrite, SlowWriteStoresScratch,
        Returned

LEMMA ScratchHardware == Core /\ ScratchInv /\ Hardware => ScratchInv'
<1> SUFFICES ASSUME Core, ScratchInv, Hardware PROVE ScratchInv'
  OBVIOUS
<1>1. ASSUME NEW m \in Memory, TransferEnds(m) PROVE ScratchInv'
  <2>1. xfer # NoXfer /\ 1 \in 1 .. xfer.count
    BY <1>1, NoXferFields, SDAssumption DEF TransferEnds, Core, TypeOK
  <2> QED
    BY <1>1, <2>1, ScratchTransfer DEF TransferEnds, history
<1>2. ASSUME DataEndIRQ PROVE ScratchInv'
  <2>1. ~late => Moved
    BY <1>2 DEF DataEndIRQ, Moved
  <2>2. UNCHANGED <<pc, req, i, copied, buff, scratch, res, disk, late, missed>>
    BY <1>2 DEF DataEndIRQ, callVars, history
  <2> QED
    BY <2>1, <2>2 DEF ScratchInv, SlowWrite, SlowWriteStoresScratch, Returned, StoredScratch
<1>3. ASSUME NEW S \in SUBSET (1 .. MaxCount), NEW m \in Memory, ErrorIRQ(S, m)
      PROVE  ScratchInv'
  <2>1. CASE late
    <3>1. late'
      BY <1>3, <2>1 DEF ErrorIRQ, history
    <3> QED BY <3>1, ScratchLate
  <2>2. CASE ~late
    <3>1. ~Moved'
      BY <1>3, <2>2 DEF ErrorIRQ, Core, OnTime, Moved
    <3> QED
      BY <1>3, <3>1, ScratchTransfer DEF ErrorIRQ, history
  <2> QED BY <2>1, <2>2
<1>4. ASSUME CardProgrammed PROVE ScratchInv'
  BY <1>4 DEF CardProgrammed, callVars, history, ScratchInv, SlowWrite,
     SlowWriteStoresScratch, Returned, StoredScratch, Moved
<1> QED BY <1>1, <1>2, <1>3, <1>4 DEF Hardware

LEMMA NextScratch == Core /\ ScratchInv /\ [Next]_vars => ScratchInv'
<1> SUFFICES ASSUME Core, ScratchInv, [Next]_vars PROVE ScratchInv'
  OBVIOUS
<1>1. CASE UNCHANGED vars
  BY <1>1 DEF vars, halVars, callVars, history, ScratchInv, SlowWrite,
     SlowWriteStoresScratch, Returned, StoredScratch, Moved
<1> QED BY <1>1, ScratchFatFs, ScratchDriver, ScratchHardware DEF Next

(* A write from an unaligned buffer that returns RES_OK, missed no message and
   had no wait given up before, has put the driver's scratch block into every
   sector of the request, and into the caller's buffer besides: the data is lost
   in both places, whatever it was (sd_diskio.c:398 and 405). *)
THEOREM SlowWriteStores == Spec => []SlowWriteStoresScratch
BY InitCore, NextCore, InitScratch, NextScratch, PTL DEF Spec, ScratchInv

-------------------------------------------------------------------------------

(* A driver call or an interrupt without a data phase leaves the card alone. *)
LEMMA DiskSteps ==
  ASSUME Core, [Next]_vars, disk' # disk
  PROVE  \E S \in SUBSET (1 .. xfer.count), m \in Buffer :
            xfer # NoXfer /\ MoveBlocks(S, m)
<1>1. UNCHANGED vars => disk' = disk
  BY DEF vars, halVars
<1>2. FatFs \/ Driver => disk' = disk
  BY DEF FatFs, disk_initialize, disk_initialize_again, SD_CheckStatus, SD_read,
         SD_write, SD_ioctl_sync, Call, Driver, CheckReady, CheckTimeout,
         StartTransfer, StartFails, GetMessage, GetTimeout, PollReady,
         PollTimeout, Return, halVars
<1>3. DataEndIRQ \/ CardProgrammed => disk' = disk
  BY DEF DataEndIRQ, CardProgrammed
<1>4. CASE \E m \in Memory : TransferEnds(m)
  BY <1>4, MemoryTyped DEF TransferEnds
<1>5. CASE \E S \in SUBSET (1 .. MaxCount), m \in Memory : ErrorIRQ(S, m)
  BY <1>5, MemoryTyped DEF ErrorIRQ
<1> QED BY <1>1, <1>2, <1>3, <1>4, <1>5 DEF Next, Hardware

(* A sector changes only during a call of SD_write that covers it, unless a
   wait was given up with its transfer in flight. *)
THEOREM WritesStayInRequest == Spec => NoStrayWrite
<1> DEFINE Covered(s) == \/ late
                         \/ /\ pc = "wait" /\ req.op = "write"
                            /\ s \in req.sector .. req.sector + req.count - 1
<1>1. ASSUME Core, [Next]_vars
      PROVE  [\A s \in Sectors : disk'[s] # disk[s] => Covered(s)]_vars
  <2> SUFFICES ASSUME NEW s \in Sectors, disk'[s] # disk[s], ~late
               PROVE  /\ pc = "wait" /\ req.op = "write"
                      /\ s \in req.sector .. req.sector + req.count - 1
    OBVIOUS
  <2>1. PICK S \in SUBSET (1 .. xfer.count), m \in Buffer :
               xfer # NoXfer /\ MoveBlocks(S, m)
    BY <1>1, DiskSteps
  <2>2. /\ pc = "wait" /\ xfer.sector = FirstSector /\ xfer.count = BlockCount
        /\ xfer.sector \in Sectors /\ xfer.count \in 1 .. MaxCount
        /\ req.op = "read" => disk' = disk
    BY <1>1, <2>1, MoveOwn
  <2>3. /\ req.op = "write" /\ xfer.dir = "write" /\ i < req.count
    BY <1>1, <2>1, <2>2 DEF Core, CallInv, InCall, OnTime, OwnTransfer
  <2>4. req.sector \in Nat /\ req.count \in Nat /\ i \in Nat
    BY <1>1, SDAssumption DEF Core, TypeOK, Request, Sectors
  <2>5. PICK k \in S : s = xfer.sector + k - 1
    BY <2>1, <2>3, <1>1 DEF MoveBlocks, Core, TypeOK
  <2>6. s \in xfer.sector .. xfer.sector + xfer.count - 1
    BY <2>2, <2>5 DEF Sectors
  <2>7. s \in req.sector .. req.sector + req.count - 1
    BY <2>2, <2>3, <2>6, <2>4 DEF FirstSector, BlockCount, Sectors
  <2> QED BY <2>2, <2>3, <2>7
<1>2. Spec => []Core
  BY InitCore, NextCore, PTL DEF Spec
<1> QED BY <1>1, <1>2, PTL DEF Spec, NoStrayWrite

-------------------------------------------------------------------------------
(* How many steps a call still has: two for every sector on the slow path, each
   of which the driver waits for, and a few before and after. *)
StepsLeft ==
  CASE pc = "idle"  -> 0
    [] pc = "ret"   -> 1
    [] pc = "poll"  -> 2
    [] pc = "wait"  -> 2 * (req.count - i) + 1
    [] pc = "start" -> 2 * (req.count - i) + 2
    [] pc = "check" -> 2 * (req.count - i) + 3

LEMMA CallFields ==
  ASSUME Core
  PROVE  /\ i \in Nat /\ req.count \in Nat /\ req.count <= MaxCount /\ MaxCount \in Nat
         /\ pc \in {"check", "start", "wait"} => i < req.count
         /\ pc \in {"idle", "check", "start", "wait", "poll", "ret"}
BY SDAssumption DEF Core, TypeOK, CallInv, Request

(* A wait, whatever ends it, leaves less to do. *)
LEMMA WaitShortens ==
  ASSUME Core, pc = "wait", NEW hit \in BOOLEAN, AfterWait(hit), req' = req
  PROVE  StepsLeft' < StepsLeft
<1>1. StepsLeft = 2 * (req.count - i) + 1 /\ i < req.count /\ i \in Nat /\ req.count \in Nat
  BY CallFields DEF StepsLeft
<1>2. CASE pc' = "ret"
  <2>1. StepsLeft' = 1
    BY <1>2 DEF StepsLeft
  <2> QED
    BY <1>1, <2>1
<1>3. CASE pc' = "poll"
  <2>1. StepsLeft' = 2
    BY <1>3 DEF StepsLeft
  <2> QED
    BY <1>1, <2>1
<1>4. CASE pc' = "start"
  <2>1. i' = i + 1 /\ StepsLeft' = 2 * (req.count - i') + 2
    BY <1>4 DEF StepsLeft, AfterWait
  <2> QED
    BY <1>1, <2>1
<1> QED
  BY <1>2, <1>3, <1>4 DEF AfterWait

(* Every step of the driver brings the end of the call nearer, and nothing the
   card, the DMA or the interrupt does takes it further away: a call ends after at
   most twice as many steps as it has sectors and three (sd_diskio.c:238-420). *)
THEOREM CallsShorten ==
  Spec => /\ [](StepsLeft \in 0 .. 2 * MaxCount + 3)
          /\ [][pc # "idle" =>
                  IF Driver THEN StepsLeft' < StepsLeft ELSE StepsLeft' = StepsLeft]_vars
<1>1. Core => StepsLeft \in 0 .. 2 * MaxCount + 3
  BY CallFields DEF StepsLeft
<1>2. ASSUME Core, Driver PROVE StepsLeft' < StepsLeft
  <2>1. i \in Nat /\ req.count \in Nat /\ (pc \in {"check", "start", "wait"} => i < req.count)
    BY <1>2, CallFields
  <2>2. CASE CheckReady
    BY <2>1, <2>2 DEF CheckReady, StepsLeft
  <2>3. CASE CheckTimeout
    BY <2>1, <2>3 DEF CheckTimeout, StepsLeft
  <2>4. CASE StartTransfer
    BY <2>1, <2>4 DEF StartTransfer, StepsLeft
  <2>5. CASE StartFails
    BY <2>1, <2>5 DEF StartFails, StepsLeft
  <2>6. CASE GetMessage
    BY <1>2, <2>6, WaitShortens DEF GetMessage
  <2>7. CASE GetTimeout
    BY <1>2, <2>7, WaitShortens DEF GetTimeout
  <2>8. CASE PollReady
    BY <2>8 DEF PollReady, StepsLeft
  <2>9. CASE PollTimeout
    BY <2>9 DEF PollTimeout, StepsLeft
  <2>10. CASE Return
    BY <2>10 DEF Return, StepsLeft
  <2> QED
    BY <1>2, <2>2, <2>3, <2>4, <2>5, <2>6, <2>7, <2>8, <2>9, <2>10 DEF Driver
<1>3. ASSUME Core, [Next]_vars, pc # "idle", ~Driver PROVE StepsLeft' = StepsLeft
  <2>1. ~FatFs
    BY <1>3 DEF FatFs, disk_initialize, disk_initialize_again, SD_CheckStatus, SD_read,
               SD_write, Call, SD_ioctl_sync
  <2>2. pc' = pc /\ req' = req /\ i' = i
    BY <1>3, <2>1 DEF Next, vars, callVars, Hardware, TransferEnds, DataEndIRQ, ErrorIRQ,
                      CardProgrammed
  <2> QED
    BY <2>2 DEF StepsLeft
<1>4. ASSUME Core, [Next]_vars
      PROVE  [pc # "idle" =>
                IF Driver THEN StepsLeft' < StepsLeft ELSE StepsLeft' = StepsLeft]_vars
  BY <1>2, <1>3, <1>4
<1>5. Spec => []Core
  BY InitCore, NextCore, PTL DEF Spec
<1> QED
  BY <1>1, <1>4, <1>5, PTL DEF Spec

-------------------------------------------------------------------------------
(***************************************************************************)
(* The waits of the driver (TickWait): before a transfer exactly the bound, *)
(* after a fast write no less than it unless the deadline wraps, for every *)
(* width of the tick counter and every bound below it.                     *)
(***************************************************************************)

(* The tick is always the entry tick of the loop plus the ticks gone by. *)
WaitInv ==
  /\ WaitTypeOK
  /\ loop = "since" /\ stage \in {"test", "poll"} => tick = Add(timer, elapsed)
  /\ loop = "since" /\ stage = "gaveup" => elapsed >= SD_TIMEOUT

(* Wrapping subtraction undoes wrapping addition. *)
LEMMA SubAdd ==
  ASSUME NEW a \in Words, NEW b \in Words
  PROVE  Add(a, b) \in Words /\ Sub(Add(a, b), a) = b
BY TickAssumption DEF Words, Add, Sub

(* Ticks add up one by one, across the wrap. *)
LEMMA AddOne ==
  ASSUME NEW a \in Words, NEW b \in Words, b < W - 1
  PROVE  Add(a, b + 1) = Add(Add(a, b), 1)
BY TickAssumption DEF Words, Add

LEMMA InitWait == WaitInit => WaitInv
BY TickAssumption DEF WaitInit, WaitInv, WaitTypeOK, Words

LEMMA NextWait == WaitInv /\ [WaitNext]_waitVars => WaitInv'
<1> SUFFICES ASSUME WaitInv, [WaitNext]_waitVars PROVE WaitInv'
  OBVIOUS
<1> USE TickAssumption DEF WaitInv, WaitTypeOK
<1>1. CASE SD_CheckStatusWithTimeout
  <2>1. Add(tick, 0) = tick /\ 0 \in Words
    BY DEF Words, Add
  <2> QED BY <1>1, <2>1 DEF SD_CheckStatusWithTimeout
<1>2. CASE SD_write_poll
  BY <1>2 DEF SD_write_poll, Words, Add
<1>3. CASE Test
  <2>1. CASE loop = "since" /\ stage' = "gaveup"
    <3>1. Sub(tick, timer) = elapsed
      BY <1>3, <2>1, SubAdd DEF Test
    <3> QED BY <1>3, <2>1, <3>1 DEF Test, GoesOn, Words
  <2>2. CASE ~(loop = "since" /\ stage' = "gaveup")
    BY <1>3, <2>2 DEF Test
  <2> QED BY <2>1, <2>2
<1>4. CASE Poll
  BY <1>4 DEF Poll
<1>5. CASE Tick
  <2>1. tick' \in Words /\ elapsed' \in Words
    BY <1>5 DEF Tick, Words, Add
  <2>2. CASE loop = "since" /\ stage \in {"test", "poll"}
    BY <1>5, <2>1, <2>2, AddOne DEF Tick
  <2>3. CASE ~(loop = "since" /\ stage \in {"test", "poll"})
    BY <1>5, <2>1, <2>3 DEF Tick
  <2> QED BY <2>2, <2>3
<1>6. CASE CardChanges
  BY <1>6 DEF CardChanges
<1>7. CASE UNCHANGED waitVars
  BY <1>7 DEF waitVars
<1> QED BY <1>1, <1>2, <1>3, <1>4, <1>5, <1>6, <1>7 DEF WaitNext

(* The loop before every transfer gives up exactly when its bound is over
   (sd_diskio.c:157), at every width of the counter. *)
THEOREM SinceIsExact == WaitSpec => []SinceExact
<1>1. WaitInv => SinceExact
  BY SubAdd DEF WaitInv, WaitTypeOK, SinceExact, GoesOn
<1> QED BY InitWait, NextWait, <1>1, PTL DEF WaitSpec

-------------------------------------------------------------------------------
(* The deadline is the bound after the entry tick, from which the ticks gone by
   are counted. *)
Entry == Sub(timer, SD_TIMEOUT)

DeadlineInv ==
  /\ WaitTypeOK
  /\ loop = "deadline" /\ stage \in {"test", "poll"} => tick = Add(Entry, elapsed)
  /\ DeadlineNotEarly

LEMMA AddSub ==
  ASSUME NEW a \in Words
  PROVE  /\ Add(a, SD_TIMEOUT) \in Words /\ Sub(a, SD_TIMEOUT) \in Words
         /\ Sub(Add(a, SD_TIMEOUT), SD_TIMEOUT) = a
         /\ Add(Sub(a, SD_TIMEOUT), SD_TIMEOUT) = a
BY TickAssumption DEF Words, Add, Sub

(* A tick that is past a deadline that has not wrapped is the bound away. *)
LEMMA PastDeadline ==
  ASSUME NEW a \in Words, NEW e \in Words, a + SD_TIMEOUT < W,
         ~(Add(a, SD_TIMEOUT) > Add(a, e))
  PROVE  e >= SD_TIMEOUT
BY TickAssumption DEF Words, Add

LEMMA NextDeadline == WaitInv /\ DeadlineInv /\ [WaitNext]_waitVars => DeadlineInv'
<1> SUFFICES ASSUME WaitInv, DeadlineInv, [WaitNext]_waitVars PROVE DeadlineInv'
  OBVIOUS
<1>0. WaitTypeOK'
  BY NextWait DEF WaitInv
<1> USE TickAssumption DEF DeadlineInv, WaitTypeOK, DeadlineNotEarly, Entry
<1>1. CASE SD_CheckStatusWithTimeout
  BY <1>0, <1>1 DEF SD_CheckStatusWithTimeout
<1>2. CASE SD_write_poll
  <2>1. Add(tick, 0) = tick /\ 0 \in Words
    BY DEF Words, Add
  <2>2. Sub(timer', SD_TIMEOUT) = tick
    BY <1>2, AddSub DEF SD_write_poll
  <2> QED
    BY <1>0, <1>2, <2>1, <2>2 DEF SD_write_poll
<1>3. CASE Test
  <2>1. CASE loop = "deadline" /\ stage' = "gaveup" /\ Entry + SD_TIMEOUT < W
    <3>1. Entry \in Words /\ Add(Entry, SD_TIMEOUT) = timer
      BY AddSub
    <3>2. ~(timer > tick) /\ tick = Add(Entry, elapsed)
      BY <1>3, <2>1 DEF Test, GoesOn
    <3>3. elapsed >= SD_TIMEOUT
      BY <2>1, <3>1, <3>2, PastDeadline
    <3> QED
      BY <1>0, <1>3, <2>1, <3>3 DEF Test
  <2>2. CASE ~(loop = "deadline" /\ stage' = "gaveup" /\ Entry + SD_TIMEOUT < W)
    BY <1>0, <1>3, <2>2 DEF Test
  <2> QED
    BY <2>1, <2>2
<1>4. CASE Poll
  BY <1>0, <1>4 DEF Poll
<1>5. CASE Tick
  <2>1. CASE loop = "deadline" /\ stage \in {"test", "poll"}
    <3>1. Entry \in Words
      BY AddSub
    <3>2. tick' = Add(Entry, elapsed + 1)
      BY <1>5, <2>1, <3>1, AddOne DEF Tick
    <3> QED
      BY <1>0, <1>5, <2>1, <3>2 DEF Tick
  <2>2. CASE ~(loop = "deadline" /\ stage \in {"test", "poll"})
    BY <1>0, <1>5, <2>2 DEF Tick
  <2> QED
    BY <2>1, <2>2
<1>6. CASE CardChanges
  BY <1>0, <1>6 DEF CardChanges
<1>7. CASE UNCHANGED waitVars
  BY <1>0, <1>7 DEF waitVars
<1> QED
  BY <1>1, <1>2, <1>3, <1>4, <1>5, <1>6, <1>7 DEF WaitNext

(* The loop after a fast write gives up no earlier than its bound, unless the
   deadline wraps (sd_diskio.c:371), at every width of the counter. *)
THEOREM DeadlineIsNotEarly == WaitSpec => []DeadlineNotEarly
<1>1. WaitInit => DeadlineInv
  BY InitWait DEF WaitInv, WaitInit, DeadlineInv, DeadlineNotEarly
<1>2. DeadlineInv => DeadlineNotEarly
  BY DEF DeadlineInv
<1> QED
  BY InitWait, NextWait, NextDeadline, <1>1, <1>2, PTL DEF WaitSpec
===============================================================================
