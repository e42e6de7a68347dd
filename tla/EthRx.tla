-------------------------------- MODULE EthRx --------------------------------
(***************************************************************************)
(* Reception of Ethernet frames: the DMA and its ring of descriptors, the   *)
(* interrupt (stm32h7xx_hal_eth.c, HAL_ETH_IRQHandler), the task EthIf      *)
(* (Src/ethernetif.c, ethernetif_input) with the HAL functions it calls,    *)
(* and the link thread, which stops and starts reception.                   *)
(*                                                                         *)
(* EthIf has the highest priority (osPriorityRealtime): the link thread     *)
(* runs only while it sleeps on RxPktSemaphore.  The interrupt preempts     *)
(* both, and the DMA works between any two steps of any of them.            *)
(* A frame fills one descriptor.                                           *)
(***************************************************************************)
EXTENDS Naturals, Sequences

CONSTANTS
  ETH_RX_DESC_CNT,  (* number of descriptors in the ring *)
  Frame             (* what a frame may hold *)

ASSUME RingAssumption == ETH_RX_DESC_CNT \in Nat /\ ETH_RX_DESC_CNT >= 2
ASSUME FrameAssumption == Frame # {}

Desc == 0 .. ETH_RX_DESC_CNT - 1

VARIABLES
  (* the descriptors: OWN, which gives one to the DMA; bit 30 of DESC3, which
     is IOC when the driver has written it and CTXT when the DMA has; and the
     buffer *)
  own, bit30, Rx_Buff,
  (* the DMA: its position, the tail pointer (DMACRDTPR), whether it receives,
     the interrupt flag and its enable bit *)
  dma, tail, receiving, RI, RIE,
  (* heth.RxDescList *)
  CurRxDesc, FirstAppDesc, AppDescNbr, AppContextDesc, ItMode,
  RxPktSemaphore,
  (* where the interrupt, EthIf and the link thread are; EthIf's pbuf, and what
     it holds while it gives a descriptor back: the pass of its loop, and OWN as
     it read it *)
  isr, pc, lpc, pbuf, descscan, desc3,
  (* history: the frames received and not yet taken, the one taken last, whether
     a pbuf_alloc that failed ended the loop over them, and whether the DMA has
     filled a descriptor that was being given back, before the tail pointer was
     ever written *)
  waiting, expected, dropped, refilled

ringVars == <<own, bit30, Rx_Buff, dma, tail>>
irqVars  == <<receiving, RI, RIE>>
listVars == <<CurRxDesc, FirstAppDesc, AppDescNbr, AppContextDesc, ItMode>>
buildVars == <<descscan, desc3>>
taskVars == <<RxPktSemaphore, isr, pc, lpc, pbuf>>
history  == <<waiting, expected, dropped, refilled>>
vars == <<ringVars, irqVars, listVars, buildVars, taskVars, history>>

TypeOK ==
  /\ own \in [Desc -> BOOLEAN] /\ bit30 \in [Desc -> BOOLEAN]
  /\ Rx_Buff \in [Desc -> Frame]
  /\ dma \in Desc /\ tail \in Desc \cup {ETH_RX_DESC_CNT}
  /\ receiving \in BOOLEAN /\ RI \in BOOLEAN /\ RIE \in BOOLEAN
  /\ CurRxDesc \in Desc /\ FirstAppDesc \in Desc
  /\ AppDescNbr \in {0, 1} /\ AppContextDesc \in {0, 1} /\ ItMode \in {0, 1}
  /\ RxPktSemaphore \in {0, 1}
  /\ isr \in {"idle", "clear"}
  /\ pc \in {"sleep", "take", "build", "load", "store", "tail", "copy", "input"}
  /\ lpc \in {"up", "stop", "unmark", "down", "start", "enable"}
  /\ pbuf \in Frame /\ expected \in Frame
  /\ descscan \in {0, 1} /\ desc3 \in BOOLEAN
  /\ waiting \in Seq(Frame)
  /\ dropped \in BOOLEAN /\ refilled \in BOOLEAN

(* low_level_init before its HAL_ETH_Start_IT: every descriptor is assigned
   its buffer, the tail pointer lies behind the ring, and the semaphore is
   created free. *)
Init ==
  /\ own = [d \in Desc |-> TRUE] /\ bit30 = [d \in Desc |-> FALSE]
  /\ \E f \in Frame : Rx_Buff = [d \in Desc |-> f] /\ pbuf = f /\ expected = f
  /\ dma = 0 /\ tail = ETH_RX_DESC_CNT
  /\ receiving = FALSE /\ RI = FALSE /\ RIE = FALSE
  /\ CurRxDesc = 0 /\ FirstAppDesc = 0 /\ AppDescNbr = 0
  /\ AppContextDesc = 0 /\ ItMode = 0
  /\ RxPktSemaphore = 1
  /\ isr = "idle" /\ pc = "sleep" /\ lpc = "down"
  /\ descscan = 0 /\ desc3 = FALSE
  /\ waiting = <<>> /\ dropped = FALSE /\ refilled = FALSE

-------------------------------------------------------------------------------
(* INCR_RX_DESC_INDEX(d, 1) *)
After_NoWrap(d) == d + 1
After(d) == IF d + 1 = ETH_RX_DESC_CNT THEN 0 ELSE d + 1

(* FirstAppDesc is the DMA's again, and the tail pointer is not written yet. *)
BeingGivenBack == pc \in {"load", "store", "tail"} \/ (pc = "build" /\ descscan = 1)

(* The DMA writes a frame to its descriptor and gives it to the driver.  It
   does not go past the tail pointer. *)
Receive(f) ==
  /\ receiving /\ own[dma] /\ dma # tail
  /\ Rx_Buff' = [Rx_Buff EXCEPT ![dma] = f]
  /\ own' = [own EXCEPT ![dma] = FALSE]
  /\ bit30' = [bit30 EXCEPT ![dma] = FALSE]
  /\ RI' = (RI \/ bit30[dma])
  /\ dma' = After(dma)
  /\ waiting' = Append(waiting, f)
  /\ refilled' = (\/ refilled
                  \/ BeingGivenBack /\ dma = FirstAppDesc /\ tail = ETH_RX_DESC_CNT)
  /\ UNCHANGED <<tail, receiving, RIE, listVars, buildVars, taskVars, expected,
                 dropped>>

(* HAL_ETH_IRQHandler: the callback, then the flag is cleared. *)
HAL_ETH_RxCpltCallback ==
  /\ isr = "idle" /\ RI /\ RIE
  /\ RxPktSemaphore' = 1
  /\ isr' = "clear"
  /\ UNCHANGED <<ringVars, irqVars, listVars, buildVars, pc, lpc, pbuf, history>>

ClearRI ==
  /\ isr = "clear"
  /\ RI' = FALSE
  /\ isr' = "idle"
  /\ UNCHANGED <<ringVars, receiving, RIE, listVars, buildVars, RxPktSemaphore,
                 pc, lpc, pbuf, history>>

-------------------------------------------------------------------------------
(* EthIf *)

(* ethernetif_input: osSemaphoreWait returns. *)
Wake ==
  /\ isr = "idle" /\ pc = "sleep" /\ RxPktSemaphore = 1
  /\ RxPktSemaphore' = 0
  /\ pc' = "take"
  /\ UNCHANGED <<ringVars, irqVars, listVars, buildVars, isr, lpc, pbuf, history>>

(* low_level_input finds no frame: the loop ends. *)
NoFrame ==
  /\ isr = "idle" /\ pc = "take" /\ own[CurRxDesc]
  /\ pc' = "sleep" /\ dropped' = FALSE
  /\ UNCHANGED <<ringVars, irqVars, listVars, buildVars, RxPktSemaphore, isr, lpc,
                 pbuf, waiting, expected, refilled>>

(* HAL_ETH_IsRxDataAvailable takes the frame at CurRxDesc, and the descriptor
   after it too if that looks like a context descriptor. *)
ContextFollows == LET next == After(CurRxDesc) IN ~own[next] /\ bit30[next]

HAL_ETH_GetRxDataBuffer ==
  /\ isr = "idle" /\ pc = "take" /\ ~own[CurRxDesc]
  /\ FirstAppDesc' = CurRxDesc /\ AppDescNbr' = 1
  /\ CurRxDesc' = IF ContextFollows THEN After(After(CurRxDesc)) ELSE After(CurRxDesc)
  /\ AppContextDesc' = IF ContextFollows THEN 1 ELSE AppContextDesc
  /\ expected' = Head(waiting) /\ waiting' = Tail(waiting)
  /\ pc' = "build"
  /\ UNCHANGED <<ringVars, irqVars, ItMode, buildVars, RxPktSemaphore, isr, lpc,
                 pbuf, dropped, refilled>>

(* HAL_ETH_BuildRxDescriptors gives the descriptor back while the DMA runs: OWN
   first, then IOC, which is a load and a store of DESC3, and the tail pointer
   last.  With a context descriptor it writes the same descriptor twice. *)
Interrupts_Never == FALSE
Interrupts == ItMode = 1
TailAfter_Next == After(FirstAppDesc)
TailAfter_Past == ETH_RX_DESC_CNT
TailAfter == FirstAppDesc

giveSteps == <<Rx_Buff, dma, irqVars, CurRxDesc, FirstAppDesc, AppContextDesc, ItMode,
               RxPktSemaphore, isr, lpc, pbuf, history>>

NextPass ==
  IF descscan < AppContextDesc THEN pc' = "build" /\ descscan' = 1
                               ELSE pc' = "tail" /\ UNCHANGED descscan

SetOWN ==
  /\ isr = "idle" /\ pc = "build"
  /\ own' = [own EXCEPT ![FirstAppDesc] = TRUE]
  /\ bit30' = [bit30 EXCEPT ![FirstAppDesc] = FALSE]
  /\ IF Interrupts THEN pc' = "load" /\ UNCHANGED descscan ELSE NextPass
  /\ UNCHANGED <<giveSteps, tail, AppDescNbr, desc3>>

LoadDESC3 ==
  /\ isr = "idle" /\ pc = "load"
  /\ desc3' = own[FirstAppDesc]
  /\ pc' = "store"
  /\ UNCHANGED <<giveSteps, own, bit30, tail, AppDescNbr, descscan>>

StoreIOC ==
  /\ isr = "idle" /\ pc = "store"
  /\ own' = [own EXCEPT ![FirstAppDesc] = desc3]
  /\ bit30' = [bit30 EXCEPT ![FirstAppDesc] = TRUE]
  /\ NextPass
  /\ UNCHANGED <<giveSteps, tail, AppDescNbr, desc3>>

SetTail ==
  /\ isr = "idle" /\ pc = "tail"
  /\ tail' = TailAfter
  /\ AppDescNbr' = 0
  /\ descscan' = 0
  /\ pc' = "copy"
  /\ UNCHANGED <<giveSteps, own, bit30, desc3>>

HAL_ETH_BuildRxDescriptors == SetOWN \/ LoadDESC3 \/ StoreIOC \/ SetTail

(* low_level_input: pbuf_alloc and pbuf_take *)
Copy ==
  /\ isr = "idle" /\ pc = "copy"
  /\ pbuf' = Rx_Buff[FirstAppDesc]
  /\ pc' = "input"
  /\ UNCHANGED <<ringVars, irqVars, listVars, buildVars, RxPktSemaphore, isr, lpc,
                 history>>

(* No pbuf: the frame is lost, and the NULL ends the loop. *)
AllocFails ==
  /\ isr = "idle" /\ pc = "copy"
  /\ pc' = "sleep" /\ dropped' = TRUE
  /\ UNCHANGED <<ringVars, irqVars, listVars, buildVars, RxPktSemaphore, isr, lpc,
                 pbuf, waiting, expected, refilled>>

(* tcpip_input; a frame that the mailbox has no room for is freed. *)
Input_Once ==
  /\ isr = "idle" /\ pc = "input"
  /\ pc' = "sleep"
  /\ UNCHANGED <<ringVars, irqVars, listVars, buildVars, RxPktSemaphore, isr, lpc,
                 pbuf, history>>
Input ==
  /\ isr = "idle" /\ pc = "input"
  /\ pc' = "take"
  /\ UNCHANGED <<ringVars, irqVars, listVars, buildVars, RxPktSemaphore, isr, lpc,
                 pbuf, history>>

-------------------------------------------------------------------------------
(* The link thread, and before it the task that runs low_level_init; an
   interrupt that is pending is taken first. *)
EthIfSleeps ==
  isr = "idle" /\ ~(RI /\ RIE) /\ pc = "sleep" /\ RxPktSemaphore = 0

linkSteps == <<Rx_Buff, own, dma, tail, RI, CurRxDesc, FirstAppDesc, AppDescNbr,
               AppContextDesc, buildVars, RxPktSemaphore, isr, pc, pbuf, history>>

(* HAL_ETH_Stop_IT disables the interrupt, stops the DMA, and clears IOC, in
   the first descriptor, as often as there are descriptors. *)
DisableInterrupt ==
  /\ EthIfSleeps /\ lpc = "up"
  /\ RIE' = FALSE /\ lpc' = "stop"
  /\ UNCHANGED <<linkSteps, bit30, receiving, ItMode>>

StopDMA ==
  /\ EthIfSleeps /\ lpc = "stop"
  /\ receiving' = FALSE /\ lpc' = "unmark"
  /\ UNCHANGED <<linkSteps, bit30, RIE, ItMode>>

ClearIOC ==
  /\ EthIfSleeps /\ lpc = "unmark"
  /\ bit30' = [bit30 EXCEPT ![0] = FALSE]
  /\ ItMode' = 0 /\ lpc' = "down"
  /\ UNCHANGED <<linkSteps, receiving, RIE>>

(* HAL_ETH_Start_IT sets IOC in all descriptors, whoever owns them, starts the
   DMA and enables the interrupt. *)
SetIOC ==
  /\ EthIfSleeps /\ lpc = "down"
  /\ bit30' = [d \in Desc |-> TRUE]
  /\ ItMode' = 1 /\ lpc' = "start"
  /\ UNCHANGED <<linkSteps, receiving, RIE>>

StartDMA ==
  /\ EthIfSleeps /\ lpc = "start"
  /\ receiving' = TRUE /\ lpc' = "enable"
  /\ UNCHANGED <<linkSteps, bit30, RIE, ItMode>>

EnableInterrupt ==
  /\ EthIfSleeps /\ lpc = "enable"
  /\ RIE' = TRUE /\ lpc' = "up"
  /\ UNCHANGED <<linkSteps, bit30, receiving, ItMode>>

-------------------------------------------------------------------------------
IRQ == HAL_ETH_RxCpltCallback \/ ClearRI

EthIf ==
  \/ Wake \/ NoFrame \/ HAL_ETH_GetRxDataBuffer \/ HAL_ETH_BuildRxDescriptors
  \/ Copy \/ AllocFails \/ Input

Link ==
  \/ DisableInterrupt \/ StopDMA \/ ClearIOC
  \/ SetIOC \/ StartDMA \/ EnableInterrupt

Next == (\E f \in Frame : Receive(f)) \/ IRQ \/ EthIf \/ Link

Spec == Init /\ [][Next]_vars

(* A bound for TLC: a descriptor refilled while it was given back, or taken for
   a context descriptor, loses frames, so that waiting grows for ever. *)
Bounded == ~refilled /\ Len(waiting) <= ETH_RX_DESC_CNT

(* The interrupt is taken and EthIf runs.  Nothing is assumed of the network
   and of the link. *)
FairSpec == Spec /\ WF_vars(IRQ) /\ WF_vars(EthIf)

-------------------------------------------------------------------------------
(* Properties.  They are stated for a driver that has seen no context
   descriptor: SetIOC may forge one, and AppContextDesc is never reset; and for a
   ring that the DMA did not fill up before the tail pointer was first written,
   to go on with the first descriptor given back. *)

Sound == AppContextDesc = 0 /\ ~refilled

(* Every frame handed to lwIP is the frame that was received, each once and in
   order, although its descriptor goes back to the DMA before its bytes are
   copied (ethernetif.c:543-553, stm32h7xx_hal_eth.c:1429-1446). *)
DeliveredIntact == Sound /\ pc = "input" => pbuf = expected

(* EthIf does not sleep over a received frame: one that arrives at any point
   of its loop or of the interrupt leaves the semaphore or the flag behind,
   unless the loop was left early for want of a pbuf (ethernetif.c:581-601,
   stm32h7xx_hal_eth.c:1464-1480). *)
NoLostWakeup ==
  Sound /\ pc = "sleep" /\ RxPktSemaphore = 0 /\ ~RI /\ ~dropped => waiting = <<>>

(* When nothing waits, the DMA can receive: its descriptor is its own and not
   the last that the driver gave back (stm32h7xx_hal_eth.c:1398-1451). *)
RingReady == Sound /\ waiting = <<>> /\ pc = "sleep" => own[dma] /\ dma # tail

(* A waiting frame is taken, unless reception is being stopped or memory is
   short (ethernetif.c:581). *)
FrameTaken ==
  waiting # <<>> ~> (pc = "build" \/ ~RIE \/ dropped \/ ~Sound)

-------------------------------------------------------------------------------
(* stm32h7xx_hal_eth.h:158 "If 1 a context descriptor is present in last
   received packet."  The driver does not ask for time stamps, so the DMA
   writes no context descriptor. *)
ContextIsReal == AppContextDesc = 0
===============================================================================
