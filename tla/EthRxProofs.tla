----------------------------- MODULE EthRxProofs -----------------------------
(***************************************************************************)
(* Proofs about EthRx.  The frames waiting are at least as many as the      *)
(* descriptors the driver holds (Count), the link thread and the interrupt  *)
(* leave EthIf the semaphore or the flag (LinkInv), and, as long as the     *)
(* ring is Sound, the waiting frames lie in it from CurRxDesc to the DMA    *)
(* (Ring), which the tail pointer keeps off the frame in EthIf's hands      *)
(* (Taken).                                                                *)
(***************************************************************************)
EXTENDS EthRx, FiniteSetTheorems, SequenceTheorems, TLAPS

Unprocessed == {d \in Desc : ~own[d]}

(* The descriptor is EthIf's until OWN is set for the first time.  A frame that
   the DMA puts into it before the tail pointer moves may be counted in vain. *)
Count ==
  /\ pc \notin {"build", "load", "store", "tail"} => descscan = 0
  /\ descscan <= AppContextDesc
  /\ pc = "build" /\ descscan = 0 => FirstAppDesc \in Unprocessed
  /\ pc = "store" /\ ~desc3 => ~own[FirstAppDesc]
  /\ Cardinality(Unprocessed) <=
       IF pc = "build" /\ descscan = 0 THEN Len(waiting) + 1 ELSE Len(waiting)

(* While the interrupt is disabled EthIf sleeps, but for its first look at a
   ring that was never given to the DMA. *)
Quiet ==
  /\ isr = "idle"
  /\ \/ pc = "sleep" /\ RxPktSemaphore = 0
     \/ lpc = "down" /\ pc \in {"sleep", "take"} /\ \A d \in Desc : own[d]

LinkInv ==
  /\ receiving <=> lpc \in {"enable", "up", "stop"}
  /\ lpc \in {"start", "enable", "up", "stop"} =>
       /\ ItMode = 1
       /\ \A d \in Desc :
            own[d] => bit30[d] \/ (pc \in {"load", "store"} /\ d = FirstAppDesc)
  /\ RIE <=> lpc = "up"
  /\ ~RIE => Quiet
  /\ isr = "clear" => RxPktSemaphore = 1

(* How far d lies behind CurRxDesc in the ring *)
Dist(d) == IF d >= CurRxDesc THEN d - CurRxDesc ELSE d - CurRxDesc + ETH_RX_DESC_CNT

Ring ==
  /\ Len(waiting) <= ETH_RX_DESC_CNT
  /\ dma = IF CurRxDesc + Len(waiting) < ETH_RX_DESC_CNT
             THEN CurRxDesc + Len(waiting)
             ELSE CurRxDesc + Len(waiting) - ETH_RX_DESC_CNT
  /\ \A d \in Desc :
       own[d] <=> Dist(d) >= Len(waiting) /\ ~(pc = "build" /\ d = FirstAppDesc)
  /\ \A d \in Desc : Dist(d) < Len(waiting) => Rx_Buff[d] = waiting[Dist(d) + 1]

(* The frame in EthIf's hands, and the tail pointer that protects it: once it
   has been written the DMA has at most the ring but for one descriptor, and but
   for two while the next is on its way back. *)
Giving == pc \in {"build", "load", "store", "tail"}

Taken ==
  /\ Giving \/ pc \in {"copy", "input"} => CurRxDesc = After(FirstAppDesc)
  /\ Giving \/ pc = "copy" => Rx_Buff[FirstAppDesc] = expected
  /\ Giving => Len(waiting) < ETH_RX_DESC_CNT
  /\ pc = "store" => desc3
  /\ pc = "copy" => tail = FirstAppDesc
  /\ pc = "input" => pbuf = expected
  /\ tail # ETH_RX_DESC_CNT =>
       IF Giving THEN FirstAppDesc = After(tail) /\ Len(waiting) + 2 <= ETH_RX_DESC_CNT
                 ELSE CurRxDesc = After(tail) /\ Len(waiting) + 1 <= ETH_RX_DESC_CNT

IInv ==
  /\ TypeOK /\ Count /\ LinkInv
  /\ Sound => Ring /\ Taken /\ NoLostWakeup
-------------------------------------------------------------------------------
LEMMA AfterDesc == \A d \in Desc : After(d) \in Desc
  BY RingAssumption DEF After, Desc

LEMMA DescFinite == IsFiniteSet(Desc) /\ Cardinality(Desc) = ETH_RX_DESC_CNT
  BY FS_Interval, RingAssumption DEF Desc

(* A taken frame was waiting. *)
LEMMA FrameWaits ==
  ASSUME TypeOK, Count, pc = "take", ~own[CurRxDesc]
  PROVE  waiting # <<>>
<1>1. CurRxDesc \in Unprocessed
  BY DEF Unprocessed, TypeOK
<1>2. IsFiniteSet(Unprocessed)
  BY DescFinite, FS_Subset DEF Unprocessed
<1>3. Cardinality(Unprocessed) # 0 /\ Cardinality(Unprocessed) \in Nat
  BY <1>1, <1>2, FS_EmptySet, FS_CardinalityType
<1>4. Len(waiting) # 0
  BY <1>3 DEF Count
<1> QED
  BY <1>4, EmptySeq DEF TypeOK

LEMMA InitEstablishes == Init => IInv
<1> SUFFICES ASSUME Init PROVE IInv
  OBVIOUS
<1>1. TypeOK
  <2>1. 0 \in Desc
    BY RingAssumption DEF Desc
  <2>2. /\ own \in [Desc -> BOOLEAN] /\ bit30 \in [Desc -> BOOLEAN]
        /\ Rx_Buff \in [Desc -> Frame] /\ pbuf \in Frame /\ expected \in Frame
    BY DEF Init
  <2>3. waiting \in Seq(Frame)
    BY EmptySeq DEF Init
  <2> QED
    BY <2>1, <2>2, <2>3 DEF Init, TypeOK
<1>2. Unprocessed = {} /\ Len(waiting) = 0
  BY EmptySeq DEF Init, Unprocessed
<1>3. Count
  BY <1>2, FS_EmptySet DEF Init, Count
<1>4. LinkInv
  BY DEF Init, LinkInv, Quiet
<1>5. Ring /\ Taken
  BY <1>2, RingAssumption DEF Init, Ring, Taken, Giving, Dist, Desc
<1>6. NoLostWakeup
  BY DEF Init, NoLostWakeup
<1> QED
  BY <1>1, <1>3, <1>4, <1>5, <1>6 DEF IInv

LEMMA TypeStep == TypeOK /\ Count /\ [Next]_vars => TypeOK'
<1> SUFFICES ASSUME TypeOK, Count, [Next]_vars PROVE TypeOK'
  OBVIOUS
<1> USE DEF TypeOK
<1>1. ASSUME NEW f \in Frame, Receive(f) PROVE TypeOK'
  <2>1. waiting' \in Seq(Frame)
    BY <1>1, AppendProperties DEF Receive
  <2>2. refilled' \in BOOLEAN
    BY <1>1 DEF Receive
  <2> QED
    BY <1>1, <2>1, <2>2, AfterDesc DEF Receive, listVars, buildVars, taskVars
<1>2. CASE IRQ
  <2>1. CASE HAL_ETH_RxCpltCallback
    BY <2>1 DEF HAL_ETH_RxCpltCallback, ringVars, irqVars, listVars, buildVars, history
  <2>2. CASE ClearRI
    <3>1. RI' \in BOOLEAN /\ isr' \in {"idle", "clear"}
      BY <2>2 DEF ClearRI
    <3>2. UNCHANGED <<ringVars, receiving, RIE, listVars, buildVars, RxPktSemaphore,
                      pc, lpc, pbuf, history>>
      BY <2>2 DEF ClearRI
    <3> QED
      BY <3>1, <3>2 DEF ringVars, listVars, buildVars, history
  <2> QED
    BY <1>2, <2>1, <2>2 DEF IRQ
<1>3. CASE HAL_ETH_GetRxDataBuffer
  <2>1. Head(waiting) \in Frame /\ Tail(waiting) \in Seq(Frame)
    BY <1>3, FrameWaits, HeadTailProperties DEF HAL_ETH_GetRxDataBuffer
  <2>2. After(CurRxDesc) \in Desc /\ After(After(CurRxDesc)) \in Desc
    BY AfterDesc
  <2> QED
    BY <1>3, <2>1, <2>2 DEF HAL_ETH_GetRxDataBuffer, ringVars, irqVars, buildVars
<1>4. CASE HAL_ETH_BuildRxDescriptors
  <2>1. /\ own' \in [Desc -> BOOLEAN] /\ bit30' \in [Desc -> BOOLEAN]
        /\ tail' \in Desc \cup {ETH_RX_DESC_CNT}
        /\ AppDescNbr' \in {0, 1} /\ descscan' \in {0, 1} /\ desc3' \in BOOLEAN
        /\ pc' \in {"sleep", "take", "build", "load", "store", "tail", "copy", "input"}
        /\ UNCHANGED giveSteps
    <3>1. CASE SetOWN
      BY <3>1 DEF SetOWN, NextPass
    <3>2. CASE LoadDESC3
      BY <3>2 DEF LoadDESC3
    <3>3. CASE StoreIOC
      BY <3>3 DEF StoreIOC, NextPass
    <3>4. CASE SetTail
      BY <3>4 DEF SetTail, TailAfter
    <3> QED
      BY <1>4, <3>1, <3>2, <3>3, <3>4 DEF HAL_ETH_BuildRxDescriptors
  <2> QED
    BY <2>1 DEF giveSteps, irqVars, history
<1>5. CASE Wake \/ NoFrame \/ AllocFails \/ Input
  <2>1. /\ RxPktSemaphore' \in {0, 1} /\ dropped' \in BOOLEAN
        /\ pc' \in {"sleep", "take", "build", "load", "store", "tail", "copy", "input"}
        /\ UNCHANGED <<ringVars, irqVars, listVars, buildVars, isr, lpc, pbuf, waiting,
                       expected, refilled>>
    BY <1>5 DEF Wake, NoFrame, AllocFails, Input, history
  <2> QED
    BY <2>1 DEF ringVars, irqVars, listVars, buildVars
<1>6. CASE Copy
  BY <1>6 DEF Copy, ringVars, irqVars, listVars, buildVars, history
<1>7. CASE Link
  <2>1. /\ bit30' \in [Desc -> BOOLEAN] /\ ItMode' \in {0, 1}
        /\ receiving' \in BOOLEAN /\ RIE' \in BOOLEAN
        /\ lpc' \in {"up", "stop", "unmark", "down", "start", "enable"}
        /\ UNCHANGED linkSteps
    BY <1>7 DEF Link, DisableInterrupt, StopDMA, ClearIOC, SetIOC, StartDMA,
       EnableInterrupt
  <2> QED
    BY <2>1 DEF linkSteps, buildVars, history
<1>8. CASE UNCHANGED vars
  BY <1>8 DEF vars, ringVars, irqVars, listVars, buildVars, taskVars, history
<1> QED
  BY <1>1, <1>2, <1>3, <1>4, <1>5, <1>6, <1>7, <1>8 DEF Next, EthIf

(* A frame comes with its descriptor and goes with it. *)
LEMMA CountStep == TypeOK /\ Count /\ [Next]_vars => Count'
<1> SUFFICES ASSUME TypeOK, Count, [Next]_vars PROVE Count'
  OBVIOUS
<1>fin. IsFiniteSet(Unprocessed) /\ Cardinality(Unprocessed) \in Nat
  BY DescFinite, FS_Subset, FS_CardinalityType DEF Unprocessed
<1>len. Len(waiting) \in Nat
  BY LenProperties DEF TypeOK
<1>give. /\ FirstAppDesc \in Unprocessed =>
              Cardinality(Unprocessed \ {FirstAppDesc}) = Cardinality(Unprocessed) - 1
         /\ FirstAppDesc \notin Unprocessed => Unprocessed \ {FirstAppDesc} = Unprocessed
  BY <1>fin, FS_RemoveElement
<1>less. /\ Cardinality(Unprocessed \ {FirstAppDesc}) \in Nat
         /\ Cardinality(Unprocessed \ {FirstAppDesc}) <= Cardinality(Unprocessed)
  <2>1. CASE FirstAppDesc \in Unprocessed
    BY <2>1, <1>give, <1>fin, FS_RemoveElement, FS_CardinalityType
  <2>2. CASE FirstAppDesc \notin Unprocessed
    BY <2>2, <1>give, <1>fin
  <2> QED
    BY <2>1, <2>2
<1>1. ASSUME NEW f \in Frame, Receive(f) PROVE Count'
  <2>1. Unprocessed' = Unprocessed \cup {dma} /\ dma \notin Unprocessed
    BY <1>1 DEF Receive, Unprocessed, TypeOK
  <2>2. Cardinality(Unprocessed') = Cardinality(Unprocessed) + 1
    BY <2>1, <1>fin, FS_AddElement
  <2>3. Len(waiting') = Len(waiting) + 1
    BY <1>1, AppendProperties DEF Receive, TypeOK
  <2>4. /\ pc' = pc /\ FirstAppDesc' = FirstAppDesc /\ descscan' = descscan
        /\ desc3' = desc3 /\ AppContextDesc' = AppContextDesc
    BY <1>1 DEF Receive, taskVars, buildVars, listVars
  <2>5. ~own[FirstAppDesc] => ~own'[FirstAppDesc]
    BY <1>1 DEF Receive, TypeOK
  <2>6. FirstAppDesc \in Unprocessed => FirstAppDesc' \in Unprocessed'
    BY <2>1, <2>4
  <2> QED
    BY <2>2, <2>3, <2>4, <2>5, <2>6, <1>fin, <1>len DEF Count
<1>2. CASE HAL_ETH_GetRxDataBuffer
  <2>1. waiting # <<>>
    BY <1>2, FrameWaits DEF HAL_ETH_GetRxDataBuffer
  <2>2. Len(waiting') = Len(waiting) - 1
    BY <1>2, <2>1, HeadTailProperties, LenProperties DEF HAL_ETH_GetRxDataBuffer, TypeOK
  <2>3. Unprocessed' = Unprocessed /\ FirstAppDesc' \in Unprocessed
    BY <1>2 DEF HAL_ETH_GetRxDataBuffer, Unprocessed, TypeOK, ringVars
  <2>4. /\ pc = "take" /\ pc' = "build" /\ descscan' = descscan
        /\ AppContextDesc' \in {1, AppContextDesc}
    BY <1>2 DEF HAL_ETH_GetRxDataBuffer, buildVars
  <2>5. descscan = 0 /\ AppContextDesc \in {0, 1}
    BY <2>4 DEF Count, TypeOK
  <2> QED
    BY <2>2, <2>3, <2>4, <2>5, <1>fin, <1>len DEF Count
<1>3. CASE SetOWN
  <2>1. Unprocessed' = Unprocessed \ {FirstAppDesc}
    BY <1>3 DEF SetOWN, Unprocessed, TypeOK
  <2>2. /\ pc = "build" /\ waiting' = waiting /\ AppContextDesc' = AppContextDesc
        /\ \/ pc' \in {"load", "tail"} /\ descscan' = descscan
           \/ pc' = "build" /\ descscan < AppContextDesc /\ descscan' = 1
    BY <1>3 DEF SetOWN, NextPass, giveSteps, history
  <2>3. descscan \in {0, 1} /\ AppContextDesc \in {0, 1}
    BY DEF TypeOK
  <2>4. Cardinality(Unprocessed') <= Len(waiting)
    <3>1. CASE descscan = 0
      <4>1. FirstAppDesc \in Unprocessed /\ Cardinality(Unprocessed) <= Len(waiting) + 1
        BY <2>2, <3>1 DEF Count
      <4> QED
        BY <2>1, <4>1, <1>give, <1>fin, <1>len
    <3>2. CASE descscan = 1
      <4>1. Cardinality(Unprocessed) <= Len(waiting)
        BY <3>2 DEF Count
      <4>2. Cardinality(Unprocessed') = Cardinality(Unprocessed \ {FirstAppDesc})
        BY <2>1
      <4> QED
        BY <4>1, <4>2, <1>less, <1>fin, <1>len
    <3> QED
      BY <2>3, <3>1, <3>2
  <2> QED
    BY <2>2, <2>3, <2>4 DEF Count
<1>4. CASE LoadDESC3
  <2>1. /\ pc = "load" /\ pc' = "store" /\ desc3' = own[FirstAppDesc] /\ own' = own
        /\ UNCHANGED <<FirstAppDesc, AppContextDesc, waiting, descscan>>
    BY <1>4 DEF LoadDESC3, giveSteps, history
  <2>2. Unprocessed' = Unprocessed
    BY <2>1 DEF Unprocessed
  <2> QED
    BY <2>1, <2>2 DEF Count
<1>5. CASE StoreIOC
  <2>1. /\ pc = "store" /\ waiting' = waiting /\ AppContextDesc' = AppContextDesc
        /\ \/ pc' = "tail" /\ descscan' = descscan
           \/ pc' = "build" /\ descscan < AppContextDesc /\ descscan' = 1
    BY <1>5 DEF StoreIOC, NextPass, giveSteps, history
  <2>2. descscan \in {0, 1} /\ AppContextDesc \in {0, 1}
    BY DEF TypeOK
  <2>3. Unprocessed' = IF desc3 THEN Unprocessed \ {FirstAppDesc} ELSE Unprocessed
    <3>1. own' = [own EXCEPT ![FirstAppDesc] = desc3] /\ (~desc3 => ~own[FirstAppDesc])
      BY <1>5, <2>1 DEF StoreIOC, Count
    <3>2. CASE desc3
      BY <3>1, <3>2 DEF Unprocessed, TypeOK
    <3>3. CASE ~desc3
      BY <3>1, <3>3 DEF Unprocessed, TypeOK
    <3> QED
      BY <3>2, <3>3
  <2>4. Cardinality(Unprocessed') <= Len(waiting)
    <3>1. Cardinality(Unprocessed) <= Len(waiting)
      BY <2>1 DEF Count
    <3>2. \/ Cardinality(Unprocessed') = Cardinality(Unprocessed \ {FirstAppDesc})
          \/ Cardinality(Unprocessed') = Cardinality(Unprocessed)
      BY <2>3
    <3> QED
      BY <3>1, <3>2, <1>less, <1>fin, <1>len
  <2> QED
    BY <2>1, <2>2, <2>4 DEF Count
<1>6. CASE SetTail
  <2>1. /\ pc = "tail" /\ pc' = "copy" /\ descscan' = 0 /\ own' = own
        /\ AppContextDesc' = AppContextDesc /\ waiting' = waiting
    BY <1>6 DEF SetTail, giveSteps, history
  <2>2. Unprocessed' = Unprocessed
    BY <2>1 DEF Unprocessed
  <2> QED
    BY <2>1, <2>2 DEF Count, TypeOK
<1>7. CASE \/ IRQ \/ Wake \/ NoFrame \/ Copy \/ AllocFails \/ Input \/ Link
           \/ UNCHANGED vars
  <2>1. /\ own' = own /\ waiting' = waiting /\ FirstAppDesc' = FirstAppDesc
        /\ descscan' = descscan /\ desc3' = desc3 /\ AppContextDesc' = AppContextDesc
    BY <1>7 DEF IRQ, HAL_ETH_RxCpltCallback, ClearRI, Wake, NoFrame, Copy,
       AllocFails, Input, Link, DisableInterrupt, StopDMA, ClearIOC, SetIOC,
       StartDMA, EnableInterrupt, linkSteps, vars, ringVars, listVars, buildVars, history
  <2>2. \/ pc' = pc
        \/ /\ pc' \notin {"build", "load", "store", "tail"}
           /\ pc \notin {"build", "load", "store", "tail"}
    BY <1>7 DEF IRQ, HAL_ETH_RxCpltCallback, ClearRI, Wake, NoFrame, Copy,
       AllocFails, Input, Link, DisableInterrupt, StopDMA, ClearIOC, SetIOC,
       StartDMA, EnableInterrupt, linkSteps, vars, taskVars
  <2>3. Unprocessed' = Unprocessed
    BY <2>1 DEF Unprocessed
  <2> QED
    BY <2>1, <2>2, <2>3 DEF Count
<1> QED
  BY <1>1, <1>2, <1>3, <1>4, <1>5, <1>6, <1>7 DEF Next, EthIf,
     HAL_ETH_BuildRxDescriptors

(* Reception is stopped and started only while EthIf sleeps. *)
LEMMA LinkStep == TypeOK /\ LinkInv /\ [Next]_vars => LinkInv'
<1> SUFFICES ASSUME TypeOK, LinkInv, [Next]_vars PROVE LinkInv'
  OBVIOUS
<1> USE DEF LinkInv, Quiet, TypeOK
<1>1. ASSUME NEW f \in Frame, Receive(f) PROVE LinkInv'
  BY <1>1 DEF Receive, listVars, taskVars
<1>2. CASE IRQ
  <2>1. /\ RIE => RIE'
        /\ ~RIE => isr = "clear"
        /\ isr' = "clear" => RxPktSemaphore' = 1
        /\ UNCHANGED <<own, bit30, receiving, RIE, FirstAppDesc, ItMode, pc, lpc>>
    BY <1>2 DEF IRQ, HAL_ETH_RxCpltCallback, ClearRI, ringVars, irqVars, listVars
  <2> QED
    BY <2>1
<1>3. CASE HAL_ETH_GetRxDataBuffer
  <2>1. /\ pc = "take" /\ pc' = "build" /\ ~own[CurRxDesc]
        /\ UNCHANGED <<own, bit30, receiving, RI, RIE, ItMode, RxPktSemaphore, isr, lpc>>
    BY <1>3 DEF HAL_ETH_GetRxDataBuffer, ringVars, irqVars
  <2>2. RIE
    BY <2>1
  <2> QED
    BY <2>1, <2>2
<1>4. CASE HAL_ETH_BuildRxDescriptors
  <2>1. CASE SetOWN
    BY <2>1 DEF SetOWN, Interrupts, giveSteps, irqVars
  <2>2. CASE LoadDESC3
    BY <2>2 DEF LoadDESC3, giveSteps, irqVars
  <2>3. CASE StoreIOC
    BY <2>3 DEF StoreIOC, giveSteps, irqVars
  <2>4. CASE SetTail
    BY <2>4 DEF SetTail, giveSteps, irqVars
  <2> QED
    BY <1>4, <2>1, <2>2, <2>3, <2>4 DEF HAL_ETH_BuildRxDescriptors
<1>5. CASE Wake \/ NoFrame \/ Copy \/ AllocFails \/ Input
  BY <1>5 DEF Wake, NoFrame, Copy, AllocFails, Input, ringVars, irqVars, listVars
<1>6. CASE DisableInterrupt \/ StopDMA
  BY <1>6 DEF DisableInterrupt, StopDMA, EthIfSleeps, linkSteps
<1>7. CASE ClearIOC \/ SetIOC
  BY <1>7 DEF ClearIOC, SetIOC, EthIfSleeps, linkSteps
<1>8. CASE StartDMA \/ EnableInterrupt
  BY <1>8 DEF StartDMA, EnableInterrupt, EthIfSleeps, linkSteps
<1>9. CASE UNCHANGED vars
  BY <1>9 DEF vars, ringVars, irqVars, listVars, taskVars
<1> QED
  BY <1>1, <1>2, <1>3, <1>4, <1>5, <1>6, <1>7, <1>8, <1>9 DEF Next, EthIf, Link

-------------------------------------------------------------------------------
(* The steps of the ring, while it is sound *)

RingOK == TypeOK /\ Count /\ Sound /\ Ring /\ Taken

(* The DMA stands behind the waiting frames, and there is room for one more.  It
   gets at a descriptor that is being given back only if the tail pointer was
   never written. *)
LEMMA DmaPosition ==
  ASSUME RingOK, own[dma], dma # tail
  PROVE  /\ Len(waiting) \in Nat /\ Len(waiting) < ETH_RX_DESC_CNT
         /\ Dist(dma) = Len(waiting)
         /\ \A d \in Desc : Dist(d) = Len(waiting) => d = dma
         /\ Giving /\ (BeingGivenBack /\ dma = FirstAppDesc => tail # ETH_RX_DESC_CNT)
              => dma # FirstAppDesc /\ Len(waiting) + 1 < ETH_RX_DESC_CNT
         /\ tail # ETH_RX_DESC_CNT =>
              IF Giving THEN Len(waiting) + 3 <= ETH_RX_DESC_CNT
                        ELSE Len(waiting) + 2 <= ETH_RX_DESC_CNT
<1>1. Len(waiting) \in Nat
  BY LenProperties DEF RingOK, TypeOK
<1>2. dma \in Desc /\ CurRxDesc \in Desc /\ FirstAppDesc \in Desc
  BY DEF RingOK, TypeOK
<1>3. Dist(dma) >= Len(waiting) /\ ~(pc = "build" /\ dma = FirstAppDesc)
  BY <1>2 DEF RingOK, Ring
<1>4. Len(waiting) < ETH_RX_DESC_CNT /\ Dist(dma) = Len(waiting)
  BY <1>1, <1>2, <1>3, RingAssumption DEF RingOK, Ring, Dist, Desc
<1>5. \A d \in Desc : Dist(d) = Len(waiting) => d = dma
  BY <1>1, <1>2, <1>4, RingAssumption DEF RingOK, Ring, Dist, Desc
<1>6. ASSUME tail # ETH_RX_DESC_CNT
      PROVE  IF Giving THEN Len(waiting) + 3 <= ETH_RX_DESC_CNT
                       ELSE Len(waiting) + 2 <= ETH_RX_DESC_CNT
  <2>0. tail \in Desc /\ Dist(tail) # Len(waiting)
    BY <1>5, <1>6 DEF RingOK, TypeOK
  <2>1. CASE Giving
    <3>1. /\ FirstAppDesc = After(tail) /\ CurRxDesc = After(FirstAppDesc)
          /\ Len(waiting) + 2 <= ETH_RX_DESC_CNT
      BY <1>6, <2>1 DEF RingOK, Taken
    <3>2. Dist(tail) = ETH_RX_DESC_CNT - 2
      BY <3>1, <2>0, <1>2, RingAssumption DEF After, Dist, Desc
    <3> QED
      BY <2>0, <2>1, <3>1, <3>2, <1>1, RingAssumption
  <2>2. CASE ~Giving
    <3>1. CurRxDesc = After(tail) /\ Len(waiting) + 1 <= ETH_RX_DESC_CNT
      BY <1>6, <2>2 DEF RingOK, Taken
    <3>2. Dist(tail) = ETH_RX_DESC_CNT - 1
      BY <3>1, <2>0, <1>2, RingAssumption DEF After, Dist, Desc
    <3> QED
      BY <2>0, <2>2, <3>1, <3>2, <1>1, RingAssumption
  <2> QED
    BY <2>1, <2>2
<1>7. ASSUME Giving, BeingGivenBack /\ dma = FirstAppDesc => tail # ETH_RX_DESC_CNT
      PROVE  dma # FirstAppDesc /\ Len(waiting) + 1 < ETH_RX_DESC_CNT
  <2>1. CurRxDesc = After(FirstAppDesc) /\ Len(waiting) < ETH_RX_DESC_CNT
    BY <1>7 DEF RingOK, Taken
  <2>2. Dist(FirstAppDesc) = ETH_RX_DESC_CNT - 1
    BY <2>1, <1>2, RingAssumption DEF After, Dist, Desc
  <2>3. dma # FirstAppDesc
    <3>1. CASE tail # ETH_RX_DESC_CNT
      BY <3>1, <1>1, <1>4, <1>6, <1>7, <2>2, RingAssumption
    <3>2. CASE tail = ETH_RX_DESC_CNT
      BY <3>2, <1>3, <1>7 DEF Giving, BeingGivenBack
    <3> QED
      BY <3>1, <3>2
  <2> QED
    BY <2>1, <2>2, <2>3, <1>1, <1>2, <1>4, <1>5, RingAssumption
<1> QED
  BY <1>1, <1>3, <1>4, <1>5, <1>6, <1>7

LEMMA ReceiveRing ==
  ASSUME RingOK, NEW f \in Frame, Receive(f), Sound'
  PROVE  Ring' /\ Taken'
<1>1. /\ Len(waiting) \in Nat /\ Len(waiting) < ETH_RX_DESC_CNT
      /\ Dist(dma) = Len(waiting)
      /\ \A d \in Desc : Dist(d) = Len(waiting) => d = dma
      /\ Giving => dma # FirstAppDesc /\ Len(waiting) + 1 < ETH_RX_DESC_CNT
      /\ tail # ETH_RX_DESC_CNT =>
           IF Giving THEN Len(waiting) + 3 <= ETH_RX_DESC_CNT
                     ELSE Len(waiting) + 2 <= ETH_RX_DESC_CNT
  BY DmaPosition DEF Receive, Sound
<1>2. /\ Len(waiting') = Len(waiting) + 1
      /\ \A k \in 1 .. Len(waiting) : waiting'[k] = waiting[k]
      /\ waiting'[Len(waiting) + 1] = f
  BY AppendProperties DEF Receive, RingOK, TypeOK
<1>3. /\ CurRxDesc' = CurRxDesc /\ FirstAppDesc' = FirstAppDesc /\ pc' = pc
      /\ tail' = tail /\ pbuf' = pbuf /\ expected' = expected /\ desc3' = desc3
      /\ dma' = After(dma) /\ dma # tail
      /\ own' = [own EXCEPT ![dma] = FALSE]
      /\ Rx_Buff' = [Rx_Buff EXCEPT ![dma] = f]
  BY DEF Receive, listVars, buildVars, taskVars
<1>4. /\ dma \in Desc /\ CurRxDesc \in Desc /\ FirstAppDesc \in Desc
      /\ own \in [Desc -> BOOLEAN] /\ Rx_Buff \in [Desc -> Frame]
  BY DEF RingOK, TypeOK
<1>5. \A d \in Desc : Dist(d)' = Dist(d) /\ Dist(d) \in Nat
  BY <1>3, <1>4, RingAssumption DEF Dist, Desc
<1>6. Ring'
  <2>1. Len(waiting') <= ETH_RX_DESC_CNT
    BY <1>1, <1>2, RingAssumption
  <2>2. dma' = IF CurRxDesc' + Len(waiting') < ETH_RX_DESC_CNT
                 THEN CurRxDesc' + Len(waiting')
                 ELSE CurRxDesc' + Len(waiting') - ETH_RX_DESC_CNT
    BY <1>1, <1>2, <1>3, <1>4, RingAssumption, SMTT(40) DEF RingOK, Ring, After, Desc
  <2>3. ASSUME NEW d \in Desc
        PROVE  own'[d] <=> Dist(d)' >= Len(waiting')
                           /\ ~(pc' = "build" /\ d = FirstAppDesc')
    <3>1. own[d] <=> Dist(d) >= Len(waiting) /\ ~(pc = "build" /\ d = FirstAppDesc)
      BY DEF RingOK, Ring
    <3>2. CASE d = dma
      BY <3>2, <1>1, <1>2, <1>3, <1>4, <1>5
    <3>3. CASE d # dma
      BY <3>1, <3>3, <1>1, <1>2, <1>3, <1>4, <1>5
    <3> QED
      BY <3>2, <3>3
  <2>4. ASSUME NEW d \in Desc, Dist(d)' < Len(waiting')
        PROVE  Rx_Buff'[d] = waiting'[Dist(d)' + 1]
    <3>1. CASE d = dma
      BY <3>1, <1>1, <1>2, <1>3, <1>4, <1>5
    <3>2. CASE d # dma
      <4>1. Dist(d) < Len(waiting)
        BY <3>2, <2>4, <1>1, <1>2, <1>5
      <4>2. Rx_Buff[d] = waiting[Dist(d) + 1]
        BY <4>1 DEF RingOK, Ring
      <4> QED
        BY <3>2, <4>1, <4>2, <1>1, <1>2, <1>3, <1>4, <1>5
    <3> QED
      BY <3>1, <3>2
  <2> QED
    BY <2>1, <2>2, <2>3, <2>4 DEF Ring
<1>7. Taken'
  <2>1. Giving \/ pc = "copy" => dma # FirstAppDesc
    BY <1>1, <1>3 DEF RingOK, Taken
  <2>2. Giving' = Giving
    BY <1>3 DEF Giving
  <2>3. Rx_Buff'[FirstAppDesc] = Rx_Buff[FirstAppDesc] \/ dma = FirstAppDesc
    BY <1>3, <1>4
  <2>4. tail' # ETH_RX_DESC_CNT =>
          IF Giving THEN Len(waiting') + 2 <= ETH_RX_DESC_CNT
                    ELSE Len(waiting') + 1 <= ETH_RX_DESC_CNT
    BY <1>1, <1>2, <1>3, RingAssumption
  <2>5. Giving => Len(waiting') < ETH_RX_DESC_CNT
    BY <1>1, <1>2, RingAssumption
  <2> QED
    BY <2>1, <2>2, <2>3, <2>4, <2>5, <1>3 DEF RingOK, Taken, After
<1> QED
  BY <1>6, <1>7

LEMMA TakeRing ==
  ASSUME RingOK, HAL_ETH_GetRxDataBuffer, Sound'
  PROVE  Ring' /\ Taken'
<1>1. waiting # <<>>
  BY FrameWaits DEF RingOK, HAL_ETH_GetRxDataBuffer
<1>2. /\ Len(waiting') = Len(waiting) - 1 /\ Len(waiting) \in Nat
      /\ \A k \in 1 .. Len(waiting') : waiting'[k] = waiting[k + 1]
  BY <1>1, HeadTailProperties, LenProperties DEF HAL_ETH_GetRxDataBuffer, RingOK, TypeOK
<1>3. Len(waiting) > 0
  BY <1>1, EmptySeq DEF RingOK, TypeOK
<1>4. /\ CurRxDesc' = After(CurRxDesc) /\ FirstAppDesc' = CurRxDesc
      /\ expected' = waiting[1] /\ pc' = "build" /\ pc = "take"
      /\ own' = own /\ Rx_Buff' = Rx_Buff /\ dma' = dma /\ tail' = tail
  BY <1>1 DEF HAL_ETH_GetRxDataBuffer, ringVars, Sound
<1>5. /\ dma \in Desc /\ CurRxDesc \in Desc
  BY DEF RingOK, TypeOK
<1>6. Dist(CurRxDesc) = 0
  BY <1>5, RingAssumption DEF Dist, Desc
<1>7. \A d \in Desc : /\ Dist(d) \in 0 .. ETH_RX_DESC_CNT - 1
                      /\ d # CurRxDesc => Dist(d)' = Dist(d) - 1 /\ Dist(d) > 0
                      /\ d = CurRxDesc => Dist(d)' = ETH_RX_DESC_CNT - 1
  BY <1>4, <1>5, RingAssumption DEF Dist, Desc, After
<1>8. Ring'
  <2>1. Len(waiting') <= ETH_RX_DESC_CNT
    BY <1>2, RingAssumption DEF RingOK, Ring
  <2>2. dma' = IF CurRxDesc' + Len(waiting') < ETH_RX_DESC_CNT
                 THEN CurRxDesc' + Len(waiting')
                 ELSE CurRxDesc' + Len(waiting') - ETH_RX_DESC_CNT
    BY <1>2, <1>3, <1>4, <1>5, RingAssumption DEF RingOK, Ring, After, Desc
  <2>3. ASSUME NEW d \in Desc
        PROVE  own'[d] <=> Dist(d)' >= Len(waiting')
                           /\ ~(pc' = "build" /\ d = FirstAppDesc')
    <3>1. own[d] <=> Dist(d) >= Len(waiting)
      BY <1>4 DEF RingOK, Ring
    <3> QED
      BY <3>1, <1>2, <1>3, <1>4, <1>6, <1>7, RingAssumption
  <2>4. ASSUME NEW d \in Desc, Dist(d)' < Len(waiting')
        PROVE  Rx_Buff'[d] = waiting'[Dist(d)' + 1]
    <3>1. d # CurRxDesc
      BY <2>4, <1>2, <1>7, RingAssumption DEF RingOK, Ring
    <3>2. Dist(d)' = Dist(d) - 1 /\ Dist(d) < Len(waiting) /\ Dist(d) \in Nat /\ Dist(d) > 0
      BY <3>1, <2>4, <1>2, <1>7
    <3>3. Rx_Buff[d] = waiting[Dist(d) + 1]
      BY <3>2 DEF RingOK, Ring
    <3>4. waiting'[Dist(d)] = waiting[Dist(d) + 1]
      BY <3>2, <1>2
    <3> QED
      BY <3>2, <3>3, <3>4, <1>4
  <2> QED
    BY <2>1, <2>2, <2>3, <2>4 DEF Ring
<1>9. Taken'
  <2>1. Rx_Buff[CurRxDesc] = waiting[1]
    BY <1>3, <1>5, <1>6 DEF RingOK, Ring
  <2>2. Len(waiting') < ETH_RX_DESC_CNT
    BY <1>2, <1>3, RingAssumption DEF RingOK, Ring
  <2>3. ~Giving /\ Giving'
    BY <1>4 DEF Giving
  <2>4. tail' # ETH_RX_DESC_CNT =>
          FirstAppDesc' = After(tail') /\ Len(waiting') + 2 <= ETH_RX_DESC_CNT
    BY <1>2, <1>4, <2>3, RingAssumption DEF RingOK, Taken
  <2> QED
    BY <2>1, <2>2, <2>3, <2>4, <1>4 DEF Taken, After
<1> QED
  BY <1>8, <1>9

LEMMA BuildRing ==
  ASSUME RingOK, HAL_ETH_BuildRxDescriptors
  PROVE  Ring' /\ Taken'
<1>1. /\ CurRxDesc' = CurRxDesc /\ FirstAppDesc' = FirstAppDesc
      /\ dma' = dma /\ Rx_Buff' = Rx_Buff /\ waiting' = waiting /\ expected' = expected
  BY DEF HAL_ETH_BuildRxDescriptors, SetOWN, LoadDESC3, StoreIOC, SetTail, giveSteps,
         history
<1>2. /\ FirstAppDesc \in Desc /\ CurRxDesc \in Desc /\ own \in [Desc -> BOOLEAN]
      /\ Len(waiting) \in Nat
  BY LenProperties DEF RingOK, TypeOK
<1>3. Giving /\ CurRxDesc = After(FirstAppDesc) /\ Len(waiting) < ETH_RX_DESC_CNT
  <2>1. Giving
    BY DEF HAL_ETH_BuildRxDescriptors, SetOWN, LoadDESC3, StoreIOC, SetTail, Giving
  <2> QED
    BY <2>1 DEF RingOK, Taken
<1>4. Dist(FirstAppDesc) >= Len(waiting)
  BY <1>2, <1>3, RingAssumption DEF Dist, After, Desc
<1>5. \A d \in Desc : Dist(d)' = Dist(d)
  BY <1>1 DEF Dist
<1>6. pc # "build" => own[FirstAppDesc]
  BY <1>2, <1>4 DEF RingOK, Ring
<1>7. ~(descscan < AppContextDesc)
  BY DEF RingOK, Sound, Count, TypeOK
<1>8. /\ pc' # "build"
      /\ own' = IF pc = "build" THEN [own EXCEPT ![FirstAppDesc] = TRUE] ELSE own
      /\ IF pc = "tail" THEN pc' = "copy" /\ tail' = FirstAppDesc
                        ELSE pc' \in {"load", "store", "tail"} /\ tail' = tail
      /\ pc' = "store" => desc3'
  <2>1. CASE SetOWN
    BY <1>7, <2>1 DEF SetOWN, NextPass
  <2>2. CASE LoadDESC3
    BY <1>6, <2>2 DEF LoadDESC3
  <2>3. CASE StoreIOC
    <3>1. desc3 /\ own' = [own EXCEPT ![FirstAppDesc] = desc3] /\ pc = "store"
      BY <2>3 DEF StoreIOC, RingOK, Taken
    <3>2. own' = own
      BY <3>1, <1>2, <1>6
    <3>3. pc' = "tail" /\ tail' = tail
      BY <1>7, <2>3 DEF StoreIOC, NextPass
    <3> QED
      BY <3>1, <3>2, <3>3
  <2>4. CASE SetTail
    BY <2>4 DEF SetTail, TailAfter
  <2> QED
    BY <2>1, <2>2, <2>3, <2>4 DEF HAL_ETH_BuildRxDescriptors
<1>9. \A d \in Desc : own'[d] <=> Dist(d)' >= Len(waiting')
                                  /\ ~(pc' = "build" /\ d = FirstAppDesc')
  <2> SUFFICES ASSUME NEW d \in Desc PROVE own'[d] <=> Dist(d) >= Len(waiting)
    BY <1>1, <1>5, <1>8
  <2>1. own[d] <=> Dist(d) >= Len(waiting) /\ ~(pc = "build" /\ d = FirstAppDesc)
    BY DEF RingOK, Ring
  <2>2. CASE d = FirstAppDesc
    BY <2>2, <1>2, <1>4, <1>6, <1>8
  <2>3. CASE d # FirstAppDesc
    BY <2>1, <2>3, <1>2, <1>8
  <2> QED
    BY <2>2, <2>3
<1>10. Ring'
  BY <1>1, <1>5, <1>9 DEF RingOK, Ring
<1>11. Taken'
  <2>1. Rx_Buff[FirstAppDesc] = expected
    BY <1>3 DEF RingOK, Taken
  <2>2. CASE pc = "tail"
    <3>1. pc' = "copy" /\ tail' = FirstAppDesc /\ ~Giving'
      BY <1>8, <2>2 DEF Giving
    <3>2. Len(waiting) + 1 <= ETH_RX_DESC_CNT
      BY <1>2, <1>3, RingAssumption
    <3> QED
      BY <1>1, <1>3, <2>1, <3>1, <3>2 DEF Taken, After
  <2>3. CASE pc # "tail"
    <3>1. Giving' /\ pc' \in {"load", "store", "tail"} /\ tail' = tail
      BY <1>8, <2>3 DEF Giving
    <3>2. tail # ETH_RX_DESC_CNT =>
            FirstAppDesc = After(tail) /\ Len(waiting) + 2 <= ETH_RX_DESC_CNT
      BY <1>3 DEF RingOK, Taken
    <3> QED
      BY <1>1, <1>3, <1>8, <2>1, <3>1, <3>2 DEF Taken, After
  <2> QED
    BY <2>2, <2>3
<1> QED
  BY <1>10, <1>11

LEMMA OtherRing ==
  ASSUME RingOK,
         \/ IRQ \/ Wake \/ NoFrame \/ Copy \/ AllocFails \/ Input \/ Link
         \/ UNCHANGED vars
  PROVE  Ring' /\ Taken'
<1>1. /\ own' = own /\ Rx_Buff' = Rx_Buff /\ dma' = dma /\ tail' = tail
      /\ CurRxDesc' = CurRxDesc /\ FirstAppDesc' = FirstAppDesc
      /\ waiting' = waiting /\ expected' = expected
  BY DEF IRQ, HAL_ETH_RxCpltCallback, ClearRI, Wake, NoFrame, Copy, AllocFails,
     Input, Link, DisableInterrupt, StopDMA, ClearIOC, SetIOC, StartDMA,
     EnableInterrupt, linkSteps, vars, ringVars, listVars, history
<1>2. /\ Giving' <=> Giving
      /\ Giving => pc' = pc /\ desc3' = desc3
      /\ pc' = "copy" => pc = "copy"
      /\ pc' = "input" => \/ pc = "input" /\ pbuf' = pbuf
                          \/ pc = "copy" /\ pbuf' = Rx_Buff[FirstAppDesc]
  BY DEF IRQ, HAL_ETH_RxCpltCallback, ClearRI, Wake, NoFrame, Copy, AllocFails,
     Input, Link, DisableInterrupt, StopDMA, ClearIOC, SetIOC, StartDMA,
     EnableInterrupt, linkSteps, vars, buildVars, taskVars, Giving
<1>3. \A d \in Desc : Dist(d)' = Dist(d)
  BY <1>1 DEF Dist
<1>4. Ring'
  BY <1>1, <1>2, <1>3 DEF RingOK, Ring, Giving
<1>5. Taken'
  BY <1>1, <1>2 DEF RingOK, Taken, After, Giving
<1> QED
  BY <1>4, <1>5

(* No step leaves EthIf asleep over a frame. *)
LEMMA WakeupStep ==
  ASSUME RingOK, LinkInv, NoLostWakeup, [Next]_vars
  PROVE  NoLostWakeup'
<1> USE DEF NoLostWakeup
<1>snd. Sound
  BY DEF RingOK
<1>1. ASSUME NEW f \in Frame, Receive(f) PROVE NoLostWakeup'
  <2>1. pc \notin {"load", "store"} => bit30[dma]
    BY <1>1 DEF Receive, LinkInv, RingOK, TypeOK
  <2>2. pc' = pc
    BY <1>1 DEF Receive, taskVars
  <2> QED
    BY <1>1, <2>1, <2>2 DEF Receive
<1>2. CASE IRQ
  <2>1. RxPktSemaphore' = 1
    <3>1. CASE HAL_ETH_RxCpltCallback
      BY <3>1 DEF HAL_ETH_RxCpltCallback
    <3>2. CASE ClearRI
      <4>1. isr = "clear" /\ RxPktSemaphore' = RxPktSemaphore
        BY <3>2 DEF ClearRI
      <4> QED
        BY <4>1 DEF LinkInv
    <3> QED
      BY <1>2, <3>1, <3>2 DEF IRQ
  <2> QED
    BY <2>1
<1>3. CASE NoFrame
  <2>1. CurRxDesc \in Desc /\ Len(waiting) \in Nat
    BY LenProperties DEF RingOK, TypeOK
  <2>2. Dist(CurRxDesc) = 0
    BY <2>1, RingAssumption DEF Dist, Desc
  <2>3. Len(waiting) = 0
    BY <1>3, <2>1, <2>2 DEF NoFrame, RingOK, Ring
  <2>4. waiting = <<>>
    BY <2>3, EmptySeq DEF RingOK, TypeOK
  <2> QED
    BY <1>3, <2>4 DEF NoFrame
<1>4. CASE \/ Wake \/ HAL_ETH_GetRxDataBuffer \/ HAL_ETH_BuildRxDescriptors
           \/ Copy \/ AllocFails \/ Input
  BY <1>4 DEF Wake, HAL_ETH_GetRxDataBuffer, HAL_ETH_BuildRxDescriptors, SetOWN,
     LoadDESC3, StoreIOC, SetTail, NextPass, Copy, AllocFails, Input
<1>5. CASE Link \/ UNCHANGED vars
  BY <1>5 DEF Link, DisableInterrupt, StopDMA, ClearIOC, SetIOC, StartDMA,
     EnableInterrupt, linkSteps, vars, irqVars, listVars, taskVars, history, Sound
<1> QED
  BY <1>1, <1>2, <1>3, <1>4, <1>5 DEF Next, EthIf

LEMMA Step == IInv /\ [Next]_vars => IInv'
<1> SUFFICES ASSUME IInv, [Next]_vars PROVE IInv'
  OBVIOUS
<1>1. TypeOK' /\ Count' /\ LinkInv'
  BY TypeStep, CountStep, LinkStep DEF IInv
<1>2. ASSUME Sound' PROVE Ring' /\ Taken' /\ NoLostWakeup'
  <2>1. Sound
    <3>1. refilled => refilled'
      BY DEF Next, Receive, IRQ, HAL_ETH_RxCpltCallback, ClearRI, EthIf, Wake,
         NoFrame, HAL_ETH_GetRxDataBuffer, HAL_ETH_BuildRxDescriptors, SetOWN,
         LoadDESC3, StoreIOC, SetTail, giveSteps, Copy, AllocFails, Input, Link,
         DisableInterrupt, StopDMA, ClearIOC, SetIOC, StartDMA, EnableInterrupt,
         linkSteps, vars, history
    <3>2. AppContextDesc' \in {1, AppContextDesc}
      BY DEF Next, Receive, IRQ, HAL_ETH_RxCpltCallback, ClearRI, EthIf, Wake,
         NoFrame, HAL_ETH_GetRxDataBuffer, HAL_ETH_BuildRxDescriptors, SetOWN,
         LoadDESC3, StoreIOC, SetTail, giveSteps, Copy, AllocFails, Input, Link,
         DisableInterrupt, StopDMA, ClearIOC, SetIOC, StartDMA, EnableInterrupt,
         linkSteps, vars, listVars
    <3> QED
      BY <1>2, <3>1, <3>2 DEF Sound
  <2>2. RingOK /\ LinkInv /\ NoLostWakeup
    BY <2>1 DEF IInv, RingOK
  <2>3. Ring' /\ Taken'
    BY <1>2, <2>2, ReceiveRing, TakeRing, BuildRing, OtherRing DEF Next, EthIf
  <2> QED
    BY <2>2, <2>3, WakeupStep
<1> QED
  BY <1>1, <1>2 DEF IInv

LEMMA Invariance == Spec => []IInv
  BY InitEstablishes, Step, PTL DEF Spec

(* The types hold for every ring of at least two descriptors. *)
THEOREM EthTypes == Spec => []TypeOK
<1>1. IInv => TypeOK
  BY DEF IInv
<1> QED
  BY Invariance, <1>1, PTL

(* Frames are handed over as received and in order: once it has been written, the
   tail pointer keeps the DMA off the descriptor that is being given back and whose
   frame is being copied. *)
THEOREM FramesIntact == Spec => []DeliveredIntact
<1>1. IInv => DeliveredIntact
  BY DEF IInv, Taken, DeliveredIntact
<1> QED
  BY Invariance, <1>1, PTL

(* EthIf does not sleep over a frame. *)
THEOREM WakeupKept == Spec => []NoLostWakeup
<1>1. IInv => NoLostWakeup
  BY DEF IInv, NoLostWakeup
<1> QED
  BY Invariance, <1>1, PTL

(* An empty ring is one the DMA can receive into. *)
THEOREM RingStaysReady == Spec => []RingReady
<1>1. IInv => RingReady
  <2> SUFFICES ASSUME IInv, Sound, waiting = <<>>, pc = "sleep"
               PROVE  own[dma] /\ dma # tail
    BY DEF RingReady
  <2>1. Ring /\ Taken /\ TypeOK /\ Len(waiting) = 0
    BY EmptySeq DEF IInv
  <2>2. dma = CurRxDesc /\ CurRxDesc \in Desc
    BY <2>1, RingAssumption DEF Ring, TypeOK, Desc
  <2>3. own[dma]
    BY <2>1, <2>2, RingAssumption DEF Ring, Dist, Desc
  <2>4. dma # tail
    BY <2>1, <2>2, RingAssumption DEF Taken, Giving, TypeOK, After, Desc
  <2> QED
    BY <2>3, <2>4
<1> QED
  BY Invariance, <1>1, PTL

-------------------------------------------------------------------------------
(* Where a context descriptor can come from *)

(* No descriptor that the driver is still to process has bit 30 set. *)
NoneForged ==
  ~refilled => AppContextDesc = 0 /\ \A d \in Desc : ~own[d] => ~bit30[d]

LEMMA ForgedBy == IInv /\ NoneForged /\ [Next]_vars /\ (SetIOC => waiting = <<>>) => NoneForged'
<1> SUFFICES ASSUME IInv, NoneForged, [Next]_vars, SetIOC => waiting = <<>>
             PROVE  NoneForged'
  OBVIOUS
<1>1. TypeOK /\ Count
  BY DEF IInv
<1>2. ASSUME UNCHANGED <<AppContextDesc, own, bit30, refilled>> PROVE NoneForged'
  BY <1>2 DEF NoneForged
<1>3. ASSUME NEW f \in Frame, Receive(f) PROVE NoneForged'
  BY <1>1, <1>3 DEF Receive, NoneForged, TypeOK, listVars
<1>4. CASE HAL_ETH_GetRxDataBuffer
  <2>1. ~refilled => ~ContextFollows
    BY <1>1, AfterDesc DEF ContextFollows, NoneForged, TypeOK
  <2>2. /\ refilled' = refilled /\ own' = own /\ bit30' = bit30
        /\ AppContextDesc' = IF ContextFollows THEN 1 ELSE AppContextDesc
    BY <1>4 DEF HAL_ETH_GetRxDataBuffer, ringVars
  <2> QED
    BY <2>1, <2>2 DEF NoneForged
<1>5. CASE HAL_ETH_BuildRxDescriptors
  <2>1. CASE SetOWN
    BY <1>1, <2>1 DEF SetOWN, giveSteps, history, NoneForged, TypeOK
  <2>2. CASE LoadDESC3 \/ SetTail
    BY <1>2, <2>2 DEF LoadDESC3, SetTail, giveSteps, history
  <2>3. CASE StoreIOC
    <3>1. ~refilled => desc3
      BY <2>3 DEF StoreIOC, IInv, NoneForged, Sound, Taken
    <3> QED
      BY <1>1, <2>3, <3>1 DEF StoreIOC, giveSteps, history, NoneForged, TypeOK
  <2> QED
    BY <1>5, <2>1, <2>2, <2>3 DEF HAL_ETH_BuildRxDescriptors
<1>6. CASE ClearIOC
  BY <1>1, <1>6 DEF ClearIOC, NoneForged, TypeOK, linkSteps, history
<1>7. CASE SetIOC
  <2>1. IsFiniteSet(Unprocessed) /\ Cardinality(Unprocessed) \in Nat
    BY DescFinite, FS_Subset, FS_CardinalityType DEF Unprocessed
  <2>3. pc = "sleep" /\ Len(waiting) = 0
    BY <1>7, EmptySeq DEF SetIOC, EthIfSleeps
  <2>4. Cardinality(Unprocessed) = 0
    BY <1>1, <2>1, <2>3 DEF Count
  <2>2. \A d \in Desc : own[d]
    BY <2>1, <2>4, FS_EmptySet DEF Unprocessed
  <2> QED
    BY <1>7, <2>2 DEF SetIOC, linkSteps, history, NoneForged
<1>8. CASE IRQ \/ Wake \/ NoFrame \/ Copy \/ AllocFails \/ Input
  BY <1>2, <1>8 DEF IRQ, HAL_ETH_RxCpltCallback, ClearRI, Wake, NoFrame, Copy, AllocFails,
     Input, ringVars, listVars, history
<1>9. CASE DisableInterrupt \/ StopDMA \/ StartDMA \/ EnableInterrupt
  BY <1>2, <1>9 DEF DisableInterrupt, StopDMA, StartDMA, EnableInterrupt, linkSteps, history
<1>10. CASE UNCHANGED vars
  BY <1>2, <1>10 DEF vars, ringVars, listVars, history
<1> QED
  BY <1>3, <1>4, <1>5, <1>6, <1>7, <1>8, <1>9, <1>10 DEF Next, EthIf, Link

(* The driver sees a context descriptor, none of which the DMA writes, in two ways
   only: reception is started while frames wait that EthIf has not processed, which
   is what the run of ContextIsReal shows (stm32h7xx_hal_eth.c:799-802); or the DMA
   fills a descriptor between OWN and IOC before the tail pointer was ever written
   (1429-1433). *)
THEOREM ContextsAreForged ==
  Spec /\ [][SetIOC => waiting = <<>>]_vars => [](~refilled => ContextIsReal)
<1>1. Init => NoneForged
  BY DEF Init, NoneForged
<1>2. IInv /\ NoneForged /\ [Next]_vars /\ [SetIOC => waiting = <<>>]_vars => NoneForged'
  <2>1. UNCHANGED vars /\ NoneForged => NoneForged'
    BY DEF vars, ringVars, listVars, history, NoneForged
  <2> QED
    BY <2>1, ForgedBy
<1>3. NoneForged => (~refilled => ContextIsReal)
  BY DEF NoneForged, ContextIsReal
<1> QED
  BY Invariance, <1>1, <1>2, <1>3, PTL DEF Spec

-------------------------------------------------------------------------------
(* What FrameTaken rests on: a frame comes nearer with every step. *)

(* A frame waits, and nothing excuses EthIf. *)
Pending ==
  /\ waiting # <<>> /\ pc # "build"
  /\ RIE /\ ~dropped /\ Sound

(* The steps left to the interrupt and to EthIf's task; each frame that arrives
   meanwhile brings two of the interrupt and takes a descriptor. *)
InterruptSteps == IF isr = "clear" THEN 1 ELSE IF RI THEN 2 ELSE 0

TaskSteps ==
  IF pc = "load" THEN 6
  ELSE IF pc = "store" THEN 5
  ELSE IF pc = "tail" THEN 4
  ELSE IF pc = "copy" THEN 3
  ELSE IF pc = "input" THEN 2
  ELSE IF pc = "take" THEN 1
  ELSE 3 - RxPktSemaphore

Distance == 3 * (ETH_RX_DESC_CNT - Len(waiting)) + InterruptSteps + TaskSteps

(* The interrupt or EthIf can go on. *)
NotStuck == isr = "clear" \/ RI \/ pc # "sleep" \/ RxPktSemaphore = 1

LEMMA ComesNearer ==
  ASSUME IInv, Pending, Next
  PROVE  ~Pending' \/ Distance' < Distance
<1>1. /\ RingOK /\ LinkInv /\ Len(waiting) \in Nat /\ Len(waiting) <= ETH_RX_DESC_CNT
      /\ ETH_RX_DESC_CNT \in Nat
  BY LenProperties, RingAssumption DEF IInv, Pending, RingOK, Ring, TypeOK
<1>2. RI \in BOOLEAN /\ isr \in {"idle", "clear"} /\ RxPktSemaphore \in {0, 1}
      /\ pc \in {"sleep", "take", "build", "load", "store", "tail", "copy", "input"}
  BY <1>1 DEF RingOK, TypeOK
<1>3. ASSUME NEW f \in Frame, Receive(f) PROVE Distance' < Distance
  <2>1. Len(waiting') = Len(waiting) + 1
    BY <1>1, <1>3, AppendProperties DEF Receive, RingOK, TypeOK
  <2>2. InterruptSteps' <= InterruptSteps + 2 /\ InterruptSteps \in Nat /\ InterruptSteps' \in Nat
    BY <1>3 DEF Receive, taskVars, InterruptSteps
  <2>3. TaskSteps' = TaskSteps /\ TaskSteps \in Nat
    BY <1>2, <1>3 DEF Receive, taskVars, TaskSteps
  <2> QED
    BY <1>1, <2>1, <2>2, <2>3 DEF Distance
<1>4. ASSUME waiting' = waiting, InterruptSteps' + TaskSteps' < InterruptSteps + TaskSteps
      PROVE  Distance' < Distance
  <2>1. /\ InterruptSteps \in Int /\ InterruptSteps' \in Int
        /\ TaskSteps \in Int /\ TaskSteps' \in Int
    <3>1. TypeOK'
      BY TypeStep DEF IInv
    <3>2. RxPktSemaphore' \in {0, 1} /\ RI' \in BOOLEAN
      BY <3>1 DEF TypeOK
    <3>3. TaskSteps \in Int /\ TaskSteps' \in Int
      BY <1>2, <3>2 DEF TaskSteps
    <3> QED
      BY <1>2, <3>2, <3>3 DEF InterruptSteps
  <2>2. ASSUME NEW k \in Int, NEW a \in Int, NEW b \in Int, NEW c \in Int, NEW d \in Int,
               c + d < a + b
        PROVE  3 * k + c + d < 3 * k + a + b
    BY <2>2
  <2>3. ETH_RX_DESC_CNT - Len(waiting) \in Int
    BY <1>1
  <2>4. /\ Distance = 3 * (ETH_RX_DESC_CNT - Len(waiting)) + InterruptSteps + TaskSteps
        /\ Distance' = 3 * (ETH_RX_DESC_CNT - Len(waiting)) + InterruptSteps' + TaskSteps'
    BY <1>4 DEF Distance
  <2> QED
    BY <1>4, <2>1, <2>2, <2>3, <2>4
<1>5. CASE HAL_ETH_RxCpltCallback
  BY <1>2, <1>4, <1>5 DEF HAL_ETH_RxCpltCallback, InterruptSteps, TaskSteps, irqVars, history
<1>6. CASE ClearRI
  BY <1>2, <1>4, <1>6 DEF ClearRI, InterruptSteps, TaskSteps, history
<1>7. CASE Wake \/ Copy \/ Input
  BY <1>2, <1>4, <1>7 DEF Wake, Copy, Input, InterruptSteps, TaskSteps, irqVars, history
<1>8. CASE AllocFails
  BY <1>8 DEF AllocFails, Pending
<1>9. CASE NoFrame
  <2>1. Len(waiting) > 0 /\ CurRxDesc \in Desc
    BY <1>1, EmptySeq DEF Pending, RingOK, TypeOK
  <2>2. Dist(CurRxDesc) = 0
    BY <2>1, RingAssumption DEF Dist, Desc
  <2> QED
    BY <1>1, <1>9, <2>1, <2>2 DEF NoFrame, RingOK, Ring
<1>10. CASE HAL_ETH_GetRxDataBuffer
  BY <1>10 DEF HAL_ETH_GetRxDataBuffer, Pending
<1>11. CASE HAL_ETH_BuildRxDescriptors
  <2>1. ~(descscan < AppContextDesc) /\ pc # "build"
    BY DEF IInv, Pending, Sound, Count, TypeOK
  <2>2. CASE LoadDESC3
    BY <1>2, <1>4, <2>2 DEF LoadDESC3, giveSteps, InterruptSteps, TaskSteps, irqVars, history
  <2>3. CASE StoreIOC
    BY <1>2, <1>4, <2>1, <2>3 DEF StoreIOC, NextPass, giveSteps, InterruptSteps, TaskSteps,
       irqVars, history
  <2>4. CASE SetTail
    BY <1>2, <1>4, <2>4 DEF SetTail, giveSteps, InterruptSteps, TaskSteps, irqVars, history
  <2> QED
    BY <1>11, <2>1, <2>2, <2>3, <2>4 DEF HAL_ETH_BuildRxDescriptors, SetOWN
<1>12. CASE Link
  BY <1>1, <1>12 DEF Link, DisableInterrupt, StopDMA, ClearIOC, SetIOC, StartDMA, EnableInterrupt,
     LinkInv, Pending
<1> QED
  BY <1>3, <1>5, <1>6, <1>7, <1>8, <1>9, <1>10, <1>11, <1>12 DEF Next, IRQ, EthIf

(* While a frame waits the interrupt or EthIf can go on, and every step of
   anyone brings the frame nearer, unless it is taken, reception is being stopped,
   memory is short or a context descriptor is seen: in at most 3 * ETH_RX_DESC_CNT
   + 5 steps one of these happens, however many frames arrive meanwhile.  This is
   FrameTaken without the fairness (ethernetif.c:581-601). *)
THEOREM FrameComesNearer ==
  Spec => /\ [](Pending => NotStuck /\ Distance \in 0 .. 3 * ETH_RX_DESC_CNT + 5)
          /\ [][Pending => ~Pending' \/ Distance' < Distance]_vars
<1>1. IInv /\ Pending => NotStuck /\ Distance \in 0 .. 3 * ETH_RX_DESC_CNT + 5
  <2> SUFFICES ASSUME IInv, Pending
               PROVE  NotStuck /\ Distance \in 0 .. 3 * ETH_RX_DESC_CNT + 5
    OBVIOUS
  <2>1. /\ Len(waiting) \in Nat /\ Len(waiting) <= ETH_RX_DESC_CNT /\ ETH_RX_DESC_CNT \in Nat
        /\ RI \in BOOLEAN /\ isr \in {"idle", "clear"} /\ RxPktSemaphore \in {0, 1}
    BY LenProperties, RingAssumption DEF IInv, Pending, Ring, TypeOK
  <2>2. InterruptSteps \in 0 .. 2 /\ TaskSteps \in 1 .. 6 /\ Len(waiting) >= 1
    BY <2>1, EmptySeq DEF InterruptSteps, TaskSteps, IInv, TypeOK, Pending
  <2>3. Distance \in 0 .. 3 * ETH_RX_DESC_CNT + 5
    BY <2>1, <2>2 DEF Distance
  <2>4. NotStuck
    BY <2>1 DEF IInv, Pending, NoLostWakeup, NotStuck
  <2> QED
    BY <2>3, <2>4
<1>2. IInv /\ [Next]_vars => [Pending => ~Pending' \/ Distance' < Distance]_vars
  <2>1. IInv /\ Next => (Pending => ~Pending' \/ Distance' < Distance)
    BY ComesNearer
  <2> QED
    BY <2>1
<1> QED
  BY Invariance, <1>1, <1>2, PTL DEF Spec
===============================================================================
