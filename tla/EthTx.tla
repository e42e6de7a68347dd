-------------------------------- MODULE EthTx --------------------------------
(***************************************************************************)
(* Transmission of Ethernet frames: low_level_output (Src/ethernetif.c) and  *)
(* HAL_ETH_Transmit (stm32h7xx_hal_eth.c), the ring of descriptors and the   *)
(* DMA, and the link thread, which stops and starts the DMA.                *)
(*                                                                         *)
(* Three parties send: whoever holds lwIP's core lock, the link thread       *)
(* (netif_set_link_up announces the address) and DHCP_Thread (dhcp_start and *)
(* dhcp_stop), the last two without that lock.  A call polls until its frame *)
(* is out and never blocks, so a thread is interrupted only by threads of    *)
(* higher priority, and goes on when they have left the driver.             *)
(*                                                                         *)
(* A thread may be interrupted while it polls, and the other's frame goes    *)
(* into the ring behind its own.  When it is interrupted before, between the *)
(* store to TxConfig and that to the tail pointer, the two mix up TxConfig,  *)
(* CurTxDesc and the descriptors; the model goes as far as that (overlapped) *)
(* and no further.                                                         *)
(***************************************************************************)
EXTENDS Naturals

CONSTANTS
  Threads,          (* the senders are 1 .. Threads, by priority *)
  LinkThread,
  ETH_TX_DESC_CNT,  (* number of descriptors, and of pbufs a frame may have *)
  Lengths           (* the numbers of pbufs of the frames sent *)

ASSUME SendersAssumption == Threads \in Nat /\ LinkThread \in 1 .. Threads
ASSUME TxRingAssumption == ETH_TX_DESC_CNT \in Nat /\ ETH_TX_DESC_CNT >= 2
ASSUME LengthsAssumption == Lengths \subseteq 1 .. ETH_TX_DESC_CNT

Thread == 1 .. Threads
Desc == 0 .. ETH_TX_DESC_CNT - 1
Size == 1 .. ETH_TX_DESC_CNT     (* pbufs of a frame *)

VARIABLES
  (* the descriptors: OWN, which gives one to the DMA, and the rest *)
  own, desc,
  (* the DMA: whether it runs, its position, the tail pointer (DMACTDTPR), and
     what it has read of the present frame *)
  st, dma, tail, line,
  (* heth *)
  CurTxDesc, gState,
  (* the threads: where each is, the pbufs of its frame, and the locals of
     ETH_Prepare_Tx_Descriptors *)
  pc, size, loc,
  (* history: a frame went out that was not the parts of one frame, in order;
     the first descriptor of a frame went without its mark; memory was sent whose
     call had returned; a wait was given up; a call began while another was
     filling descriptors *)
  mixed, unmarked, stale, late, overlapped

dmaVars == <<st, dma, tail, line>>
history == <<mixed, unmarked, stale, late, overlapped>>
vars == <<own, desc, dmaVars, CurTxDesc, gState, pc, size, loc, history>>

(* A descriptor points at parts from .. to of the n parts of the frame of a
   thread, the first or the last of them; gone when that call has returned.  The
   contents of one that the DMA does not own are of no account: Unused. *)
Content == [of : Thread, n : Size, from : Size, to : Size,
            fd : BOOLEAN, ld : BOOLEAN, gone : BOOLEAN]
Unused == [of |-> 1, n |-> 1, from |-> 1, to |-> 1, fd |-> FALSE, ld |-> FALSE, gone |-> FALSE]

(* The DMA has read the first k parts of a frame, or pieces of several. *)
Line == [of : Thread, n : Size, k : 0 .. ETH_TX_DESC_CNT, whole : BOOLEAN]
NoLine == [of |-> 1, n |-> 1, k |-> 0, whole |-> TRUE]

Locals == [first : Desc, descidx : Desc, k : 0 .. ETH_TX_DESC_CNT]
NoLocals == [first |-> 0, descidx |-> 0, k |-> 0]

TypeOK ==
  /\ own \in [Desc -> BOOLEAN] /\ desc \in [Desc -> Content]
  /\ st \in BOOLEAN /\ dma \in Desc /\ tail \in Desc /\ line \in Line
  /\ CurTxDesc \in Desc /\ gState \in {"READY", "BUSY"}
  /\ pc \in [Thread -> {"idle", "check", "fill", "next", "publish", "wait", "stop", "start"}]
  /\ size \in [Thread -> Size] /\ loc \in [Thread -> Locals]
  /\ mixed \in BOOLEAN /\ unmarked \in BOOLEAN
  /\ stale \in BOOLEAN /\ late \in BOOLEAN /\ overlapped \in BOOLEAN

(* low_level_init before its HAL_ETH_Start_IT *)
Init ==
  /\ own = [d \in Desc |-> FALSE] /\ desc = [d \in Desc |-> Unused]
  /\ st = FALSE /\ dma = 0 /\ tail = 0 /\ line = NoLine
  /\ CurTxDesc = 0 /\ gState = "READY"
  /\ pc = [t \in Thread |-> "idle"] /\ size = [t \in Thread |-> 1]
  /\ loc = [t \in Thread |-> NoLocals]
  /\ mixed = FALSE /\ unmarked = FALSE /\ stale = FALSE /\ late = FALSE /\ overlapped = FALSE

-------------------------------------------------------------------------------
(* INCR_TX_DESC_INDEX(d, 1) *)
After(d) == IF d + 1 = ETH_TX_DESC_CNT THEN 0 ELSE d + 1

Goto(t, p) == pc' = [pc EXCEPT ![t] = p]

Filling(t) == pc[t] \in {"check", "fill", "next", "publish"}

(* No thread above t is in the driver. *)
Runs(t, p) == pc[t] = p /\ \A u \in Thread : u > t => pc[u] = "idle"

(* The call returns, with c in the descriptors, and lwIP may free the frame and
   use its memory again. *)
Return(t, c) ==
  /\ Goto(t, "idle")
  /\ desc' = [d \in Desc |-> IF ~own'[d] THEN Unused
                              ELSE IF c[d].of = t THEN [c[d] EXCEPT !.gone = TRUE]
                              ELSE c[d]]
  /\ size' = [size EXCEPT ![t] = 1] /\ loc' = [loc EXCEPT ![t] = NoLocals]

(* A frame of more pbufs than there are descriptors is refused before it
   changes anything. *)
low_level_output(t, n) ==
  /\ Runs(t, "idle") /\ Goto(t, "check")
  /\ size' = [size EXCEPT ![t] = n]
  /\ overlapped' = (overlapped \/ \E u \in Thread : Filling(u))
  /\ UNCHANGED <<own, desc, dmaVars, CurTxDesc, gState, loc, mixed, unmarked, stale, late>>

(* HAL_ETH_Transmit is refused, or goes on to fill descriptors from CurTxDesc. *)
HAL_ETH_Transmit(t) ==
  /\ Runs(t, "check") /\ UNCHANGED own
  /\ IF gState # "READY" \/ own[CurTxDesc] THEN Return(t, desc)
     ELSE /\ Goto(t, "fill")
          /\ loc' = [loc EXCEPT ![t] =
                       [first |-> CurTxDesc, descidx |-> CurTxDesc, k |-> 0]]
          /\ UNCHANGED <<desc, size>>
  /\ UNCHANGED <<dmaVars, CurTxDesc, gState, history>>

Smaller(m, n) == IF m < n THEN m ELSE n

(* A descriptor takes two buffers. *)
Fill(t) ==
  LET l == loc[t]
      to == Smaller(l.k + 2, size[t])
  IN /\ Runs(t, "fill")
     /\ desc' = [desc EXCEPT ![l.descidx] =
          [of |-> t, n |-> size[t], from |-> l.k + 1, to |-> to,
           fd |-> l.descidx = l.first, ld |-> to = size[t], gone |-> FALSE]]
     /\ own' = [own EXCEPT ![l.descidx] = TRUE]
     /\ loc' = [loc EXCEPT ![t].k = to]
     /\ Goto(t, IF to = size[t] THEN "publish" ELSE "next")
     /\ UNCHANGED <<dmaVars, CurTxDesc, gState, size, history>>

(* The descriptors from a to b, going round *)
Span(a, b) == IF a <= b THEN a .. b ELSE Desc \ (b + 1 .. a - 1)

(* The OWN bits once a further descriptor is found in use *)
Undone_OneMore(t) ==
  [d \in Desc |-> own[d] /\ d \notin Span(loc[t].first, After(loc[t].descidx))]
Undone(t) ==
  [d \in Desc |-> own[d] /\ d \notin Span(loc[t].first, loc[t].descidx)]

(* The mark of a first descriptor is cleared from the next one before its OWN is
   looked at. *)
Cleared(next) == [desc EXCEPT ![next].fd = FALSE]

NextDescriptor(t) ==
  LET next == After(loc[t].descidx)
  IN /\ Runs(t, "next")
     /\ IF own[next] THEN own' = Undone(t) /\ Return(t, Cleared(next))
        ELSE /\ loc' = [loc EXCEPT ![t].descidx = next]
             /\ Goto(t, "fill")
             /\ desc' = Cleared(next)
             /\ UNCHANGED <<own, size>>
     /\ UNCHANGED <<dmaVars, CurTxDesc, gState, history>>

(* CurTxDesc is set to the last descriptor, then past it, and so is the tail. *)
Tail_Last(t) == loc[t].descidx
Tail(t) == After(loc[t].descidx)

Publish(t) ==
  /\ Runs(t, "publish") /\ Goto(t, "wait")
  /\ CurTxDesc' = After(loc[t].descidx)
  /\ tail' = Tail(t)
  /\ UNCHANGED <<own, desc, st, dma, line, gState, size, loc, history>>

(* dmatxdesc *)
Awaited_First(t) == loc[t].first
Awaited_Next(t) == After(loc[t].descidx)
Awaited(t) == loc[t].descidx

(* gState, BUSY when the wait is inside HAL_ETH_Stop_IT or Start_IT, is set to
   READY however the wait ends. *)
WaitEnds(t) ==
  /\ Runs(t, "wait") /\ UNCHANGED own /\ Return(t, desc) /\ gState' = "READY"
  /\ late' = (late \/ own[Awaited(t)])
  /\ UNCHANGED <<dmaVars, CurTxDesc, mixed, unmarked, stale, overlapped>>

-------------------------------------------------------------------------------
(* The DMA reads the descriptor it has come to.  It does not go past the tail
   pointer. *)
Read(c) ==
  LET goesOn == line.of = c.of /\ line.n = c.n /\ c.from = line.k + 1
  IN [of |-> c.of, n |-> c.n, k |-> c.to,
      whole |-> IF line.k = 0 THEN c.from = 1 ELSE line.whole /\ goesOn]

Transmit ==
  LET c == desc[dma]
  IN /\ st /\ own[dma] /\ dma # tail
     /\ own' = [own EXCEPT ![dma] = FALSE] /\ desc' = [desc EXCEPT ![dma] = Unused]
     /\ dma' = After(dma)
     /\ line' = IF c.ld THEN NoLine ELSE Read(c)
     /\ mixed' = (mixed \/ (c.ld /\ ~(Read(c).whole /\ c.to = c.n)))
     /\ unmarked' = (unmarked \/ c.fd # (c.from = 1))
     /\ stale' = (stale \/ c.gone)
     /\ UNCHANGED <<st, tail, CurTxDesc, gState, pc, size, loc,
                    late, overlapped>>

(* HAL_ETH_Stop_IT and HAL_ETH_Start_IT leave the ring as it is. *)
HAL_ETH_Stop_IT ==
  \/ /\ Runs(LinkThread, "idle") /\ st
     /\ gState' = "BUSY" /\ Goto(LinkThread, "stop") /\ UNCHANGED st
  \/ /\ Runs(LinkThread, "stop")
     /\ st' = FALSE /\ gState' = "READY" /\ Goto(LinkThread, "idle")

HAL_ETH_Start_IT ==
  \/ /\ Runs(LinkThread, "idle") /\ ~st /\ gState = "READY"
     /\ gState' = "BUSY" /\ Goto(LinkThread, "start") /\ UNCHANGED st
  \/ /\ Runs(LinkThread, "start")
     /\ st' = TRUE /\ gState' = "READY" /\ Goto(LinkThread, "idle")

LinkChange ==
  /\ HAL_ETH_Stop_IT \/ HAL_ETH_Start_IT
  /\ UNCHANGED <<own, desc, dma, tail, line, CurTxDesc, size, loc, history>>

Next ==
  \/ Transmit \/ LinkChange
  \/ \E t \in Thread :
       \/ \E n \in Lengths : low_level_output(t, n)
       \/ HAL_ETH_Transmit(t) \/ Fill(t) \/ NextDescriptor(t) \/ Publish(t) \/ WaitEnds(t)

Spec == Init /\ [][Next]_vars

-------------------------------------------------------------------------------
(* What should hold until two threads meet in the driver: there is no lock to
   keep them from it. *)

(* What goes out is the parts of one frame in order, also when earlier frames
   were given up and are still in the ring (stm32h7xx_hal_eth.c:2866-2947). *)
FramesWhole == mixed => overlapped

(* stm32h7xx_hal_eth.c:2878 says of a descriptor that is "Owned by DMA: cannot be
   used by the application": no call touches one of another frame. *)
FirstMarked == unmarked => overlapped

(* The DMA reads no memory that its owner has taken back, unless a wait was given
   up, which leaves the descriptor with the DMA (stm32h7xx_hal_eth.c:999-1003):
   a frame of the old link goes out on the next one. *)
SentIntact == stale => late \/ overlapped

(* A frame is refused for want of descriptors only after a wait was given up,
   or when two other calls are waiting with their frames in the ring
   (stm32h7xx_hal_eth.c:2727 and 2879). *)
FindsRoom ==
  \A t \in Thread :
    \/ pc[t] = "check" /\ own[CurTxDesc]
    \/ pc[t] = "next" /\ own[After(loc[t].descidx)]
    => \/ late \/ overlapped
       \/ \E u, v \in Thread : u # v /\ pc[u] = "wait" /\ pc[v] = "wait"

(* The DMA, once it runs, sends what is in the ring, whatever was given up or
   refused before; unless every descriptor is in the ring, when the tail pointer
   is where the DMA is, nothing moves it any more, and no frame is sent again. *)
StallsOnlyFull ==
  /\ own[dma] /\ dma = tail /\ ~overlapped
  /\ \A t \in Thread : ~Filling(t)
  => \A d \in Desc : own[d]

(* Bound: behaviours are followed to the first overlap. *)
NoOverlapYet == ~overlapped
===============================================================================
