----------------------------- MODULE EthTxProofs -----------------------------
(***************************************************************************)
(* The safety properties of EthTx for any number of senders, every ring of  *)
(* at least two descriptors and every set of frames.                       *)
(***************************************************************************)
EXTENDS EthTx, Integers, TLAPS

-------------------------------------------------------------------------------
(* The inductive invariant *)

(* How far b is ahead of a in the ring *)
Gap(a, b) == IF a <= b THEN b - a ELSE b - a + ETH_TX_DESC_CNT

InRing(t) == pc[t] \in {"fill", "next", "publish"}

(* A call that has a descriptor still to fill has parts left for it. *)
PartsLeft == \A t \in Thread : pc[t] \in {"fill", "next"} => loc[t].k < size[t]

(* Until two calls fill descriptors at once, one fills them. *)
Alone == \A t, u \in Thread : Filling(t) /\ Filling(u) => t = u

(* From its position on, the DMA owns m descriptors that were published and q
   that a call has filled since, and no others. *)
Owned(m, q) ==
  /\ m + q <= ETH_TX_DESC_CNT
  /\ CurTxDesc = tail
  /\ Gap(dma, tail) = m \/ (m = ETH_TX_DESC_CNT /\ tail = dma)
  /\ \A d \in Desc : own[d] <=> Gap(dma, d) < m + q

(* Where the call is that fills descriptors *)
Filler(m, q) ==
  /\ (\A t \in Thread : ~InRing(t)) => q = 0
  /\ \A t \in Thread : InRing(t) =>
       /\ loc[t].first = tail /\ m < ETH_TX_DESC_CNT
       /\ pc[t] = "fill" => /\ Gap(loc[t].first, loc[t].descidx) = q
                            /\ m + q < ETH_TX_DESC_CNT /\ loc[t].k = 2 * q
       /\ pc[t] # "fill" => /\ Gap(loc[t].first, loc[t].descidx) = q - 1 /\ q >= 1
                            /\ 2 * (q - 1) < size[t]
       /\ pc[t] = "next" => loc[t].k = 2 * q
       /\ pc[t] = "publish" => loc[t].k = size[t]

WellFormed(c) == c.to = Smaller(c.from + 1, c.n) /\ (c.ld <=> c.to = c.n)

(* c is the descriptor after b. *)
Follows(b, c) ==
  IF b.ld THEN c.from = 1 ELSE c.of = b.of /\ c.n = b.n /\ c.from = b.to + 1

(* c is what the DMA expects next. *)
Continues(c) ==
  IF line.k = 0 THEN c.from = 1
  ELSE line.whole /\ line.of = c.of /\ line.n = c.n /\ c.from = line.k + 1

(* What the DMA owns is whole frames, one after another, the first of them
   perhaps begun; the last of those published is complete. *)
Frames(m) ==
  /\ \A d \in Desc : own[d] => WellFormed(desc[d])
  /\ \A d \in Desc :
       own[d] /\ own[After(d)] /\ After(d) # dma => Follows(desc[d], desc[After(d)])
  /\ own[dma] => Continues(desc[dma])
  /\ m = 0 => line.k = 0
  /\ \A d \in Desc : m > 0 /\ Gap(dma, d) = m - 1 => desc[d].ld

(* Behind them is the part that a call has filled. *)
Unfinished(m, q) ==
  \A t \in Thread, d \in Desc :
    InRing(t) /\ q > 0 /\ Gap(dma, d) = m + q - 1 =>
      desc[d].of = t /\ desc[d].n = size[t] /\ desc[d].to = loc[t].k

(* Before a wait is given up, every descriptor of the DMA belongs to a call that
   fills or that waits for a later one. *)
Owner(d, m) ==
  LET t == desc[d].of
  IN /\ ~desc[d].gone
     /\ pc[t] = "wait" \/ InRing(t)
     /\ Gap(loc[t].first, d) <= Gap(loc[t].first, loc[t].descidx)
     /\ pc[t] = "wait" => /\ Gap(dma, d) <= Gap(dma, loc[t].descidx)
                          /\ Gap(dma, loc[t].descidx) < m
     /\ InRing(t) => Gap(dma, d) >= m

Waiting(t) == pc[t] = "wait" => 2 * Gap(loc[t].first, loc[t].descidx) < size[t]

Owners(m) ==
  /\ \A d \in Desc : own[d] => Owner(d, m)
  /\ \A t \in Thread : Waiting(t)

Good(m, q) == Owned(m, q) /\ Filler(m, q) /\ Frames(m) /\ Unfinished(m, q)

Safe ==
  /\ Alone /\ ~mixed
  /\ \E m, q \in 0 .. ETH_TX_DESC_CNT : Good(m, q) /\ (~late => ~stale /\ Owners(m))

IInv == TypeOK /\ PartsLeft /\ (~overlapped => Safe)

-------------------------------------------------------------------------------
(* Arithmetic of the ring *)

LEMMA GapFacts ==
  ASSUME NEW a \in Desc, NEW b \in Desc
  PROVE  /\ Gap(a, b) \in Desc /\ Gap(a, b) \in Nat /\ Gap(a, b) < ETH_TX_DESC_CNT
         /\ Gap(a, b) = 0 <=> a = b
         /\ \A c \in Desc : Gap(a, b) = Gap(a, c) => b = c
BY TxRingAssumption DEF Gap, Desc

LEMMA AfterFacts ==
  ASSUME NEW a \in Desc, NEW b \in Desc
  PROVE  /\ After(b) \in Desc /\ After(b) # b
         /\ Gap(a, b) + 1 < ETH_TX_DESC_CNT => Gap(a, After(b)) = Gap(a, b) + 1
         /\ Gap(a, b) + 1 = ETH_TX_DESC_CNT => After(b) = a
BY TxRingAssumption DEF Gap, Desc, After

(* The gaps after the DMA has gone on *)
LEMMA GoingOn ==
  ASSUME NEW a \in Desc, NEW b \in Desc
  PROVE  Gap(After(a), b) = IF b = a THEN ETH_TX_DESC_CNT - 1 ELSE Gap(a, b) - 1
BY TxRingAssumption DEF Gap, Desc, After

LEMMA GapSum ==
  ASSUME NEW a \in Desc, NEW b \in Desc, NEW c \in Desc
  PROVE  Gap(a, c) = IF Gap(a, b) + Gap(b, c) < ETH_TX_DESC_CNT
                     THEN Gap(a, b) + Gap(b, c)
                     ELSE Gap(a, b) + Gap(b, c) - ETH_TX_DESC_CNT
BY TxRingAssumption DEF Gap, Desc

(* There is a descriptor at every distance. *)
LEMMA AtGap ==
  ASSUME NEW a \in Desc, NEW g \in Desc
  PROVE  \E d \in Desc : Gap(a, d) = g
<1>1. CASE a + g < ETH_TX_DESC_CNT
  <2>1. a + g \in Desc /\ Gap(a, a + g) = g
    BY <1>1, TxRingAssumption DEF Gap, Desc
  <2> QED
    BY <2>1
<1>2. CASE a + g >= ETH_TX_DESC_CNT
  <2>1. a + g - ETH_TX_DESC_CNT \in Desc /\ Gap(a, a + g - ETH_TX_DESC_CNT) = g
    BY <1>2, TxRingAssumption DEF Gap, Desc
  <2> QED
    BY <2>1
<1> QED
  BY <1>1, <1>2, TxRingAssumption DEF Desc

(* The descriptors of a call are those from its first to its last. *)
LEMMA SpanIs ==
  ASSUME NEW a \in Desc, NEW b \in Desc
  PROVE  \A d \in Desc : d \in Span(a, b) <=> Gap(a, d) <= Gap(a, b)
BY TxRingAssumption DEF Gap, Desc, Span

-------------------------------------------------------------------------------
(* Types *)

LEMMA SenderFacts == Threads \in Nat /\ LinkThread \in Thread
BY SendersAssumption DEF Thread

LEMMA InitTypes == Init => TypeOK /\ PartsLeft
<1> SUFFICES ASSUME Init PROVE TypeOK /\ PartsLeft
  OBVIOUS
<1> USE TxRingAssumption DEF Init
<1>1. 0 \in Desc /\ 0 \in 0 .. ETH_TX_DESC_CNT /\ 1 \in Size
  BY DEF Desc, Size
<1>2. NoLocals \in Locals
  BY <1>1 DEF NoLocals, Locals
<1>3. CASE Thread = {}
  BY <1>3, SendersAssumption DEF Thread
<1>4. CASE Thread # {}
  <2>1. 1 \in Thread
    BY SendersAssumption DEF Thread
  <2>2. Unused \in Content /\ NoLine \in Line
    BY <1>1, <2>1 DEF Unused, Content, NoLine, Line
  <2> QED
    BY <1>1, <1>2, <2>2 DEF TypeOK, PartsLeft
<1> QED
  BY <1>3, <1>4

(* What the records are, field by field *)
LEMMA ContentIs ==
  ASSUME NEW c \in Content
  PROVE  /\ c.of \in Thread /\ c.n \in Size /\ c.from \in Size /\ c.to \in Size
         /\ c.fd \in BOOLEAN /\ c.ld \in BOOLEAN /\ c.gone \in BOOLEAN
BY DEF Content

LEMMA MarksOnly ==
  ASSUME NEW c \in Content
  PROVE  /\ [c EXCEPT !.gone = TRUE] \in Content /\ [c EXCEPT !.fd = FALSE] \in Content
         /\ [c EXCEPT !.gone = TRUE].of = c.of /\ [c EXCEPT !.gone = TRUE].n = c.n
         /\ [c EXCEPT !.gone = TRUE].from = c.from /\ [c EXCEPT !.gone = TRUE].to = c.to
         /\ [c EXCEPT !.gone = TRUE].ld = c.ld
         /\ [c EXCEPT !.fd = FALSE].of = c.of /\ [c EXCEPT !.fd = FALSE].n = c.n
         /\ [c EXCEPT !.fd = FALSE].from = c.from /\ [c EXCEPT !.fd = FALSE].to = c.to
         /\ [c EXCEPT !.fd = FALSE].ld = c.ld /\ [c EXCEPT !.fd = FALSE].gone = c.gone
BY DEF Content

LEMMA UnusedIs == Unused \in Content /\ NoLine \in Line /\ NoLocals \in Locals /\ 1 \in Size
<1>1. 0 \in Desc /\ 0 \in 0 .. ETH_TX_DESC_CNT /\ 1 \in Size /\ 1 \in Thread
  BY TxRingAssumption, SendersAssumption DEF Desc, Size, Thread
<1> QED
  BY <1>1 DEF Unused, Content, NoLine, Line, NoLocals, Locals

(* What a descriptor holds that goes on being the DMA's *)
Alike(b, c) == b.of = c.of /\ b.n = c.n /\ b.from = c.from /\ b.to = c.to /\ b.ld = c.ld

(* A return leaves the frames in the ring as they are, but for their memory. *)
LEMMA ReturnIs ==
  ASSUME TypeOK, NEW t \in Thread, NEW c \in [Desc -> Content], own' \in [Desc -> BOOLEAN],
         Return(t, c)
  PROVE  /\ pc' = [pc EXCEPT ![t] = "idle"]
         /\ desc' \in [Desc -> Content] /\ size' \in [Thread -> Size] /\ loc' \in [Thread -> Locals]
         /\ \A u \in Thread : u # t => size'[u] = size[u] /\ loc'[u] = loc[u]
         /\ \A d \in Desc : own'[d] =>
              Alike(desc'[d], c[d]) /\ (c[d].of # t => desc'[d].gone = c[d].gone)
<1>1. \A d \in Desc :
        /\ c[d] \in Content
        /\ desc'[d] = IF ~own'[d] THEN Unused
                      ELSE IF c[d].of = t THEN [c[d] EXCEPT !.gone = TRUE] ELSE c[d]
  BY DEF Return
<1>2. ASSUME NEW d \in Desc
      PROVE  /\ desc'[d] \in Content
             /\ own'[d] => Alike(desc'[d], c[d]) /\ (c[d].of # t => desc'[d].gone = c[d].gone)
  <2> DEFINE b == [c[d] EXCEPT !.gone = TRUE]
  <2>1. c[d] \in Content /\ b \in Content /\ Alike(b, c[d])
    BY <1>1, MarksOnly DEF Alike
  <2>2. desc'[d] = IF ~own'[d] THEN Unused ELSE IF c[d].of = t THEN b ELSE c[d]
    BY <1>1
  <2>3. Alike(c[d], c[d])
    BY DEF Alike
  <2> HIDE DEF b
  <2> QED
    BY <2>1, <2>2, <2>3, UnusedIs
<1>4. desc' = [d \in Desc |-> desc'[d]]
  BY DEF Return
<1>5. desc' \in [Desc -> Content]
  BY <1>2, <1>4
<1>6. pc' = [pc EXCEPT ![t] = "idle"]
  BY DEF Return, Goto
<1>7. /\ size' \in [Thread -> Size] /\ loc' \in [Thread -> Locals]
      /\ \A u \in Thread : u # t => size'[u] = size[u] /\ loc'[u] = loc[u]
  BY UnusedIs DEF Return, TypeOK
<1>8. \A d \in Desc : own'[d] =>
        Alike(desc'[d], c[d]) /\ (c[d].of # t => desc'[d].gone = c[d].gone)
  BY <1>2
<1> QED
  BY <1>5, <1>6, <1>7, <1>8

Typed == TypeOK /\ PartsLeft

LEMMA AfterTypes == \A d \in Desc : After(d) \in Desc
BY AfterFacts

LEMMA TypesCall ==
  ASSUME Typed, NEW t \in Thread, NEW n \in Lengths, low_level_output(t, n)
  PROVE  Typed'
<1>1. n \in Size
  BY LengthsAssumption DEF Size
<1>2. /\ pc' = [pc EXCEPT ![t] = "check"] /\ size' = [size EXCEPT ![t] = n]
      /\ overlapped' \in BOOLEAN
      /\ UNCHANGED <<own, desc, dmaVars, CurTxDesc, gState, loc, mixed, unmarked, stale, late>>
  BY DEF low_level_output, Goto, Typed, TypeOK
<1>3. TypeOK'
  BY <1>1, <1>2 DEF Typed, TypeOK, dmaVars
<1>4. PartsLeft'
  BY <1>2 DEF Typed, TypeOK, PartsLeft
<1> QED
  BY <1>3, <1>4 DEF Typed

LEMMA TypesReturn ==
  ASSUME Typed, NEW t \in Thread, NEW c \in [Desc -> Content], own' \in [Desc -> BOOLEAN],
         Return(t, c), UNCHANGED <<dmaVars, CurTxDesc, mixed, unmarked, stale, overlapped>>,
         late' \in BOOLEAN, gState' \in {"READY", "BUSY"}
  PROVE  Typed'
<1>1. /\ pc' = [pc EXCEPT ![t] = "idle"]
      /\ desc' \in [Desc -> Content] /\ size' \in [Thread -> Size] /\ loc' \in [Thread -> Locals]
      /\ \A u \in Thread : u # t => size'[u] = size[u] /\ loc'[u] = loc[u]
  BY ReturnIs DEF Typed
<1>2. TypeOK'
  BY <1>1 DEF Typed, TypeOK, dmaVars
<1>3. PartsLeft'
  BY <1>1 DEF Typed, TypeOK, PartsLeft
<1> QED
  BY <1>2, <1>3 DEF Typed

LEMMA TypesTransmitCall ==
  ASSUME Typed, NEW t \in Thread, HAL_ETH_Transmit(t)
  PROVE  Typed'
<1>1. own' = own /\ UNCHANGED <<dmaVars, CurTxDesc, gState, history>>
  BY DEF HAL_ETH_Transmit
<1>2. CASE Return(t, desc)
  BY <1>1, <1>2, TypesReturn DEF Typed, TypeOK, history
<1>3. CASE ~Return(t, desc)
  <2>1. /\ pc' = [pc EXCEPT ![t] = "fill"]
        /\ loc' = [loc EXCEPT ![t] = [first |-> CurTxDesc, descidx |-> CurTxDesc, k |-> 0]]
        /\ UNCHANGED <<desc, size>>
    BY <1>3 DEF HAL_ETH_Transmit, Goto
  <2>2. [first |-> CurTxDesc, descidx |-> CurTxDesc, k |-> 0] \in Locals
    BY TxRingAssumption DEF Typed, TypeOK, Locals
  <2>3. TypeOK'
    BY <1>1, <2>1, <2>2 DEF Typed, TypeOK, dmaVars, history
  <2>4. loc'[t].k = 0 /\ size[t] > 0
    BY <2>1 DEF Typed, TypeOK, Size
  <2>5. PartsLeft'
    BY <2>1, <2>4 DEF Typed, TypeOK, PartsLeft
  <2> QED
    BY <2>3, <2>5 DEF Typed
<1> QED
  BY <1>2, <1>3

(* What is written to the next descriptor *)
Filled(t) ==
  [of |-> t, n |-> size[t], from |-> loc[t].k + 1, to |-> Smaller(loc[t].k + 2, size[t]),
   fd |-> loc[t].descidx = loc[t].first, ld |-> Smaller(loc[t].k + 2, size[t]) = size[t],
   gone |-> FALSE]

LEMMA FillIs ==
  ASSUME Typed, NEW t \in Thread, Fill(t)
  PROVE  LET to == Smaller(loc[t].k + 2, size[t])
         IN /\ loc[t] \in Locals /\ size[t] \in Size /\ to \in Size
            /\ loc[t].descidx \in Desc /\ loc[t].first \in Desc
            /\ loc[t].k \in Nat /\ loc[t].k < size[t] /\ size[t] <= ETH_TX_DESC_CNT
            /\ Filled(t) \in Content
            /\ desc' = [desc EXCEPT ![loc[t].descidx] = Filled(t)]
            /\ own' = [own EXCEPT ![loc[t].descidx] = TRUE]
            /\ loc' \in [Thread -> Locals]
            /\ loc'[t].first = loc[t].first /\ loc'[t].descidx = loc[t].descidx
            /\ loc'[t].k = to
            /\ \A u \in Thread : u # t => loc'[u] = loc[u]
            /\ pc[t] = "fill"
            /\ pc' = [pc EXCEPT ![t] = IF to = size[t] THEN "publish" ELSE "next"]
            /\ UNCHANGED <<dmaVars, CurTxDesc, gState, size, history>>
<1> DEFINE to == Smaller(loc[t].k + 2, size[t])
<1>1. /\ loc[t] \in Locals /\ size[t] \in Size /\ loc[t].descidx \in Desc /\ loc[t].first \in Desc
      /\ loc[t].k \in 0 .. ETH_TX_DESC_CNT /\ size[t] <= ETH_TX_DESC_CNT
  BY TxRingAssumption DEF Typed, TypeOK, Locals, Size
<1>2. pc[t] = "fill" /\ loc[t].k < size[t]
  BY DEF Fill, Runs, Typed, PartsLeft
<1>3. to \in Size /\ to \in 0 .. ETH_TX_DESC_CNT /\ loc[t].k + 1 \in Size
  BY <1>1, <1>2, TxRingAssumption DEF Smaller, Size
<1>4. Filled(t) \in Content
  BY <1>1, <1>3 DEF Filled, Content
<1>5. /\ desc' = [desc EXCEPT ![loc[t].descidx] = Filled(t)]
      /\ own' = [own EXCEPT ![loc[t].descidx] = TRUE]
      /\ loc' = [loc EXCEPT ![t].k = to]
      /\ pc' = [pc EXCEPT ![t] = IF to = size[t] THEN "publish" ELSE "next"]
      /\ UNCHANGED <<dmaVars, CurTxDesc, gState, size, history>>
  BY DEF Fill, Filled, Goto
<1>6. /\ loc' \in [Thread -> Locals]
      /\ loc'[t].first = loc[t].first /\ loc'[t].descidx = loc[t].descidx /\ loc'[t].k = to
      /\ \A u \in Thread : u # t => loc'[u] = loc[u]
  <2> HIDE DEF to
  <2>1. loc \in [Thread -> Locals]
    BY DEF Typed, TypeOK
  <2>2. loc'[t] = [loc[t] EXCEPT !.k = to]
    BY <1>5, <2>1
  <2>3. [loc[t] EXCEPT !.k = to] \in Locals
    BY <1>1, <1>3 DEF Locals
  <2>4. loc' \in [Thread -> Locals]
    BY <1>5, <2>1, <2>2, <2>3
  <2>5. loc'[t].first = loc[t].first /\ loc'[t].descidx = loc[t].descidx /\ loc'[t].k = to
    BY <1>1, <2>2 DEF Locals
  <2>6. \A u \in Thread : u # t => loc'[u] = loc[u]
    BY <1>5, <2>1
  <2> QED
    BY <2>4, <2>5, <2>6
<1> HIDE DEF to
<1>7. /\ loc[t] \in Locals /\ size[t] \in Size /\ to \in Size
      /\ loc[t].descidx \in Desc /\ loc[t].first \in Desc
      /\ loc[t].k \in Nat /\ loc[t].k < size[t] /\ size[t] <= ETH_TX_DESC_CNT
  BY <1>1, <1>2, <1>3, TxRingAssumption
<1> USE DEF to
<1> QED
  BY <1>2, <1>4, <1>5, <1>6, <1>7

LEMMA TypesFill ==
  ASSUME Typed, NEW t \in Thread, Fill(t)
  PROVE  Typed'
<1> DEFINE to == Smaller(loc[t].k + 2, size[t])
<1>1. /\ to \in Size /\ size[t] \in Size
      /\ loc[t].descidx \in Desc /\ Filled(t) \in Content
      /\ desc' = [desc EXCEPT ![loc[t].descidx] = Filled(t)]
      /\ own' = [own EXCEPT ![loc[t].descidx] = TRUE]
      /\ loc' \in [Thread -> Locals]
      /\ loc'[t].k = to /\ \A u \in Thread : u # t => loc'[u] = loc[u]
      /\ pc' = [pc EXCEPT ![t] = IF to = size[t] THEN "publish" ELSE "next"]
      /\ UNCHANGED <<dmaVars, CurTxDesc, gState, size, history>>
  BY FillIs
<1>2. TypeOK'
  BY <1>1 DEF Typed, TypeOK, dmaVars, history
<1>3. to # size[t] => to < size[t]
  BY <1>1 DEF Smaller, Size
<1> HIDE DEF to
<1>4. PartsLeft'
  BY <1>1, <1>3 DEF Typed, TypeOK, PartsLeft
<1> QED
  BY <1>2, <1>4 DEF Typed

(* A step to the next descriptor *)
LEMMA NextIs ==
  ASSUME Typed, NEW t \in Thread, NextDescriptor(t)
  PROVE  LET next == After(loc[t].descidx)
         IN /\ loc[t] \in Locals /\ loc[t].descidx \in Desc /\ loc[t].first \in Desc /\ next \in Desc
            /\ pc[t] = "next" /\ Cleared(next) \in [Desc -> Content]
            /\ \A d \in Desc : Alike(Cleared(next)[d], desc[d]) /\ Cleared(next)[d].gone = desc[d].gone
            /\ UNCHANGED <<dmaVars, CurTxDesc, gState, history>>
            /\ \/ own[next] /\ own' = Undone(t) /\ Return(t, Cleared(next))
               \/ /\ ~own[next] /\ desc' = Cleared(next) /\ own' = own /\ size' = size
                  /\ pc' = [pc EXCEPT ![t] = "fill"]
                  /\ loc' \in [Thread -> Locals]
                  /\ loc'[t].first = loc[t].first /\ loc'[t].descidx = next
                  /\ loc'[t].k = loc[t].k
                  /\ \A u \in Thread : u # t => loc'[u] = loc[u]
<1> DEFINE next == After(loc[t].descidx)
<1>1. loc[t] \in Locals /\ loc[t].descidx \in Desc /\ loc[t].first \in Desc
  BY DEF Typed, TypeOK, Locals
<1>2. next \in Desc
  BY <1>1, AfterTypes
<1>3. pc[t] = "next" /\ UNCHANGED <<dmaVars, CurTxDesc, gState, history>>
  BY DEF NextDescriptor, Runs
<1>4. \/ own[next] /\ own' = Undone(t) /\ Return(t, Cleared(next))
      \/ /\ ~own[next] /\ desc' = Cleared(next) /\ own' = own /\ size' = size
         /\ pc' = [pc EXCEPT ![t] = "fill"]
         /\ loc' = [loc EXCEPT ![t].descidx = next]
  BY DEF NextDescriptor, Goto
<1> HIDE DEF next
<1>5. \A d \in Desc : desc[d] \in Content
  BY DEF Typed, TypeOK
<1>6. ASSUME NEW d \in Desc
      PROVE  /\ Cleared(next)[d] \in Content
             /\ Alike(Cleared(next)[d], desc[d]) /\ Cleared(next)[d].gone = desc[d].gone
  <2> DEFINE b == [desc[d] EXCEPT !.fd = FALSE]
  <2>1. b \in Content /\ Alike(b, desc[d]) /\ b.gone = desc[d].gone
    BY <1>5, MarksOnly DEF Alike
  <2>2. Cleared(next)[d] = IF d = next THEN b ELSE desc[d]
    BY <1>2 DEF Cleared, Typed, TypeOK
  <2>3. Alike(desc[d], desc[d])
    BY DEF Alike
  <2> HIDE DEF b
  <2> QED
    BY <1>5, <2>1, <2>2, <2>3
<1>7. Cleared(next) \in [Desc -> Content]
  <2>1. Cleared(next) = [d \in Desc |-> Cleared(next)[d]]
    BY DEF Cleared, Typed, TypeOK
  <2> QED
    BY <1>6, <2>1
<1>8. ASSUME loc' = [loc EXCEPT ![t].descidx = next]
      PROVE  /\ loc' \in [Thread -> Locals]
             /\ loc'[t].first = loc[t].first /\ loc'[t].descidx = next
             /\ loc'[t].k = loc[t].k
             /\ \A u \in Thread : u # t => loc'[u] = loc[u]
  <2>1. loc \in [Thread -> Locals]
    BY DEF Typed, TypeOK
  <2>2. loc'[t] = [loc[t] EXCEPT !.descidx = next]
    BY <1>8, <2>1
  <2>3. [loc[t] EXCEPT !.descidx = next] \in Locals
    BY <1>1, <1>2 DEF Locals
  <2>4. loc' \in [Thread -> Locals]
    BY <1>8, <2>1, <2>2, <2>3
  <2>5. loc'[t].first = loc[t].first /\ loc'[t].descidx = next /\ loc'[t].k = loc[t].k
    BY <1>1, <2>2 DEF Locals
  <2>6. \A u \in Thread : u # t => loc'[u] = loc[u]
    BY <1>8, <2>1
  <2> QED
    BY <2>4, <2>5, <2>6
<1>9. \A d \in Desc : Alike(Cleared(next)[d], desc[d]) /\ Cleared(next)[d].gone = desc[d].gone
  BY <1>6
<1>10. \/ own[next] /\ own' = Undone(t) /\ Return(t, Cleared(next))
       \/ /\ ~own[next] /\ desc' = Cleared(next) /\ own' = own /\ size' = size
          /\ pc' = [pc EXCEPT ![t] = "fill"]
          /\ loc' \in [Thread -> Locals]
          /\ loc'[t].first = loc[t].first /\ loc'[t].descidx = next
          /\ loc'[t].k = loc[t].k
          /\ \A u \in Thread : u # t => loc'[u] = loc[u]
  BY <1>4, <1>8
<1> USE DEF next
<1> QED
  BY <1>1, <1>2, <1>3, <1>7, <1>9, <1>10

LEMMA TypesNext ==
  ASSUME Typed, NEW t \in Thread, NextDescriptor(t)
  PROVE  Typed'
<1> DEFINE next == After(loc[t].descidx)
<1>1. /\ next \in Desc /\ pc[t] = "next" /\ Cleared(next) \in [Desc -> Content]
      /\ UNCHANGED <<dmaVars, CurTxDesc, gState, history>>
      /\ \/ own[next] /\ own' = Undone(t) /\ Return(t, Cleared(next))
         \/ /\ ~own[next] /\ desc' = Cleared(next) /\ own' = own /\ size' = size
            /\ pc' = [pc EXCEPT ![t] = "fill"]
            /\ loc' \in [Thread -> Locals]
            /\ loc'[t].k = loc[t].k
            /\ \A u \in Thread : u # t => loc'[u] = loc[u]
  BY NextIs
<1> HIDE DEF next
<1>2. CASE own' = Undone(t) /\ Return(t, Cleared(next))
  <2>1. own' \in [Desc -> BOOLEAN]
    BY <1>2 DEF Undone
  <2> QED
    BY <1>1, <1>2, <2>1, TypesReturn DEF history, Typed, TypeOK
<1>3. CASE /\ desc' = Cleared(next) /\ own' = own /\ size' = size
           /\ pc' = [pc EXCEPT ![t] = "fill"]
           /\ loc' \in [Thread -> Locals] /\ loc'[t].k = loc[t].k
           /\ \A u \in Thread : u # t => loc'[u] = loc[u]
  <2>1. TypeOK'
    BY <1>1, <1>3 DEF Typed, TypeOK, dmaVars, history
  <2>2. loc[t].k < size[t]
    BY <1>1 DEF Typed, PartsLeft
  <2>3. PartsLeft'
    BY <1>3, <2>2 DEF Typed, TypeOK, PartsLeft
  <2> QED
    BY <2>1, <2>3 DEF Typed
<1> QED
  BY <1>1, <1>2, <1>3

LEMMA TypesPublish ==
  ASSUME Typed, NEW t \in Thread, Publish(t)
  PROVE  Typed'
<1>1. After(loc[t].descidx) \in Desc
  BY AfterTypes DEF Typed, TypeOK, Locals
<1>2. /\ pc' = [pc EXCEPT ![t] = "wait"] /\ CurTxDesc' = After(loc[t].descidx)
      /\ tail' = After(loc[t].descidx)
      /\ UNCHANGED <<own, desc, st, dma, line, gState, size, loc, history>>
  BY DEF Publish, Goto, Tail
<1>3. TypeOK'
  BY <1>1, <1>2 DEF Typed, TypeOK, history
<1>4. PartsLeft'
  BY <1>2 DEF Typed, TypeOK, PartsLeft
<1> QED
  BY <1>3, <1>4 DEF Typed

LEMMA TypesWaitEnds ==
  ASSUME Typed, NEW t \in Thread, WaitEnds(t)
  PROVE  Typed'
<1>1. late' \in BOOLEAN
  BY DEF WaitEnds, Typed, TypeOK
<1> QED
  BY <1>1, TypesReturn DEF WaitEnds, Typed, TypeOK

LEMMA TypesTransmit ==
  ASSUME Typed, Transmit
  PROVE  Typed'
<1>1. desc[dma] \in Content /\ line \in Line /\ After(dma) \in Desc
  BY AfterTypes DEF Typed, TypeOK
<1>2. Read(desc[dma]) \in Line
  <2>1. desc[dma].of \in Thread /\ desc[dma].n \in Size /\ desc[dma].to \in 0 .. ETH_TX_DESC_CNT
    BY <1>1, ContentIs, TxRingAssumption DEF Size
  <2>2. line.whole \in BOOLEAN
    BY <1>1 DEF Line
  <2> QED
    BY <2>1, <2>2 DEF Read, Line
<1>3. line' \in Line
  BY <1>2, UnusedIs DEF Transmit
<1>4. own' \in [Desc -> BOOLEAN] /\ desc' \in [Desc -> Content]
  BY UnusedIs DEF Transmit, Typed, TypeOK
<1>5. mixed' \in BOOLEAN /\ unmarked' \in BOOLEAN /\ stale' \in BOOLEAN
  BY <1>1, ContentIs DEF Transmit, Typed, TypeOK
<1>6. TypeOK'
  BY <1>1, <1>3, <1>4, <1>5 DEF Transmit, Typed, TypeOK
<1>7. PartsLeft'
  BY DEF Transmit, Typed, PartsLeft
<1> QED
  BY <1>6, <1>7 DEF Typed

LEMMA LinkIs ==
  ASSUME TypeOK, LinkChange
  PROVE  /\ pc[LinkThread] \in {"idle", "stop", "start"}
         /\ \E p \in {"idle", "stop", "start"} : pc' = [pc EXCEPT ![LinkThread] = p]
         /\ st' \in BOOLEAN /\ gState' \in {"READY", "BUSY"}
         /\ UNCHANGED <<own, desc, dma, tail, line, CurTxDesc, size, loc, history>>
BY DEF LinkChange, HAL_ETH_Stop_IT, HAL_ETH_Start_IT, Runs, Goto, TypeOK

LEMMA TypesLink ==
  ASSUME Typed, LinkChange
  PROVE  Typed'
<1>1. PICK p \in {"idle", "stop", "start"} : pc' = [pc EXCEPT ![LinkThread] = p]
  BY LinkIs DEF Typed
<1>2. /\ st' \in BOOLEAN /\ gState' \in {"READY", "BUSY"}
      /\ UNCHANGED <<own, desc, dma, tail, line, CurTxDesc, size, loc, history>>
  BY LinkIs DEF Typed
<1>3. TypeOK'
  BY <1>1, <1>2 DEF Typed, TypeOK, history
<1>4. PartsLeft'
  BY <1>1, <1>2, SenderFacts DEF Typed, TypeOK, PartsLeft
<1> QED
  BY <1>3, <1>4 DEF Typed

LEMMA NextTypes == Typed /\ [Next]_vars => Typed'
<1> SUFFICES ASSUME Typed, [Next]_vars PROVE Typed'
  OBVIOUS
<1>1. CASE UNCHANGED vars
  BY <1>1 DEF vars, dmaVars, history, Typed, TypeOK, PartsLeft
<1> QED
  BY <1>1, TypesCall, TypesTransmitCall, TypesFill, TypesNext, TypesPublish, TypesWaitEnds,
     TypesTransmit, TypesLink DEF Next

-------------------------------------------------------------------------------
(* The steps preserve Safe.  What they have in common first. *)

LEMMA Fields ==
  ASSUME Typed
  PROVE  /\ dma \in Desc /\ tail \in Desc /\ CurTxDesc \in Desc /\ line \in Line
         /\ \A t \in Thread : /\ loc[t].first \in Desc /\ loc[t].descidx \in Desc
                             /\ loc[t].k \in Nat
                             /\ size[t] \in Nat /\ size[t] >= 1 /\ size[t] <= ETH_TX_DESC_CNT
         /\ \A d \in Desc : desc[d] \in Content
BY TxRingAssumption DEF Typed, TypeOK, Locals, Size

LEMMA AlikeFrames ==
  ASSUME NEW b, NEW c, NEW bb, NEW cc, Alike(bb, b), Alike(cc, c)
  PROVE  /\ WellFormed(bb) <=> WellFormed(b)
         /\ Follows(bb, cc) <=> Follows(b, c)
         /\ Continues(bb) <=> Continues(b)
BY DEF Alike, WellFormed, Follows, Continues

(* Frames stay when descriptors behind them are given up and memory goes. *)
LEMMA FramesKept ==
  ASSUME Typed, NEW m \in Nat, Frames(m), dma' = dma, line' = line,
         \A d \in Desc : own'[d] => own[d] /\ Alike(desc'[d], desc[d]),
         \A d \in Desc : Gap(dma, d) < m => own'[d]
  PROVE  Frames(m)'
<1> USE Fields DEF Frames
<1>1. ASSUME NEW d \in Desc, own'[d] PROVE WellFormed(desc'[d])
  BY <1>1, AlikeFrames
<1>2. ASSUME NEW d \in Desc, own'[d], own'[After(d)], After(d) # dma
      PROVE  Follows(desc'[d], desc'[After(d)])
  <2>1. After(d) \in Desc
    BY AfterTypes
  <2> QED
    BY <1>2, <2>1, AlikeFrames
<1>3. (own[dma] => Continues(desc[dma]))'
  <2> SUFFICES ASSUME own'[dma] PROVE Continues(desc[dma])'
    OBVIOUS
  <2>1. Continues(desc[dma]) /\ Alike(desc'[dma], desc[dma])
    OBVIOUS
  <2> QED
    BY <2>1 DEF Continues, Alike
<1>4. ASSUME NEW d \in Desc, m > 0, Gap(dma, d) = m - 1 PROVE desc'[d].ld
  <2>1. own'[d]
    BY <1>4
  <2> QED
    BY <1>4, <2>1 DEF Alike
<1> QED
  BY <1>1, <1>2, <1>3, <1>4

(* Where the ring is as before, and the part that is filled with it *)
LEMMA OwnedKept ==
  ASSUME NEW m, NEW q, Owned(m, q), UNCHANGED <<own, dma, tail, CurTxDesc>>
  PROVE  Owned(m, q)'
BY DEF Owned

(* The owners of the others stay when a call comes or goes that owns none. *)
LEMMA OwnersKept ==
  ASSUME Typed, NEW m \in Nat, NEW t \in Thread, Owners(m), dma' = dma,
         \A d \in Desc : own'[d] => /\ own[d] /\ desc[d].of # t /\ Alike(desc'[d], desc[d])
                                    /\ desc'[d].gone = desc[d].gone,
         pc'[t] # "wait", \A u \in Thread : u # t => pc'[u] = pc[u],
         \A u \in Thread : u # t => size'[u] = size[u] /\ loc'[u] = loc[u]
  PROVE  Owners(m)'
<1>1. ASSUME NEW d \in Desc, own'[d] PROVE Owner(d, m)'
  <2> DEFINE u == desc[d].of
  <2>1. own[d] /\ Owner(d, m) /\ desc'[d].of = u /\ u \in Thread
    BY <1>1, Fields, ContentIs DEF Owners, Alike
  <2>2. u # t
    BY <1>1
  <2>3. desc'[d].gone = desc[d].gone /\ pc'[u] = pc[u] /\ loc'[u] = loc[u]
    BY <1>1, <2>1, <2>2
  <2> QED
    BY <2>1, <2>3 DEF Owner, InRing
<1>2. ASSUME NEW u \in Thread PROVE Waiting(u)'
  BY DEF Owners, Waiting
<1> QED
  BY <1>1, <1>2 DEF Owners

(* low_level_output: nobody fills descriptors, or the history says so. *)
LEMMA SafeCall ==
  ASSUME Typed, Safe, NEW t \in Thread, NEW n \in Lengths, low_level_output(t, n), ~overlapped'
  PROVE  Safe'
<1>1. /\ pc[t] = "idle" /\ pc' = [pc EXCEPT ![t] = "check"] /\ size' = [size EXCEPT ![t] = n]
      /\ \A u \in Thread : ~Filling(u)
      /\ UNCHANGED <<own, desc, dmaVars, CurTxDesc, gState, loc, mixed, unmarked, stale, late>>
  BY DEF low_level_output, Runs, Goto
<1>2. /\ pc'[t] = "check" /\ \A u \in Thread : u # t => pc'[u] = pc[u]
      /\ \A u \in Thread : u # t => size'[u] = size[u] /\ loc'[u] = loc[u]
  BY <1>1 DEF Typed, TypeOK
<1>3. \A u \in Thread : ~InRing(u) /\ ~InRing(u)'
  BY <1>1, <1>2 DEF InRing, Filling
<1>4. Alone'
  BY <1>1, <1>2 DEF Alone, Filling
<1>5. PICK m \in 0 .. ETH_TX_DESC_CNT, q \in 0 .. ETH_TX_DESC_CNT :
        Good(m, q) /\ (~late => ~stale /\ Owners(m))
  BY DEF Safe
<1>6. Owned(m, q)'
  BY <1>1, <1>5, OwnedKept DEF Good, dmaVars
<1>7. Filler(m, q)' /\ Unfinished(m, q)'
  BY <1>3, <1>5 DEF Good, Filler, Unfinished
<1>8. \A d \in Desc : Alike(desc[d], desc[d])
  BY DEF Alike
<1>9. Frames(m)'
  BY <1>1, <1>5, <1>8 DEF Good, Frames, Continues, dmaVars
<1>10. ASSUME Owners(m) PROVE Owners(m)'
  <2>1. \A d \in Desc : own'[d] => /\ own[d] /\ desc[d].of # t /\ Alike(desc'[d], desc[d])
                                   /\ desc'[d].gone = desc[d].gone
    BY <1>1, <1>8, <1>10 DEF Owners, Owner, InRing
  <2> QED
    BY <1>1, <1>2, <1>10, <2>1, OwnersKept, TxRingAssumption DEF dmaVars
<1> QED
  BY <1>1, <1>4, <1>5, <1>6, <1>7, <1>9, <1>10 DEF Safe, Good

(* A call ends: what it has filled is taken back, and the rest stays. *)
LEMMA SafeReturn ==
  ASSUME Typed, Alone, ~mixed, NEW t \in Thread, NEW c \in [Desc -> Content],
         own' \in [Desc -> BOOLEAN], Return(t, c),
         NEW m \in 0 .. ETH_TX_DESC_CNT, NEW q \in 0 .. ETH_TX_DESC_CNT, NEW r \in {0, q},
         Good(m, q), ~late => ~stale /\ Owners(m),
         UNCHANGED <<dmaVars, CurTxDesc, mixed, stale>>, late => late',
         \A d \in Desc : Alike(c[d], desc[d]) /\ c[d].gone = desc[d].gone,
         \A d \in Desc : own'[d] <=> Gap(dma, d) < m + r,
         \/ r = 0 /\ \A u \in Thread : u # t => ~InRing(u)
         \/ r = q /\ ~InRing(t),
         ~late' => \A d \in Desc : own'[d] => desc[d].of # t
  PROVE  Safe'
<1>1. /\ pc' = [pc EXCEPT ![t] = "idle"]
      /\ \A u \in Thread : u # t => size'[u] = size[u] /\ loc'[u] = loc[u]
      /\ \A d \in Desc : own'[d] =>
           Alike(desc'[d], c[d]) /\ (c[d].of # t => desc'[d].gone = c[d].gone)
  BY ReturnIs DEF Typed
<1>2. pc'[t] = "idle" /\ \A u \in Thread : u # t => pc'[u] = pc[u]
  BY <1>1 DEF Typed, TypeOK
<1>3. Alone'
  BY <1>2 DEF Alone, Filling
<1>4. /\ m \in Nat /\ q \in Nat /\ r \in Nat /\ m + q <= ETH_TX_DESC_CNT /\ m + r <= m + q
      /\ \A d \in Desc : Gap(dma, d) \in Nat
  BY Fields, GapFacts, TxRingAssumption DEF Good, Owned
<1>5. \A d \in Desc : own[d] <=> Gap(dma, d) < m + q
  BY DEF Good, Owned
<1>6. \A d \in Desc : own'[d] =>
        /\ own[d] /\ Alike(desc'[d], desc[d])
        /\ desc[d].of # t => desc'[d].gone = desc[d].gone
  BY <1>1, <1>4, <1>5 DEF Alike
<1>7. \A d \in Desc : Gap(dma, d) < m => own'[d]
  BY <1>4
<1>8. Owned(m, r)'
  BY <1>4 DEF Good, Owned, dmaVars
<1>9. Frames(m)'
  <2>1. dma' = dma /\ line' = line /\ \A d \in Desc : own'[d] => own[d] /\ Alike(desc'[d], desc[d])
    BY <1>6 DEF dmaVars
  <2> QED
    BY <1>4, <1>7, <2>1, FramesKept DEF Good
<1>10. Filler(m, r)' /\ Unfinished(m, r)'
  <2>1. CASE r = 0 /\ \A u \in Thread : u # t => ~InRing(u)
    <3>1. \A u \in Thread : ~InRing(u)'
      BY <1>2, <2>1 DEF InRing
    <3> QED
      BY <2>1, <3>1 DEF Filler, Unfinished
  <2>2. CASE r = q /\ ~InRing(t)
    <3>1. r = q /\ ~InRing(t) /\ ~InRing(t)'
      BY <1>2, <2>2 DEF InRing
    <3>2. \A u \in Thread : u # t => (InRing(u)' <=> InRing(u)) /\ pc'[u] = pc[u]
      BY <1>2 DEF InRing
    <3>3. Filler(m, r)'
      <4>1. (\A u \in Thread : ~InRing(u)') => r = 0
        BY <3>1, <3>2 DEF Good, Filler
      <4>2. ASSUME NEW u \in Thread, InRing(u)' PROVE u # t /\ InRing(u)
        BY <3>1, <3>2, <4>2
      <4> QED
        BY <1>1, <3>1, <3>2, <4>1, <4>2 DEF Good, Filler, dmaVars
    <3>4. Unfinished(m, r)'
      <4>1. ASSUME NEW u \in Thread, NEW d \in Desc, InRing(u)', r > 0, Gap(dma, d) = m + r - 1
            PROVE  desc'[d].of = u /\ desc'[d].n = size'[u] /\ desc'[d].to = loc'[u].k
        <5>1. u # t /\ InRing(u)
          BY <3>1, <3>2, <4>1
        <5>2. own'[d]
          BY <1>4, <4>1
        <5>3. desc[d].of = u /\ desc[d].n = size[u] /\ desc[d].to = loc[u].k
          BY <3>1, <4>1, <5>1 DEF Good, Unfinished
        <5> QED
          BY <1>1, <1>6, <5>1, <5>2, <5>3 DEF Alike
      <4> QED
        BY <4>1 DEF Unfinished, dmaVars
    <3> QED
      BY <3>3, <3>4
  <2> QED
    BY <2>1, <2>2
<1>11. ~late' => Owners(m)'
  <2> SUFFICES ASSUME ~late' PROVE Owners(m)'
    OBVIOUS
  <2>1. \A d \in Desc : own'[d] => /\ own[d] /\ desc[d].of # t /\ Alike(desc'[d], desc[d])
                                   /\ desc'[d].gone = desc[d].gone
    BY <1>6
  <2>2. dma' = dma /\ Owners(m) /\ pc'[t] # "wait"
    BY <1>2 DEF dmaVars
  <2> QED
    BY <1>1, <1>2, <1>4, <2>1, <2>2, OwnersKept
<1>12. r \in 0 .. ETH_TX_DESC_CNT
  BY TxRingAssumption
<1> QED
  BY <1>3, <1>8, <1>9, <1>10, <1>11, <1>12 DEF Safe, Good

(* HAL_ETH_Transmit: nothing is filled yet. *)
LEMMA SafeTransmitCall ==
  ASSUME Typed, Safe, NEW t \in Thread, HAL_ETH_Transmit(t)
  PROVE  Safe'
<1>1. pc[t] = "check" /\ own' = own /\ UNCHANGED <<dmaVars, CurTxDesc, gState, history>>
  BY DEF HAL_ETH_Transmit, Runs
<1>2. \A u \in Thread : ~InRing(u)
  BY <1>1 DEF Safe, Alone, InRing, Filling
<1>3. PICK m \in 0 .. ETH_TX_DESC_CNT, q \in 0 .. ETH_TX_DESC_CNT :
        Good(m, q) /\ (~late => ~stale /\ Owners(m))
  BY DEF Safe
<1>4. q = 0
  BY <1>2, <1>3 DEF Good, Filler
<1>5. \A d \in Desc : Alike(desc[d], desc[d])
  BY DEF Alike
<1>6. ~late => \A d \in Desc : own[d] => desc[d].of # t
  BY <1>1, <1>3 DEF Owners, Owner, InRing
<1>7. CASE Return(t, desc)
  <2>1. \A d \in Desc : own'[d] <=> Gap(dma, d) < m + 0
    BY <1>1, <1>3, <1>4 DEF Good, Owned
  <2>2. own' \in [Desc -> BOOLEAN] /\ desc \in [Desc -> Content]
    BY <1>1 DEF Typed, TypeOK
  <2>3. Alone /\ ~mixed /\ mixed' = mixed /\ stale' = stale /\ late' = late
    BY <1>1 DEF Safe, history
  <2> QED
    BY <1>1, <1>2, <1>3, <1>4, <1>5, <1>6, <1>7, <2>1, <2>2, <2>3, SafeReturn
<1>8. CASE ~Return(t, desc)
  <2>1. /\ ~own[CurTxDesc] /\ pc' = [pc EXCEPT ![t] = "fill"]
        /\ loc' = [loc EXCEPT ![t] = [first |-> CurTxDesc, descidx |-> CurTxDesc, k |-> 0]]
        /\ UNCHANGED <<desc, size>>
    BY <1>8 DEF HAL_ETH_Transmit, Goto
  <2>2. /\ pc'[t] = "fill" /\ \A u \in Thread : u # t => pc'[u] = pc[u] /\ loc'[u] = loc[u]
        /\ loc'[t].first = tail /\ loc'[t].descidx = tail /\ loc'[t].k = 0
    BY <1>3, <2>1 DEF Typed, TypeOK, Good, Owned
  <2>3. Alone'
    BY <1>1, <2>2 DEF Safe, Alone, Filling
  <2>4. m \in Nat /\ Gap(dma, tail) \in Nat /\ Gap(tail, tail) = 0
        /\ Gap(dma, tail) < ETH_TX_DESC_CNT
    BY Fields, GapFacts, TxRingAssumption
  <2>5. m < ETH_TX_DESC_CNT
    BY <1>3, <1>4, <2>1, <2>4, Fields, TxRingAssumption DEF Good, Owned
  <2>6. Owned(m, 0)'
    BY <1>1, <1>3, <1>4, OwnedKept DEF Good, dmaVars
  <2>7. \A u \in Thread : InRing(u)' => u = t
    BY <1>2, <2>2 DEF InRing
  <2>8. Filler(m, 0)' /\ Unfinished(m, 0)'
    BY <1>1, <2>2, <2>4, <2>5, <2>7 DEF Filler, Unfinished, dmaVars
  <2>9. Frames(m)'
    BY <1>1, <1>3, <2>1 DEF Good, Frames, Continues, dmaVars
  <2>10. ~late => Owners(m)'
    <3> SUFFICES ASSUME ~late PROVE Owners(m)'
      OBVIOUS
    <3>1. ASSUME NEW d \in Desc, own[d] PROVE Owner(d, m)'
      <4>1. Owner(d, m) /\ desc[d].of # t /\ desc[d].of \in Thread
        BY <1>3, <1>6, <3>1, Fields, ContentIs DEF Owners
      <4> QED
        BY <1>1, <2>1, <2>2, <4>1 DEF Owner, InRing, dmaVars
    <3>2. ASSUME NEW u \in Thread PROVE Waiting(u)'
      BY <1>3, <2>1, <2>2 DEF Owners, Waiting
    <3> QED
      BY <1>1, <3>1, <3>2 DEF Owners
  <2> QED
    BY <1>1, <1>3, <1>4, <2>3, <2>6, <2>8, <2>9, <2>10 DEF Safe, Good, history
<1> QED
  BY <1>7, <1>8

(* WaitEnds: a call that has not given up has no descriptor in the ring. *)
LEMMA SafeWaitEnds ==
  ASSUME Typed, Safe, NEW t \in Thread, WaitEnds(t)
  PROVE  Safe'
<1>1. /\ pc[t] = "wait" /\ own' = own /\ Return(t, desc)
      /\ late' = (late \/ own[loc[t].descidx])
      /\ UNCHANGED <<dmaVars, CurTxDesc, mixed, unmarked, stale, overlapped>>
  BY DEF WaitEnds, Runs, Awaited
<1>2. PICK m \in 0 .. ETH_TX_DESC_CNT, q \in 0 .. ETH_TX_DESC_CNT :
        Good(m, q) /\ (~late => ~stale /\ Owners(m))
  BY DEF Safe
<1>3. \A d \in Desc : own'[d] <=> Gap(dma, d) < m + q
  BY <1>1, <1>2 DEF Good, Owned
<1>4. \A d \in Desc : Alike(desc[d], desc[d])
  BY DEF Alike
<1>5. ASSUME ~late', NEW d \in Desc, own[d] PROVE desc[d].of # t
  <2>1. CASE desc[d].of = t
    <3>1. Gap(dma, loc[t].descidx) < m
      BY <1>1, <1>2, <1>5, <2>1 DEF Owners, Owner
    <3>2. Gap(dma, loc[t].descidx) < m + q
      BY <3>1, Fields, GapFacts, TxRingAssumption
    <3>3. own[loc[t].descidx]
      BY <1>2, <3>2, Fields DEF Good, Owned
    <3> QED
      BY <1>1, <1>5, <3>3
  <2> QED
    BY <2>1
<1>6. own' \in [Desc -> BOOLEAN] /\ desc \in [Desc -> Content] /\ Alone /\ ~mixed
  BY <1>1 DEF Typed, TypeOK, Safe
<1>7. ~InRing(t)
  BY <1>1 DEF InRing
<1> QED
  BY <1>1, <1>2, <1>3, <1>4, <1>5, <1>6, <1>7, SafeReturn

(* Fill: the descriptor goes to the end of what the DMA owns. *)
LEMMA SafeFill ==
  ASSUME Typed, Safe, NEW t \in Thread, Fill(t)
  PROVE  Safe'
<1> DEFINE to == Smaller(loc[t].k + 2, size[t])
           here == loc[t].descidx
<1>1. /\ here \in Desc /\ loc[t].first \in Desc /\ loc[t].k \in Nat /\ loc[t].k < size[t]
      /\ size[t] \in Nat /\ to \in Nat
      /\ desc' = [desc EXCEPT ![here] = Filled(t)]
      /\ own' = [own EXCEPT ![here] = TRUE]
      /\ loc'[t].first = loc[t].first /\ loc'[t].descidx = here /\ loc'[t].k = to
      /\ \A u \in Thread : u # t => loc'[u] = loc[u]
      /\ pc[t] = "fill" /\ pc' = [pc EXCEPT ![t] = IF to = size[t] THEN "publish" ELSE "next"]
      /\ UNCHANGED <<dmaVars, CurTxDesc, gState, size, history>>
  BY FillIs DEF Size
<1>2. /\ Filled(t).of = t /\ Filled(t).n = size[t] /\ Filled(t).from = loc[t].k + 1
      /\ Filled(t).to = to /\ (Filled(t).ld <=> to = size[t]) /\ ~Filled(t).gone
  BY DEF Filled
<1>3. /\ to = Smaller(loc[t].k + 2, size[t]) /\ (to # size[t] => to = loc[t].k + 2)
      /\ to = Smaller(Filled(t).from + 1, size[t])
  BY <1>1, <1>2 DEF Smaller
<1> HIDE DEF to, here
<1>4. /\ desc'[here] = Filled(t) /\ own'[here]
      /\ \A d \in Desc : d # here => desc'[d] = desc[d] /\ (own'[d] <=> own[d])
      /\ \A u \in Thread : u # t => pc'[u] = pc[u]
      /\ pc'[t] = IF to = size[t] THEN "publish" ELSE "next"
  BY <1>1 DEF Typed, TypeOK
<1>5. /\ InRing(t) /\ InRing(t)' /\ \A u \in Thread : InRing(u) => u = t
      /\ \A u \in Thread : InRing(u)' <=> InRing(u)
      /\ \A u \in Thread : Filling(u)' <=> Filling(u)
  BY <1>1, <1>4 DEF InRing, Filling, Safe, Alone
<1>6. Alone' /\ ~mixed'
  BY <1>1, <1>5 DEF Safe, Alone, history
<1>7. PICK m \in 0 .. ETH_TX_DESC_CNT, q \in 0 .. ETH_TX_DESC_CNT :
        Good(m, q) /\ (~late => ~stale /\ Owners(m))
  BY DEF Safe
<1>8. /\ loc[t].first = tail /\ Gap(tail, here) = q /\ m + q < ETH_TX_DESC_CNT
      /\ loc[t].k = 2 * q /\ m < ETH_TX_DESC_CNT
      /\ Gap(dma, tail) = m \/ (m = ETH_TX_DESC_CNT /\ tail = dma)
      /\ \A d \in Desc : own[d] <=> Gap(dma, d) < m + q
      /\ m \in Nat /\ q \in Nat
  BY <1>1, <1>5, <1>7, TxRingAssumption DEF Good, Filler, Owned, here
<1>9. Gap(dma, here) = m + q
  BY <1>1, <1>8, Fields, GapSum, TxRingAssumption
<1>10. /\ \A d \in Desc : Gap(dma, d) \in Nat /\ Gap(dma, d) < ETH_TX_DESC_CNT
       /\ \A d \in Desc : Gap(dma, d) = m + q => d = here
       /\ ~own[here] /\ ETH_TX_DESC_CNT \in Nat
  BY <1>1, <1>8, <1>9, Fields, GapFacts, TxRingAssumption
<1>11. \A d \in Desc : own'[d] <=> Gap(dma, d) < m + (q + 1)
  BY <1>4, <1>8, <1>9, <1>10
<1>12. Owned(m, q + 1)'
  <2>1. m + (q + 1) <= ETH_TX_DESC_CNT
    BY <1>8, <1>10
  <2> QED
    BY <1>1, <1>7, <1>11, <2>1 DEF Good, Owned, dmaVars
<1>13. Filler(m, q + 1)'
  <2>1. loc'[t].first = tail /\ Gap(loc'[t].first, loc'[t].descidx) = q /\ 2 * q < size'[t]
    BY <1>1, <1>8
  <2>2. pc'[t] = "next" => loc'[t].k = 2 * (q + 1)
    BY <1>1, <1>3, <1>4, <1>8
  <2>3. pc'[t] = "publish" => loc'[t].k = size'[t]
    BY <1>1, <1>4
  <2>4. pc'[t] # "fill" /\ tail' = tail
    BY <1>1, <1>4 DEF dmaVars
  <2> QED
    BY <1>5, <1>8, <2>1, <2>2, <2>3, <2>4 DEF Filler
<1>14. Unfinished(m, q + 1)'
  <2>1. ASSUME NEW u \in Thread, NEW d \in Desc, InRing(u)', Gap(dma, d) = m + (q + 1) - 1
        PROVE  desc'[d].of = u /\ desc'[d].n = size'[u] /\ desc'[d].to = loc'[u].k
    <3>1. u = t /\ d = here
      BY <1>5, <1>8, <1>10, <2>1
    <3> QED
      BY <1>1, <1>2, <1>4, <3>1
  <2> QED
    BY <1>1, <2>1 DEF Unfinished, dmaVars
<1>15. Frames(m)'
  <2> USE DEF Frames
  <2>1. Frames(m) /\ Unfinished(m, q) /\ dma' = dma /\ line' = line
    BY <1>1, <1>7 DEF Good, dmaVars
  <2>2. ASSUME NEW d \in Desc, own'[d] PROVE WellFormed(desc'[d])
    BY <1>2, <1>3, <1>4, <2>1, <2>2 DEF WellFormed
  <2>3. ASSUME NEW d \in Desc, own'[d], own'[After(d)], After(d) # dma
        PROVE  Follows(desc'[d], desc'[After(d)])
    <3>1. After(d) \in Desc /\ After(d) # d
      BY AfterFacts
    <3>2. Gap(dma, After(d)) = Gap(dma, d) + 1
      BY <1>10, <2>3, AfterFacts, Fields
    <3>3. CASE After(d) = here
      <4>1. d # here /\ own[d] /\ desc'[d] = desc[d] /\ Gap(dma, d) = m + q - 1
        BY <1>4, <1>8, <1>9, <1>10, <2>3, <3>1, <3>2, <3>3
      <4>2. CASE q = 0
        <5>1. desc[d].ld
          BY <1>8, <1>10, <2>1, <4>1, <4>2
        <5> QED
          BY <1>2, <1>4, <1>8, <3>3, <4>1, <4>2, <5>1 DEF Follows
      <4>3. CASE q > 0
        <5>1. desc[d].of = t /\ desc[d].n = size[t] /\ desc[d].to = loc[t].k
          BY <1>5, <2>1, <4>1, <4>3 DEF Unfinished
        <5>2. ~desc[d].ld
          BY <1>1, <2>1, <4>1, <5>1 DEF WellFormed
        <5> QED
          BY <1>2, <1>4, <3>3, <4>1, <5>1, <5>2 DEF Follows
      <4> QED
        BY <1>8, <4>2, <4>3
    <3>4. CASE d = here
      <4>1. Gap(dma, After(d)) = m + q + 1 /\ ~(Gap(dma, After(d)) < m + q + 1)
        BY <1>8, <1>9, <3>2, <3>4
      <4> QED
        BY <1>11, <2>3, <3>1, <4>1
    <3>5. CASE d # here /\ After(d) # here
      BY <1>4, <2>1, <2>3, <3>1, <3>5
    <3> QED
      BY <3>3, <3>4, <3>5
  <2>4. (own[dma] => Continues(desc[dma]))'
    <3> SUFFICES ASSUME own'[dma] PROVE Continues(desc[dma])'
      BY <2>1
    <3>1. CASE dma = here
      <4>1. m = 0 /\ q = 0
        BY <1>8, <1>9, <3>1, Fields, GapFacts
      <4>2. line.k = 0 /\ desc'[dma] = Filled(t) /\ Filled(t).from = 1
        BY <1>2, <1>4, <1>8, <2>1, <3>1, <4>1
      <4> QED
        BY <2>1, <4>2 DEF Continues
    <3>2. CASE dma # here
      BY <1>4, <2>1, <3>2, Fields DEF Continues
    <3> QED
      BY <3>1, <3>2
  <2>5. ASSUME NEW d \in Desc, m > 0, Gap(dma, d) = m - 1 PROVE desc'[d].ld
    BY <1>4, <1>8, <1>9, <2>1, <2>5
  <2> QED
    BY <2>1, <2>2, <2>3, <2>4, <2>5
<1>16. ~late => Owners(m)'
  <2> SUFFICES ASSUME ~late PROVE Owners(m)'
    OBVIOUS
  <2>1. Owners(m)
    BY <1>7
  <2>2. ASSUME NEW d \in Desc, own'[d] PROVE Owner(d, m)'
    <3>1. CASE d = here
      <4>1. desc'[d].of = t /\ ~desc'[d].gone /\ pc'[t] # "wait"
        BY <1>2, <1>4, <3>1
      <4>2. loc'[t].descidx = d /\ Gap(dma, d) >= m
        BY <1>1, <1>8, <1>9, <3>1
      <4>3. Gap(loc'[t].first, d) <= Gap(loc'[t].first, loc'[t].descidx)
        BY <1>1, <4>2, Fields, GapFacts
      <4> QED
        BY <1>1, <1>5, <4>1, <4>2, <4>3 DEF Owner, dmaVars
    <3>2. CASE d # here
      <4>1. Owner(d, m) /\ desc'[d] = desc[d] /\ desc[d].of \in Thread
        BY <1>4, <2>1, <2>2, <3>2, Fields, ContentIs DEF Owners
      <4>2. /\ loc'[desc[d].of].first = loc[desc[d].of].first
            /\ loc'[desc[d].of].descidx = loc[desc[d].of].descidx
        BY <1>1, <4>1 DEF here
      <4>3. pc'[desc[d].of] = "wait" <=> pc[desc[d].of] = "wait"
        BY <1>1, <1>4, <4>1
      <4> QED
        BY <1>1, <1>5, <4>1, <4>2, <4>3 DEF Owner, dmaVars
    <3> QED
      BY <3>1, <3>2
  <2>3. ASSUME NEW u \in Thread PROVE Waiting(u)'
    BY <1>1, <1>4, <2>1 DEF Owners, Waiting, here
  <2> QED
    BY <2>2, <2>3 DEF Owners
<1>17. m \in 0 .. ETH_TX_DESC_CNT /\ q + 1 \in 0 .. ETH_TX_DESC_CNT
  BY <1>8, <1>10
<1> QED
  BY <1>1, <1>6, <1>7, <1>12, <1>13, <1>14, <1>15, <1>16, <1>17 DEF Safe, Good, history

(* The call that fills, and its place behind what was published *)
LEMMA FillerIs ==
  ASSUME Typed, Safe, NEW t \in Thread, pc[t] \in {"next", "publish"},
         NEW m \in 0 .. ETH_TX_DESC_CNT, NEW q \in 0 .. ETH_TX_DESC_CNT, Good(m, q)
  PROVE  /\ InRing(t) /\ \A u \in Thread : Filling(u) => u = t
         /\ \A u \in Thread : u # t => ~InRing(u)
         /\ loc[t].first = tail /\ Gap(tail, loc[t].descidx) = q - 1
         /\ q >= 1 /\ 2 * (q - 1) < size[t] /\ m < ETH_TX_DESC_CNT /\ m + q <= ETH_TX_DESC_CNT
         /\ CurTxDesc = tail /\ Gap(dma, tail) = m /\ Gap(dma, loc[t].descidx) = m + q - 1
         /\ m \in Nat /\ q \in Nat /\ ETH_TX_DESC_CNT \in Nat
<1>1. InRing(t) /\ Filling(t) /\ pc[t] # "fill"
  BY DEF InRing, Filling
<1>2. \A u \in Thread : Filling(u) => u = t
  BY <1>1 DEF Safe, Alone
<1>3. \A u \in Thread : u # t => ~InRing(u)
  BY <1>2 DEF InRing, Filling
<1>4. m \in Nat /\ q \in Nat /\ ETH_TX_DESC_CNT \in Nat
  BY TxRingAssumption
<1>5. /\ loc[t].first = tail /\ Gap(tail, loc[t].descidx) = q - 1
      /\ q >= 1 /\ 2 * (q - 1) < size[t] /\ m < ETH_TX_DESC_CNT /\ m + q <= ETH_TX_DESC_CNT
      /\ CurTxDesc = tail /\ (Gap(dma, tail) = m \/ m = ETH_TX_DESC_CNT)
  BY <1>1 DEF Good, Filler, Owned
<1>6. Gap(dma, tail) = m
  BY <1>4, <1>5
<1>7. Gap(dma, loc[t].descidx) = m + q - 1
  BY <1>4, <1>5, <1>6, Fields, GapSum
<1> QED
  BY <1>1, <1>2, <1>3, <1>4, <1>5, <1>6, <1>7

(* NextDescriptor: it is free, or everything that was filled is taken back. *)
LEMMA SafeNext ==
  ASSUME Typed, Safe, NEW t \in Thread, NextDescriptor(t)
  PROVE  Safe'
<1> DEFINE next == After(loc[t].descidx)
<1>1. /\ loc[t].descidx \in Desc /\ loc[t].first \in Desc /\ next \in Desc
      /\ pc[t] = "next" /\ Cleared(next) \in [Desc -> Content]
      /\ \A d \in Desc : Alike(Cleared(next)[d], desc[d]) /\ Cleared(next)[d].gone = desc[d].gone
      /\ UNCHANGED <<dmaVars, CurTxDesc, gState, history>>
      /\ \/ own[next] /\ own' = Undone(t) /\ Return(t, Cleared(next))
         \/ /\ ~own[next] /\ desc' = Cleared(next) /\ own' = own /\ size' = size
            /\ pc' = [pc EXCEPT ![t] = "fill"]
            /\ loc' \in [Thread -> Locals]
            /\ loc'[t].first = loc[t].first /\ loc'[t].descidx = next
            /\ loc'[t].k = loc[t].k
            /\ \A u \in Thread : u # t => loc'[u] = loc[u]
  BY NextIs
<1>2. PICK m \in 0 .. ETH_TX_DESC_CNT, q \in 0 .. ETH_TX_DESC_CNT :
        Good(m, q) /\ (~late => ~stale /\ Owners(m))
  BY DEF Safe
<1>3. /\ InRing(t) /\ \A u \in Thread : Filling(u) => u = t
      /\ \A u \in Thread : u # t => ~InRing(u)
      /\ loc[t].first = tail /\ Gap(tail, loc[t].descidx) = q - 1
      /\ q >= 1 /\ 2 * (q - 1) < size[t] /\ m < ETH_TX_DESC_CNT /\ m + q <= ETH_TX_DESC_CNT
      /\ CurTxDesc = tail /\ Gap(dma, tail) = m /\ Gap(dma, loc[t].descidx) = m + q - 1
      /\ m \in Nat /\ q \in Nat /\ ETH_TX_DESC_CNT \in Nat
  BY <1>1, <1>2, FillerIs
<1>4. \A d \in Desc : own[d] <=> Gap(dma, d) < m + q
  BY <1>2 DEF Good, Owned
<1>5. \A d \in Desc : Gap(dma, d) \in Nat /\ Gap(dma, d) < ETH_TX_DESC_CNT /\ Gap(tail, d) \in Nat
                      /\ Gap(tail, d) < ETH_TX_DESC_CNT
  BY Fields, GapFacts
<1>6. CASE own' = Undone(t) /\ Return(t, Cleared(next))
  <2>1. ASSUME NEW d \in Desc PROVE own'[d] <=> Gap(dma, d) < m
    <3>1. own'[d] <=> own[d] /\ ~(Gap(tail, d) <= q - 1)
      BY <1>1, <1>3, <1>6, SpanIs DEF Undone
    <3>2. Gap(dma, d) = IF m + Gap(tail, d) < ETH_TX_DESC_CNT
                        THEN m + Gap(tail, d) ELSE m + Gap(tail, d) - ETH_TX_DESC_CNT
      BY <1>3, Fields, GapSum
    <3>3. Gap(dma, d) < m <=> Gap(dma, d) < m + q /\ ~(Gap(tail, d) <= q - 1)
      BY <1>3, <1>5, <3>2
    <3> QED
      BY <1>4, <3>1, <3>3
  <2>2. \A d \in Desc : own'[d] <=> Gap(dma, d) < m + 0
    BY <1>3, <2>1
  <2>3. ASSUME ~late', NEW d \in Desc, own'[d] PROVE desc[d].of # t
    <3>1. Gap(dma, d) < m /\ own[d] /\ ~late
      BY <1>1, <1>3, <1>4, <1>5, <2>1, <2>3 DEF history
    <3>2. InRing(desc[d].of) => Gap(dma, d) >= m
      BY <1>2, <3>1 DEF Owners, Owner
    <3> QED
      BY <1>3, <1>5, <3>1, <3>2
  <2>4. own' \in [Desc -> BOOLEAN]
    BY <1>6 DEF Undone
  <2>5. Alone /\ ~mixed /\ mixed' = mixed /\ stale' = stale /\ late' = late
    BY <1>1 DEF Safe, history
  <2> HIDE DEF next
  <2> QED
    BY <1>1, <1>2, <1>3, <1>6, <2>2, <2>3, <2>4, <2>5, SafeReturn
<1>7. CASE /\ ~own[next] /\ desc' = Cleared(next) /\ own' = own /\ size' = size
           /\ pc' = [pc EXCEPT ![t] = "fill"]
           /\ loc'[t].first = loc[t].first /\ loc'[t].descidx = next
           /\ loc'[t].k = loc[t].k
           /\ \A u \in Thread : u # t => loc'[u] = loc[u]
  <2>1. pc'[t] = "fill" /\ \A u \in Thread : u # t => pc'[u] = pc[u]
    BY <1>7 DEF Typed, TypeOK
  <2>2. /\ \A u \in Thread : InRing(u)' <=> InRing(u)
        /\ \A u \in Thread : Filling(u)' <=> Filling(u)
    BY <1>1, <2>1 DEF InRing, Filling
  <2>3. Alone' /\ ~mixed'
    BY <1>1, <2>2 DEF Safe, Alone, history
  <2>4. m + q < ETH_TX_DESC_CNT
    <3>1. m + q # ETH_TX_DESC_CNT
      BY <1>1, <1>4, <1>5, <1>7
    <3> QED
      BY <1>3, <3>1
  <2>5. Gap(tail, next) = q
    <3>1. q - 1 + 1 = q /\ q < ETH_TX_DESC_CNT
      BY <1>3, <2>4
    <3> QED
      BY <1>1, <1>3, <3>1, Fields, AfterFacts
  <2>6. Owned(m, q)'
    BY <1>1, <1>2, <1>7, OwnedKept DEF Good, dmaVars
  <2>7. Filler(m, q)'
    <3>1. loc[t].k = 2 * q
      BY <1>1, <1>2, <1>3 DEF Good, Filler
    <3>2. \A u \in Thread : InRing(u)' => u = t
      BY <1>3, <2>2
    <3>3. /\ InRing(t)' /\ pc'[t] = "fill" /\ loc'[t].first = tail' /\ loc'[t].k = 2 * q
          /\ Gap(loc'[t].first, loc'[t].descidx) = q
      BY <1>1, <1>3, <1>7, <2>1, <2>2, <2>5, <3>1 DEF dmaVars
    <3> QED
      BY <1>3, <2>4, <3>2, <3>3 DEF Filler
  <2>8. \A d \in Desc : Alike(desc'[d], desc[d]) /\ desc'[d].gone = desc[d].gone
    BY <1>1, <1>7
  <2>9. Unfinished(m, q)'
    <3>1. \A u \in Thread : loc'[u].k = loc[u].k
      BY <1>7
    <3> QED
      BY <1>1, <1>2, <1>7, <2>2, <2>8, <3>1 DEF Good, Unfinished, Alike, dmaVars
  <2>10. Frames(m)'
    <3>1. \A d \in Desc : own'[d] => own[d] /\ Alike(desc'[d], desc[d])
      BY <1>7, <2>8
    <3>2. \A d \in Desc : Gap(dma, d) < m => own'[d]
      BY <1>3, <1>4, <1>5, <1>7
    <3>3. dma' = dma /\ line' = line
      BY <1>1 DEF dmaVars
    <3> HIDE DEF next
    <3> QED
      BY <1>2, <1>3, <3>1, <3>2, <3>3, FramesKept DEF Good
  <2>11. ~late => Owners(m)'
    <3> SUFFICES ASSUME ~late PROVE Owners(m)'
      OBVIOUS
    <3>1. ASSUME NEW d \in Desc, own'[d] PROVE Owner(d, m)'
      <4>1. /\ Owner(d, m) /\ desc[d].of \in Thread /\ desc'[d].of = desc[d].of
            /\ desc'[d].gone = desc[d].gone
        BY <1>2, <1>7, <2>8, <3>1, Fields, ContentIs DEF Owners, Alike
      <4>2. CASE desc[d].of = t
        <5>1. Gap(tail, d) <= q
          <6>1. Gap(tail, d) <= q - 1
            BY <1>3, <4>1, <4>2 DEF Owner
          <6> QED
            BY <1>3, <1>5, <6>1
        <5>2. Gap(loc'[t].first, d) <= Gap(loc'[t].first, loc'[t].descidx)
          BY <1>3, <1>7, <2>5, <5>1
        <5> QED
          BY <1>1, <1>3, <2>1, <2>2, <4>1, <4>2, <5>2 DEF Owner, dmaVars
      <4>3. CASE desc[d].of # t
        BY <1>1, <1>7, <2>1, <2>2, <4>1, <4>3 DEF Owner, dmaVars
      <4> QED
        BY <4>2, <4>3
    <3>2. ASSUME NEW u \in Thread PROVE Waiting(u)'
      BY <1>2, <1>7, <2>1 DEF Owners, Waiting
    <3> QED
      BY <3>1, <3>2 DEF Owners
  <2> QED
    BY <1>1, <1>2, <2>3, <2>6, <2>7, <2>9, <2>10, <2>11 DEF Safe, Good, history
<1> QED
  BY <1>1, <1>6, <1>7

(* Publish: what was filled is a whole frame, and the DMA may go on to it. *)
LEMMA SafePublish ==
  ASSUME Typed, Safe, NEW t \in Thread, Publish(t)
  PROVE  Safe'
<1> DEFINE last == loc[t].descidx
<1>1. /\ pc[t] = "publish" /\ pc' = [pc EXCEPT ![t] = "wait"]
      /\ CurTxDesc' = After(last) /\ tail' = After(last)
      /\ UNCHANGED <<own, desc, st, dma, line, gState, size, loc, history>>
  BY DEF Publish, Runs, Goto, Tail
<1>2. PICK m \in 0 .. ETH_TX_DESC_CNT, q \in 0 .. ETH_TX_DESC_CNT :
        Good(m, q) /\ (~late => ~stale /\ Owners(m))
  BY DEF Safe
<1>3. /\ InRing(t) /\ \A u \in Thread : Filling(u) => u = t
      /\ \A u \in Thread : u # t => ~InRing(u)
      /\ loc[t].first = tail /\ Gap(tail, last) = q - 1
      /\ q >= 1 /\ 2 * (q - 1) < size[t] /\ m < ETH_TX_DESC_CNT /\ m + q <= ETH_TX_DESC_CNT
      /\ CurTxDesc = tail /\ Gap(dma, tail) = m /\ Gap(dma, last) = m + q - 1
      /\ m \in Nat /\ q \in Nat /\ ETH_TX_DESC_CNT \in Nat
  BY <1>1, <1>2, FillerIs
<1>4. /\ \A d \in Desc : own[d] <=> Gap(dma, d) < m + q
      /\ \A d \in Desc : Gap(dma, d) \in Nat /\ Gap(dma, d) < ETH_TX_DESC_CNT
      /\ last \in Desc /\ dma \in Desc
  BY <1>2, Fields, GapFacts DEF Good, Owned
<1>5. pc'[t] = "wait" /\ \A u \in Thread : u # t => pc'[u] = pc[u]
  BY <1>1 DEF Typed, TypeOK
<1> HIDE DEF last
<1>6. \A u \in Thread : ~InRing(u)'
  BY <1>3, <1>5 DEF InRing
<1>7. Alone' /\ ~mixed'
  BY <1>1, <1>3, <1>5 DEF Safe, Alone, Filling, history
<1>8. Gap(dma, After(last)) = m + q \/ (m + q = ETH_TX_DESC_CNT /\ After(last) = dma)
  <2>1. Gap(dma, last) + 1 = m + q
    BY <1>3
  <2>2. CASE m + q < ETH_TX_DESC_CNT
    BY <1>4, <2>1, <2>2, AfterFacts
  <2>3. CASE m + q = ETH_TX_DESC_CNT
    BY <1>4, <2>1, <2>3, AfterFacts
  <2> QED
    BY <1>3, <2>2, <2>3
<1>9. m + q \in 0 .. ETH_TX_DESC_CNT /\ 0 \in 0 .. ETH_TX_DESC_CNT /\ m + q > 0 /\ m + q + 0 = m + q
  BY <1>3
<1>10. Owned(m + q, 0)'
  BY <1>1, <1>3, <1>4, <1>8, <1>9 DEF Owned
<1>11. Filler(m + q, 0)' /\ Unfinished(m + q, 0)'
  BY <1>6 DEF Filler, Unfinished
<1>12. Frames(m + q)'
  <2>1. Frames(m) /\ Unfinished(m, q)
    BY <1>2 DEF Good
  <2>2. ASSUME NEW d \in Desc, Gap(dma, d) = m + q - 1 PROVE desc[d].ld
    <3>1. desc[d].n = size[t] /\ desc[d].to = loc[t].k
      BY <1>3, <2>1, <2>2 DEF Unfinished
    <3>2. loc[t].k = size[t]
      BY <1>1, <1>2, <1>3 DEF Good, Filler
    <3>3. own[d]
      BY <1>3, <1>4, <2>2
    <3> QED
      BY <2>1, <3>1, <3>2, <3>3 DEF Frames, WellFormed
  <2> QED
    BY <1>1, <1>9, <2>1, <2>2 DEF Frames, Continues
<1>13. ~late => Owners(m + q)'
  <2> SUFFICES ASSUME ~late PROVE Owners(m + q)'
    OBVIOUS
  <2>1. ASSUME NEW d \in Desc, own'[d] PROVE Owner(d, m + q)'
    <3>1. own[d] /\ Owner(d, m) /\ desc[d].of \in Thread
      BY <1>1, <1>2, <2>1, Fields, ContentIs DEF Owners
    <3>2. CASE desc[d].of = t
      <4>1. Gap(dma, d) <= Gap(dma, last) /\ Gap(dma, last) < m + q
        BY <1>3, <1>4, <3>1
      <4> QED
        BY <1>1, <1>5, <1>6, <3>1, <3>2, <4>1 DEF Owner, last
    <3>3. CASE desc[d].of # t
      <4>1. pc[desc[d].of] = "wait" /\ pc'[desc[d].of] = "wait"
        BY <1>3, <1>5, <3>1, <3>3 DEF Owner
      <4>2. loc[desc[d].of].descidx \in Desc /\ Gap(dma, loc[desc[d].of].descidx) < m
        BY <3>1, <4>1, Fields DEF Owner
      <4>3. Gap(dma, loc[desc[d].of].descidx) < m + q
        BY <1>3, <1>4, <4>2
      <4> QED
        BY <1>1, <1>6, <3>1, <4>1, <4>3 DEF Owner
    <3> QED
      BY <3>2, <3>3
  <2>2. ASSUME NEW u \in Thread PROVE Waiting(u)'
    BY <1>1, <1>2, <1>3, <1>5, <2>2 DEF Owners, Waiting, last
  <2> QED
    BY <2>1, <2>2 DEF Owners
<1> QED
  BY <1>1, <1>2, <1>7, <1>9, <1>10, <1>11, <1>12, <1>13 DEF Safe, Good, history

(* Transmit: the first of what the DMA owns goes out. *)
LEMMA SafeTransmit ==
  ASSUME Typed, Safe, Transmit
  PROVE  Safe'
<1> DEFINE c == desc[dma]
           ahead == After(dma)
<1>1. /\ own[dma] /\ dma # tail
      /\ own' = [own EXCEPT ![dma] = FALSE] /\ desc' = [desc EXCEPT ![dma] = Unused]
      /\ dma' = ahead /\ line' = (IF c.ld THEN NoLine ELSE Read(c))
      /\ mixed' = (mixed \/ (c.ld /\ ~(Read(c).whole /\ c.to = c.n)))
      /\ stale' = (stale \/ c.gone)
      /\ UNCHANGED <<st, tail, CurTxDesc, gState, pc, size, loc, late, overlapped>>
  BY DEF Transmit
<1>2. PICK m \in 0 .. ETH_TX_DESC_CNT, q \in 0 .. ETH_TX_DESC_CNT :
        Good(m, q) /\ (~late => ~stale /\ Owners(m))
  BY DEF Safe
<1>3. /\ \A d \in Desc : own[d] <=> Gap(dma, d) < m + q
      /\ \A d \in Desc : Gap(dma, d) \in Nat /\ Gap(dma, d) < ETH_TX_DESC_CNT
      /\ \A d \in Desc : Gap(dma, d) = 0 <=> dma = d
      /\ dma \in Desc /\ tail \in Desc /\ m \in Nat /\ q \in Nat
      /\ ETH_TX_DESC_CNT \in Nat /\ ETH_TX_DESC_CNT >= 2
      /\ CurTxDesc = tail /\ m + q <= ETH_TX_DESC_CNT
  BY <1>2, Fields, GapFacts, TxRingAssumption DEF Good, Owned
<1>4. Gap(dma, tail) = m /\ m > 0 /\ m < ETH_TX_DESC_CNT
  BY <1>1, <1>2, <1>3 DEF Good, Owned
<1>5. \A d \in Desc : Gap(ahead, d) = IF d = dma THEN ETH_TX_DESC_CNT - 1 ELSE Gap(dma, d) - 1
  BY <1>3, GoingOn
<1>6. ahead \in Desc /\ ahead # dma
  BY <1>3, AfterFacts
<1>7. /\ \A d \in Desc : own'[d] <=> own[d] /\ d # dma
      /\ \A d \in Desc : d # dma => desc'[d] = desc[d]
  BY <1>1 DEF Typed, TypeOK
<1> HIDE DEF c, ahead
<1>8. \A d \in Desc : own'[d] <=> Gap(ahead, d) < m - 1 + q
  BY <1>3, <1>4, <1>5, <1>7
<1>9. m - 1 \in 0 .. ETH_TX_DESC_CNT /\ m - 1 + q <= ETH_TX_DESC_CNT /\ m - 1 + q < ETH_TX_DESC_CNT
  BY <1>3, <1>4
<1>10. Owned(m - 1, q)'
  BY <1>1, <1>3, <1>4, <1>5, <1>8, <1>9 DEF Owned
<1>11. Filler(m - 1, q)'
  <2>1. \A u \in Thread : InRing(u)' <=> InRing(u)
    BY <1>1 DEF InRing
  <2>2. m + q < ETH_TX_DESC_CNT => m - 1 + q < ETH_TX_DESC_CNT
    BY <1>9
  <2> QED
    BY <1>1, <1>2, <1>9, <1>3, <1>4, <2>1, <2>2 DEF Good, Filler
<1>12. Unfinished(m - 1, q)'
  <2>1. ASSUME NEW u \in Thread, NEW d \in Desc, InRing(u)', q > 0, Gap(ahead, d) = m - 1 + q - 1
        PROVE  desc'[d].of = u /\ desc'[d].n = size'[u] /\ desc'[d].to = loc'[u].k
    <3>1. d # dma /\ Gap(dma, d) = m + q - 1
      BY <1>3, <1>4, <1>5, <2>1
    <3>2. InRing(u)
      BY <1>1, <2>1 DEF InRing
    <3> QED
      BY <1>1, <1>2, <1>7, <2>1, <3>1, <3>2 DEF Good, Unfinished
  <2> QED
    BY <1>1, <2>1 DEF Unfinished
<1>13. Frames(m) /\ WellFormed(c) /\ Continues(c) /\ c \in Content
  BY <1>1, <1>2, <1>3, Fields DEF Good, Frames, c
<1>14. m = 1 => c.ld
  BY <1>3, <1>13 DEF Frames, c
<1>15. /\ Read(c).of = c.of /\ Read(c).n = c.n /\ Read(c).k = c.to /\ Read(c).whole
       /\ c.to >= 1
  <2>1. c.to \in Size /\ c.to >= 1
    BY <1>13, ContentIs DEF Size
  <2>2. Read(c).of = c.of /\ Read(c).n = c.n /\ Read(c).k = c.to
    BY DEF Read
  <2>3. Read(c).whole
    <3>1. CASE line.k = 0
      BY <1>13, <3>1 DEF Read, Continues
    <3>2. CASE line.k # 0
      BY <1>13, <3>2 DEF Read, Continues
    <3> QED
      BY <3>1, <3>2
  <2> QED
    BY <2>1, <2>2, <2>3
<1>16. Frames(m - 1)'
  <2> USE DEF Frames
  <2>1. ASSUME NEW d \in Desc, own'[d] PROVE WellFormed(desc'[d])
    BY <1>7, <1>13, <2>1
  <2>2. ASSUME NEW d \in Desc, own'[d], own'[After(d)], After(d) # ahead
        PROVE  Follows(desc'[d], desc'[After(d)])
    <3>1. After(d) \in Desc
      BY AfterTypes
    <3> QED
      BY <1>7, <1>13, <2>2, <3>1
  <2>3. (own[dma] => Continues(desc[dma]))'
    <3> SUFFICES ASSUME own'[ahead] PROVE Continues(desc[dma])'
      BY <1>1
    <3>1. own[ahead] /\ desc'[ahead] = desc[ahead]
      BY <1>6, <1>7
    <3>2. Follows(c, desc[ahead])
      BY <1>1, <1>3, <1>6, <1>13, <3>1 DEF ahead, c
    <3>3. CASE c.ld
      <4>1. line'.k = 0 /\ desc[ahead].from = 1
        BY <1>1, <3>2, <3>3 DEF NoLine, Follows
      <4> QED
        BY <1>1, <3>1, <4>1 DEF Continues
    <3>4. CASE ~c.ld
      <4>1. line' = Read(c) /\ line'.k # 0 /\ line'.k = c.to
        BY <1>1, <1>15, <3>4
      <4>2. desc[ahead].of = c.of /\ desc[ahead].n = c.n /\ desc[ahead].from = c.to + 1
        BY <3>2, <3>4 DEF Follows
      <4> QED
        BY <1>1, <1>15, <3>1, <4>1, <4>2 DEF Continues
    <3> QED
      BY <3>3, <3>4
  <2>4. m - 1 = 0 => line'.k = 0
    <3> SUFFICES ASSUME m - 1 = 0 PROVE line'.k = 0
      OBVIOUS
    <3>1. c.ld
      BY <1>3, <1>14
    <3> QED
      BY <1>1, <3>1 DEF NoLine
  <2>5. ASSUME NEW d \in Desc, m - 1 > 0, Gap(ahead, d) = m - 1 - 1 PROVE desc'[d].ld
    <3>1. d # dma /\ Gap(dma, d) = m - 1
      BY <1>3, <1>4, <1>5, <2>5
    <3> QED
      BY <1>4, <1>7, <1>13, <3>1
  <2> QED
    BY <1>1, <2>1, <2>2, <2>3, <2>4, <2>5
<1>17. Alone' /\ ~mixed'
  BY <1>1, <1>13, <1>15 DEF Safe, Alone, Filling, WellFormed
<1>18. ~late => ~stale' /\ Owners(m - 1)'
  <2> SUFFICES ASSUME ~late PROVE ~stale' /\ Owners(m - 1)'
    OBVIOUS
  <2>1. ~stale'
    BY <1>1, <1>2, <1>3 DEF Owners, Owner, c
  <2>2. ASSUME NEW d \in Desc, own'[d] PROVE Owner(d, m - 1)'
    <3> DEFINE u == desc[d].of
    <3>1. /\ own[d] /\ d # dma /\ desc'[d] = desc[d] /\ Owner(d, m) /\ u \in Thread
          /\ loc[u].descidx \in Desc
      BY <1>2, <1>7, <2>2, Fields, ContentIs DEF Owners
    <3>2. Gap(ahead, d) = Gap(dma, d) - 1 /\ Gap(dma, d) > 0
      BY <1>3, <1>5, <3>1
    <3> HIDE DEF u
    <3>3. ASSUME pc[u] = "wait"
          PROVE  /\ Gap(ahead, d) <= Gap(ahead, loc[u].descidx)
                 /\ Gap(ahead, loc[u].descidx) < m - 1
      <4>1. Gap(dma, d) <= Gap(dma, loc[u].descidx) /\ Gap(dma, loc[u].descidx) < m
        BY <3>1, <3>3 DEF Owner, u
      <4>2. loc[u].descidx # dma
        BY <1>3, <3>1, <3>2, <4>1
      <4>3. Gap(ahead, loc[u].descidx) = Gap(dma, loc[u].descidx) - 1
        BY <1>5, <3>1, <4>2
      <4> QED
        BY <1>3, <3>1, <3>2, <4>1, <4>3
    <3>4. ASSUME InRing(u) PROVE Gap(ahead, d) >= m - 1
      <4>1. Gap(dma, d) >= m
        BY <3>1, <3>4 DEF Owner, u
      <4>2. Gap(dma, d) \in Nat /\ m \in Nat
        BY <1>3
      <4> QED
        BY <3>2, <4>1, <4>2
    <3>5. \A v \in Thread : InRing(v)' <=> InRing(v)
      BY <1>1 DEF InRing
    <3> QED
      BY <1>1, <3>1, <3>3, <3>4, <3>5 DEF Owner, u
  <2>3. ASSUME NEW u \in Thread PROVE Waiting(u)'
    BY <1>1, <1>2 DEF Owners, Waiting
  <2> QED
    BY <2>1, <2>2, <2>3 DEF Owners
<1> QED
  BY <1>1, <1>2, <1>9, <1>10, <1>11, <1>12, <1>16, <1>17, <1>18 DEF Safe, Good

(* The link thread stops and starts the DMA without touching the ring. *)
LEMMA SafeLink ==
  ASSUME Typed, Safe, LinkChange
  PROVE  Safe'
<1>1. /\ pc[LinkThread] \in {"idle", "stop", "start"}
      /\ UNCHANGED <<own, desc, dma, tail, line, CurTxDesc, size, loc, history>>
  BY LinkIs DEF Typed
<1>2. PICK p \in {"idle", "stop", "start"} : pc' = [pc EXCEPT ![LinkThread] = p]
  BY LinkIs DEF Typed
<1>3. /\ \A u \in Thread : InRing(u)' <=> InRing(u)
      /\ \A u \in Thread : Filling(u)' <=> Filling(u)
      /\ \A u \in Thread : pc'[u] = "wait" <=> pc[u] = "wait"
      /\ \A u \in Thread : InRing(u) => pc'[u] = pc[u]
  BY <1>1, <1>2, SenderFacts DEF InRing, Filling, Typed, TypeOK
<1>4. PICK m \in 0 .. ETH_TX_DESC_CNT, q \in 0 .. ETH_TX_DESC_CNT :
        Good(m, q) /\ (~late => ~stale /\ Owners(m))
  BY DEF Safe
<1>5. Alone' /\ ~mixed'
  BY <1>1, <1>3 DEF Safe, Alone, history
<1>6. Owned(m, q)'
  BY <1>1, <1>4, OwnedKept DEF Good
<1>7. Filler(m, q)' /\ Unfinished(m, q)'
  BY <1>1, <1>3, <1>4 DEF Good, Filler, Unfinished
<1>8. Frames(m)'
  BY <1>1, <1>4 DEF Good, Frames, Continues
<1>9. Owners(m) => Owners(m)'
  <2> SUFFICES ASSUME Owners(m) PROVE Owners(m)'
    OBVIOUS
  <2>1. ASSUME NEW d \in Desc, own'[d] PROVE Owner(d, m)'
    <3>1. Owner(d, m) /\ desc[d].of \in Thread
      BY <1>1, <2>1, Fields, ContentIs DEF Owners
    <3> QED
      BY <1>1, <1>3, <3>1 DEF Owner
  <2>2. ASSUME NEW u \in Thread PROVE Waiting(u)'
    BY <1>1, <1>3 DEF Owners, Waiting
  <2> QED
    BY <2>1, <2>2 DEF Owners
<1> QED
  BY <1>1, <1>4, <1>5, <1>6, <1>7, <1>8, <1>9 DEF Safe, Good, history

-------------------------------------------------------------------------------
(* The invariant *)

LEMMA InitSafe == Init => Safe
<1> SUFFICES ASSUME Init PROVE Safe
  OBVIOUS
<1> USE DEF Init
<1>1. /\ 0 \in Desc /\ 0 \in 0 .. ETH_TX_DESC_CNT /\ ETH_TX_DESC_CNT >= 0 /\ Gap(0, 0) = 0
      /\ \A d \in Desc : ~(Gap(0, d) < 0 + 0)
  BY TxRingAssumption DEF Desc, Gap
<1>2. \A t \in Thread : pc[t] = "idle"
  OBVIOUS
<1>3. Alone
  BY <1>2 DEF Alone, Filling
<1>4. \A t \in Thread : ~InRing(t)
  BY <1>2 DEF InRing
<1>5. Owned(0, 0)
  <2>1. \A d \in Desc : ~own[d]
    OBVIOUS
  <2> QED
    BY <1>1, <2>1 DEF Owned
<1>6. Filler(0, 0) /\ Unfinished(0, 0)
  BY <1>4 DEF Filler, Unfinished
<1>7. Frames(0)
  BY <1>1 DEF Frames, NoLine
<1>8. Owners(0)
  BY <1>2 DEF Owners, Waiting
<1> QED
  BY <1>1, <1>3, <1>5, <1>6, <1>7, <1>8 DEF Safe, Good

LEMMA InitIInv == Init => IInv
BY InitTypes, InitSafe DEF IInv

LEMMA NextIInv == IInv /\ [Next]_vars => IInv'
<1> SUFFICES ASSUME IInv, [Next]_vars PROVE IInv'
  OBVIOUS
<1>1. Typed /\ Typed'
  BY NextTypes DEF IInv, Typed
<1>2. overlapped => overlapped'
  BY DEF Next, vars, history, Transmit, LinkChange, low_level_output, HAL_ETH_Transmit, Fill,
         NextDescriptor, Publish, WaitEnds
<1>3. ASSUME ~overlapped' PROVE Safe'
  <2>1. Safe
    BY <1>2, <1>3 DEF IInv
  <2>2. CASE UNCHANGED vars
    BY <2>1, <2>2 DEF vars, dmaVars, history, Safe, Alone, Filling, Good, Owned, Filler, Frames,
       Unfinished, InRing, Owners, Owner, Waiting, Continues
  <2> QED
    BY <1>1, <1>3, <2>1, <2>2, SafeCall, SafeTransmitCall, SafeFill, SafeNext, SafePublish,
       SafeWaitEnds, SafeTransmit, SafeLink DEF Next
<1> QED
  BY <1>1, <1>3 DEF IInv, Typed

LEMMA Invariant == Spec => []IInv
BY InitIInv, NextIInv, PTL DEF Spec

-------------------------------------------------------------------------------

(* The state of the ring, the DMA and the calls keeps its type, also after two
   calls have met in the driver. *)
THEOREM EthTxTypes == Spec => []TypeOK
<1>1. IInv => TypeOK
  BY DEF IInv
<1> QED
  BY Invariant, <1>1, PTL

(* What goes out is whole frames, whatever was given up, refused or cut off by
   the link before (stm32h7xx_hal_eth.c:2866-2947). *)
THEOREM FramesAreWhole == Spec => []FramesWhole
<1>1. IInv => FramesWhole
  BY DEF IInv, Safe, FramesWhole
<1> QED
  BY Invariant, <1>1, PTL

(* The DMA reads only memory whose owner still waits, until a wait is given up
   (stm32h7xx_hal_eth.c:999-1003). *)
THEOREM SentIsIntact == Spec => []SentIntact
<1>1. IInv => SentIntact
  BY DEF IInv, Safe, SentIntact
<1> QED
  BY Invariant, <1>1, PTL

(* The ring stalls only when it is full (stm32h7xx_hal_eth.c:979). *)
THEOREM OnlyFullStalls == Spec => []StallsOnlyFull
<1>1. IInv => StallsOnlyFull
  <2> SUFFICES ASSUME IInv, own[dma], dma = tail, ~overlapped, \A t \in Thread : ~Filling(t)
               PROVE  \A d \in Desc : own[d]
    BY DEF StallsOnlyFull
  <2>1. Typed
    BY DEF IInv, Typed
  <2>2. PICK m \in 0 .. ETH_TX_DESC_CNT, q \in 0 .. ETH_TX_DESC_CNT : Good(m, q)
    BY DEF IInv, Safe
  <2>3. \A t \in Thread : ~InRing(t)
    BY DEF InRing, Filling
  <2>4. q = 0 /\ m \in Nat
    BY <2>2, <2>3, TxRingAssumption DEF Good, Filler
  <2>5. /\ dma \in Desc /\ Gap(dma, dma) = 0
        /\ \A d \in Desc : Gap(dma, d) \in Nat /\ Gap(dma, d) < ETH_TX_DESC_CNT
    BY <2>1, Fields, GapFacts
  <2>6. m = ETH_TX_DESC_CNT
    BY <2>2, <2>4, <2>5 DEF Good, Owned
  <2> QED
    BY <2>2, <2>4, <2>5, <2>6 DEF Good, Owned
<1> QED
  BY Invariant, <1>1, PTL

(* A call that waits for all that the DMA owns of an arc has filled no less. *)
LEMMA ArcOfOne ==
  ASSUME Typed, NEW f \in Desc, NEW g \in Desc, NEW m \in 1 .. ETH_TX_DESC_CNT,
         2 * g < ETH_TX_DESC_CNT,
         \A d \in Desc : Gap(dma, d) < m => Gap(f, d) <= g
  PROVE  m <= g + 1
<1> DEFINE x == Gap(f, dma)
<1>1. /\ dma \in Desc /\ ETH_TX_DESC_CNT \in Nat /\ ETH_TX_DESC_CNT >= 2 /\ m \in Nat /\ g \in Nat
      /\ x \in Nat /\ x < ETH_TX_DESC_CNT /\ Gap(dma, dma) = 0
  <2>1. dma \in Desc
    BY Fields
  <2>2. x \in Nat /\ x < ETH_TX_DESC_CNT /\ Gap(dma, dma) = 0
    BY <2>1, GapFacts
  <2> HIDE DEF x
  <2> QED
    BY <2>1, <2>2, TxRingAssumption DEF Desc
<1>2. x <= g
  BY <1>1
<1> HIDE DEF x
<1>3. \A y \in Desc : y < m => \E d \in Desc : /\ Gap(dma, d) = y
                                            /\ Gap(f, d) <= g
                                            /\ Gap(f, d) = IF x + y < ETH_TX_DESC_CNT
                                                           THEN x + y ELSE x + y - ETH_TX_DESC_CNT
  <2> SUFFICES ASSUME NEW y \in Desc, y < m
               PROVE  \E d \in Desc : /\ Gap(dma, d) = y
                                      /\ Gap(f, d) <= g
                                      /\ Gap(f, d) = IF x + y < ETH_TX_DESC_CNT
                                                     THEN x + y ELSE x + y - ETH_TX_DESC_CNT
    OBVIOUS
  <2>1. PICK d \in Desc : Gap(dma, d) = y
    BY <1>1, AtGap
  <2>2. Gap(f, d) <= g
    BY <2>1
  <2>3. Gap(f, d) = IF x + y < ETH_TX_DESC_CNT THEN x + y ELSE x + y - ETH_TX_DESC_CNT
    BY <1>1, <2>1, GapSum DEF x
  <2> QED
    BY <2>1, <2>2, <2>3
<1>4. CASE x + m - 1 < ETH_TX_DESC_CNT
  <2>1. m - 1 \in Desc /\ m - 1 < m
    BY <1>1 DEF Desc
  <2>2. x + (m - 1) <= g
    BY <1>1, <1>3, <1>4, <2>1
  <2> QED
    BY <1>1, <2>2
<1>5. CASE x + m - 1 >= ETH_TX_DESC_CNT
  <2>1. /\ ETH_TX_DESC_CNT - 1 - x \in Desc /\ ETH_TX_DESC_CNT - 1 - x < m
        /\ x + (ETH_TX_DESC_CNT - 1 - x) = ETH_TX_DESC_CNT - 1
    BY <1>1, <1>5 DEF Desc
  <2>2. ETH_TX_DESC_CNT - 1 <= g
    BY <1>1, <1>3, <2>1
  <2> QED
    BY <1>1, <2>2
<1> QED
  BY <1>1, <1>4, <1>5

(* Why a frame finds room *)
LEMMA RoomFor ==
  ASSUME \E j \in Nat : ETH_TX_DESC_CNT = 2 * j
  PROVE  IInv => FindsRoom
<1> SUFFICES ASSUME IInv, ~late, ~overlapped, NEW t \in Thread,
                    \/ pc[t] = "check" /\ own[CurTxDesc]
                    \/ pc[t] = "next" /\ own[After(loc[t].descidx)],
                    \A u, v \in Thread : pc[u] = "wait" /\ pc[v] = "wait" => u = v
             PROVE  FALSE
  BY DEF FindsRoom
<1>1. Typed /\ Safe /\ Alone
  BY DEF IInv, Typed, Safe
<1>2. PICK m \in 0 .. ETH_TX_DESC_CNT, q \in 0 .. ETH_TX_DESC_CNT : Good(m, q) /\ Owners(m)
  BY DEF IInv, Safe
<1>3. /\ m \in Nat /\ q \in Nat /\ ETH_TX_DESC_CNT \in Nat /\ ETH_TX_DESC_CNT >= 2
      /\ dma \in Desc /\ CurTxDesc = tail /\ tail \in Desc
      /\ Gap(dma, tail) = m \/ m = ETH_TX_DESC_CNT
      /\ m + q <= ETH_TX_DESC_CNT
      /\ \A d \in Desc : own[d] <=> Gap(dma, d) < m + q
      /\ \A d \in Desc : Gap(dma, d) \in Nat /\ Gap(dma, d) < ETH_TX_DESC_CNT
  BY <1>1, <1>2, Fields, GapFacts, TxRingAssumption DEF Good, Owned
<1>4. m + q = ETH_TX_DESC_CNT /\ 2 * q < ETH_TX_DESC_CNT
  <2>1. CASE pc[t] = "check" /\ own[CurTxDesc]
    <3>1. \A u \in Thread : ~InRing(u)
      BY <1>1, <2>1 DEF Alone, InRing, Filling
    <3>2. q = 0
      BY <1>2, <3>1 DEF Good, Filler
    <3> QED
      BY <1>3, <2>1, <3>2
  <2>2. CASE pc[t] = "next" /\ own[After(loc[t].descidx)]
    <3>1. Gap(dma, loc[t].descidx) = m + q - 1 /\ InRing(t) /\ loc[t].descidx \in Desc
      BY <1>1, <1>2, <2>2, FillerIs, Fields
    <3>2. loc[t].k = 2 * q /\ loc[t].k < size[t] /\ size[t] <= ETH_TX_DESC_CNT /\ size[t] \in Nat
      BY <1>1, <1>2, <2>2, <3>1, Fields DEF Good, Filler, Typed, PartsLeft
    <3>3. CASE m + q < ETH_TX_DESC_CNT
      <4>1. After(loc[t].descidx) \in Desc /\ Gap(dma, After(loc[t].descidx)) = m + q
        BY <1>3, <3>1, <3>3, AfterFacts
      <4> QED
        BY <1>3, <2>2, <4>1
    <3> QED
      BY <1>3, <3>2, <3>3
  <2> QED
    BY <2>1, <2>2
<1>5. m >= 1 /\ m \in 1 .. ETH_TX_DESC_CNT
  BY <1>3, <1>4
<1>6. ASSUME NEW d \in Desc, Gap(dma, d) < m
      PROVE  /\ desc[d].of \in Thread /\ pc[desc[d].of] = "wait"
             /\ Gap(loc[desc[d].of].first, d)
                  <= Gap(loc[desc[d].of].first, loc[desc[d].of].descidx)
  <2>1. own[d]
    BY <1>3, <1>6
  <2>2. Owner(d, m) /\ desc[d].of \in Thread
    BY <1>1, <1>2, <2>1, Fields, ContentIs DEF Owners
  <2>3. ~InRing(desc[d].of)
    BY <1>3, <1>6, <2>2 DEF Owner
  <2> QED
    BY <2>2, <2>3 DEF Owner
<1>7. Gap(dma, dma) = 0
  BY <1>3, GapFacts
<1> DEFINE u == desc[dma].of
           g == Gap(loc[u].first, loc[u].descidx)
<1>8. u \in Thread /\ pc[u] = "wait"
  BY <1>3, <1>5, <1>6, <1>7
<1>9. loc[u].first \in Desc /\ g \in Desc /\ g \in Nat /\ 2 * g < ETH_TX_DESC_CNT
  <2>1. /\ loc[u].first \in Desc /\ loc[u].descidx \in Desc
        /\ size[u] \in Nat /\ size[u] <= ETH_TX_DESC_CNT
    BY <1>1, <1>8, Fields
  <2>2. 2 * g < size[u]
    BY <1>2, <1>8 DEF Owners, Waiting
  <2>3. g \in Desc /\ g \in Nat
    BY <2>1, GapFacts
  <2> QED
    BY <1>3, <2>1, <2>2, <2>3
<1>10. \A d \in Desc : Gap(dma, d) < m => Gap(loc[u].first, d) <= g
  <2> SUFFICES ASSUME NEW d \in Desc, Gap(dma, d) < m PROVE Gap(loc[u].first, d) <= g
    OBVIOUS
  <2>1. desc[d].of = u
    BY <1>6, <1>8
  <2> QED
    BY <1>6, <2>1
<1> HIDE DEF u, g
<1>11. m <= g + 1
  BY <1>1, <1>5, <1>9, <1>10, ArcOfOne
<1>12. PICK j \in Nat : ETH_TX_DESC_CNT = 2 * j
  OBVIOUS
<1> QED
  BY <1>3, <1>4, <1>9, <1>11, <1>12

(* In a ring of an even number of descriptors, as the build's four are
   (stm32h7xx_hal_conf.h:212), a frame is refused for want of descriptors only
   after a wait was given up or while two other calls wait: a frame takes at most
   half the ring, and one that waits with one that fills never takes all of it
   before the last is filled (stm32h7xx_hal_eth.c:2727 and 2879). *)
THEOREM RoomIsFound ==
  ASSUME \E j \in Nat : ETH_TX_DESC_CNT = 2 * j
  PROVE  Spec => []FindsRoom
BY Invariant, RoomFor, PTL

-------------------------------------------------------------------------------
(* The marks of first descriptors, which FirstMarked is about *)

Marked(c) == c.fd <=> c.from = 1

AllMarked == ~unmarked /\ \A d \in Desc : own[d] => Marked(desc[d])

(* A call has filled a descriptor and finds the next in use. *)
RefusedHalfway(t) == NextDescriptor(t) /\ own[After(loc[t].descidx)]

LEMMA ReturnMarks ==
  ASSUME NEW t \in Thread, NEW c \in [Desc -> Content], Return(t, c),
         NEW d \in Desc, own'[d], Marked(c[d])
  PROVE  Marked(desc'[d])
<1>1. c[d] \in Content
  OBVIOUS
<1>2. desc'[d] = IF c[d].of = t THEN [c[d] EXCEPT !.gone = TRUE] ELSE c[d]
  BY DEF Return
<1>3. ASSUME NEW b \in Content PROVE [b EXCEPT !.gone = TRUE].fd = b.fd /\ [b EXCEPT !.gone = TRUE].from = b.from
  BY DEF Content
<1> QED
  BY <1>1, <1>2, <1>3 DEF Marked

LEMMA MarksKept ==
  ASSUME IInv, Next, AllMarked, ~overlapped'
  PROVE  AllMarked' \/ \E t \in Thread : RefusedHalfway(t)
<1>0. overlapped => overlapped'
  BY DEF Next, history, Transmit, LinkChange, low_level_output, HAL_ETH_Transmit,
         Fill, NextDescriptor, Publish, WaitEnds
<1>1. Typed /\ ~overlapped /\ Safe
  BY <1>0 DEF IInv, Typed
<1>2. desc \in [Desc -> Content] /\ own \in [Desc -> BOOLEAN]
  BY <1>1 DEF Typed, TypeOK
<1>3. ASSUME UNCHANGED <<unmarked, own>>, NEW t \in Thread, Return(t, desc) PROVE AllMarked'
  <2>1. \A d \in Desc : own'[d] => Marked(desc'[d])
    BY <1>2, <1>3, ReturnMarks DEF AllMarked
  <2> QED
    BY <1>3, <2>1 DEF AllMarked, Marked
<1>4. ASSUME UNCHANGED <<unmarked, own, desc>> PROVE AllMarked'
  BY <1>4 DEF AllMarked, Marked
<1>5. CASE Transmit
  <2>1. /\ own[dma] /\ own' = [own EXCEPT ![dma] = FALSE] /\ desc' = [desc EXCEPT ![dma] = Unused]
        /\ unmarked' = (unmarked \/ desc[dma].fd # (desc[dma].from = 1)) /\ dma \in Desc
    BY <1>1, <1>5, Fields DEF Transmit
  <2>2. desc[dma].fd \in BOOLEAN /\ Marked(desc[dma])
    BY <1>2, <2>1, ContentIs DEF AllMarked
  <2>3. ~unmarked'
    BY <2>1, <2>2 DEF AllMarked, Marked
  <2>4. \A d \in Desc : own'[d] => own[d] /\ desc'[d] = desc[d]
    BY <1>2, <2>1
  <2> QED
    BY <2>3, <2>4 DEF AllMarked, Marked
<1>6. CASE LinkChange
  BY <1>4, <1>6 DEF LinkChange, history
<1>7. ASSUME NEW t \in Thread, NEW n \in Lengths, low_level_output(t, n) PROVE AllMarked'
  BY <1>4, <1>7 DEF low_level_output
<1>8. ASSUME NEW t \in Thread, HAL_ETH_Transmit(t) PROVE AllMarked'
  BY <1>3, <1>4, <1>8 DEF HAL_ETH_Transmit, history
<1>9. ASSUME NEW t \in Thread, Fill(t) PROVE AllMarked'
  <2>1. /\ loc[t].descidx \in Desc /\ loc[t].first \in Desc /\ loc[t].k \in Nat /\ pc[t] = "fill"
        /\ desc' = [desc EXCEPT ![loc[t].descidx] = Filled(t)]
        /\ own' = [own EXCEPT ![loc[t].descidx] = TRUE] /\ UNCHANGED history
    BY <1>1, <1>9, FillIs
  <2>2. PICK m \in 0 .. ETH_TX_DESC_CNT, q \in 0 .. ETH_TX_DESC_CNT : Good(m, q)
    BY <1>1 DEF Safe
  <2>3. q \in Nat /\ Gap(loc[t].first, loc[t].descidx) = q /\ loc[t].k = 2 * q
    BY <2>1, <2>2, TxRingAssumption DEF Good, Filler, InRing
  <2>4. loc[t].descidx = loc[t].first <=> loc[t].k = 0
    BY <2>1, <2>3, TxRingAssumption DEF Gap, Desc
  <2>5. Marked(Filled(t))
    <3>1. Filled(t).from = loc[t].k + 1
      BY DEF Filled
    <3>2. Filled(t).fd = (loc[t].descidx = loc[t].first)
      BY Zenon DEF Filled
    <3>3. Filled(t).from = 1 <=> loc[t].k = 0
      BY <2>1, <3>1
    <3> QED
      BY <2>4, <3>2, <3>3 DEF Marked
  <2>6. \A d \in Desc : desc'[d] = IF d = loc[t].descidx THEN Filled(t) ELSE desc[d]
    BY <1>2, <2>1
  <2>7. \A d \in Desc : d # loc[t].descidx => own'[d] = own[d]
    BY <1>2, <2>1
  <2>8. \A d \in Desc : own'[d] => Marked(desc'[d])
    BY <2>5, <2>6, <2>7 DEF AllMarked
  <2> QED
    BY <2>1, <2>8 DEF AllMarked, Marked, history
<1>10. ASSUME NEW t \in Thread, NextDescriptor(t), ~own[After(loc[t].descidx)] PROVE AllMarked'
  <2> DEFINE next == After(loc[t].descidx)
  <2>1. next \in Desc /\ ~own[next] /\ desc' = Cleared(next) /\ own' = own /\ UNCHANGED history
    BY <1>1, <1>10, NextIs
  <2> HIDE DEF next
  <2>2. \A d \in Desc : own'[d] => own[d] /\ desc'[d] = desc[d]
    BY <1>2, <2>1 DEF Cleared
  <2> QED
    BY <2>1, <2>2 DEF AllMarked, Marked, history
<1>11. ASSUME NEW t \in Thread, Publish(t) PROVE AllMarked'
  BY <1>4, <1>11 DEF Publish, history
<1>12. ASSUME NEW t \in Thread, WaitEnds(t) PROVE AllMarked'
  BY <1>3, <1>12 DEF WaitEnds
<1> QED
  BY <1>5, <1>6, <1>7, <1>8, <1>9, <1>10, <1>11, <1>12 DEF Next, RefusedHalfway

(* No descriptor goes out with a wrong mark but for the one way that the run of
   FirstMarked shows: a call that has filled a descriptor and finds the next in
   use, whose mark it has cleared by then (stm32h7xx_hal_eth.c:2866-2879). *)
THEOREM MarksLostByRefusal ==
  Spec => [][AllMarked => AllMarked' \/ overlapped' \/ \E t \in Thread : RefusedHalfway(t)]_vars
<1>1. IInv /\ [Next]_vars =>
        [AllMarked => AllMarked' \/ overlapped' \/ \E t \in Thread : RefusedHalfway(t)]_vars
  BY MarksKept
<1> QED
  BY Invariant, <1>1, PTL DEF Spec

(* In a ring like the build's that takes a wait that was given up, or two calls
   that wait while a third sends. *)
THEOREM MarksLostByCrowding ==
  ASSUME \E j \in Nat : ETH_TX_DESC_CNT = 2 * j
  PROVE  Spec => [][AllMarked => \/ AllMarked' \/ overlapped' \/ late
                                \/ \E u, v \in Thread : u # v /\ pc[u] = "wait" /\ pc[v] = "wait"]_vars
<1>1. ASSUME IInv, Next, AllMarked, ~overlapped', ~AllMarked', ~late
      PROVE  \E u, v \in Thread : u # v /\ pc[u] = "wait" /\ pc[v] = "wait"
  <2>1. PICK t \in Thread : NextDescriptor(t) /\ own[After(loc[t].descidx)]
    BY <1>1, MarksKept DEF RefusedHalfway
  <2>2. pc[t] = "next" /\ overlapped' = overlapped
    BY <2>1 DEF NextDescriptor, Runs, history
  <2>3. FindsRoom
    BY <1>1, RoomFor
  <2> QED
    BY <1>1, <2>1, <2>2, <2>3 DEF FindsRoom
<1>2. IInv /\ [Next]_vars =>
        [AllMarked => \/ AllMarked' \/ overlapped' \/ late
                      \/ \E u, v \in Thread : u # v /\ pc[u] = "wait" /\ pc[v] = "wait"]_vars
  BY <1>1
<1> QED
  BY Invariant, <1>2, PTL DEF Spec
===============================================================================
