---------------------------- MODULE LoggingProofs ----------------------------
(***************************************************************************)
(* Proofs about Logging: a block has one owner (Owners), the messages on     *)
(* their way are no message of a call that is still under way (Texts), and,  *)
(* until two tasks take a number at once, the counter is the number of       *)
(* numbers taken, but for one that is read and not stored (Numbers).  From   *)
(* the first two follows that the log implements LossyLog, step by step.     *)
(***************************************************************************)
EXTENDS Logging, SequenceTheorems, FiniteSetTheorems, TLAPS

Places == 1 .. Len(xQueue)

Senders == \A t \in Task : buf[t] # None <=> pc[t] # "idle"

Accounted ==
  \A b \in Buffer :
    b \in heap <=> \/ \E t \in Task : buf[t] = b
                   \/ b = pcReceivedString
                   \/ \E i \in Places : xQueue[i] = b

Apart ==
  /\ \A t, u \in Task : buf[t] # None /\ buf[t] = buf[u] => t = u
  /\ \A i, j \in Places : xQueue[i] = xQueue[j] => i = j
  /\ \A t \in Task : buf[t] # None => buf[t] # pcReceivedString
  /\ \A t \in Task, i \in Places : buf[t] # xQueue[i]
  /\ \A i \in Places : xQueue[i] # pcReceivedString

Owners == Senders /\ Accounted /\ Apart

(* Of a call that has handed its message over *)
Sent(m) ==
  /\ m \in Message
  /\ m[2] < calls[m[1]] \/ (m[2] = calls[m[1]] /\ pc[m[1]] = "idle")

Texts ==
  /\ \A t \in Task : buf[t] # None => text[buf[t]] = <<t, calls[t]>> /\ calls[t] > 0
  /\ pcReceivedString # None => Sent(text[pcReceivedString])
  /\ \A i \in Places : Sent(text[xQueue[i]])
  /\ \A i \in 1 .. Len(printed) : Sent(printed[i])

Numbers ==
  ~overlapped =>
    /\ \A t, u \in Task : pc[t] = "store" /\ pc[u] = "store" => t = u
    /\ \A t \in Task : pc[t] = "store" =>
         num[t] = xMessageNumber /\ Len(numbers) = xMessageNumber + 1
    /\ (\A t \in Task : pc[t] # "store") => Len(numbers) = xMessageNumber
    /\ \A i \in 1 .. Len(numbers) : numbers[i] = i - 1

IInv == TypeOK /\ Owners /\ Texts /\ Numbers

-----------------------------------------------------------------------------
LEMMA InitEstablishes == Init => IInv
<1> SUFFICES ASSUME Init PROVE IInv
  OBVIOUS
<1> USE LogAssumption DEF Init
<1>1. TypeOK
  <2>1. xQueue \in Seq(Buffer) /\ numbers \in Seq(Nat) /\ printed \in Seq(Message)
    BY EmptySeq
  <2>2. Len(xQueue) = 0
    BY EmptySeq
  <2>3. Len(xQueue) <= QueueLength /\ calls \in [Task -> 0 .. MaxMessages]
    BY <2>2
  <2>4. /\ pc \in [Task -> {"idle", "number", "store", "send", "free"}]
        /\ overlapped \in BOOLEAN
    OBVIOUS
  <2> QED
    BY <2>1, <2>3, <2>4 DEF TypeOK
<1>2. Owners /\ Texts
  BY EmptySeq DEF Owners, Senders, Accounted, Apart, Texts, Places
<1>3. Numbers
  BY DEF Numbers
<1> QED
  BY <1>1, <1>2, <1>3 DEF IInv

LEMMA TypeStep == TypeOK /\ Owners /\ Texts /\ [Next]_vars => TypeOK'
<1> SUFFICES ASSUME TypeOK, Owners, Texts, [Next]_vars PROVE TypeOK'
  OBVIOUS
<1> USE LogAssumption DEF TypeOK, Goto
<1>1. ASSUME NEW t \in Task, pvPortMalloc(t) PROVE TypeOK'
  <2>1. calls'[t] \in 1 .. MaxMessages
    BY <1>1 DEF pvPortMalloc
  <2>2. PICK b \in Buffer \ heap :
          /\ heap' = heap \cup {b}
          /\ buf' = [buf EXCEPT ![t] = b]
          /\ text' = [text EXCEPT ![b] = <<t, calls'[t]>>]
    BY <1>1 DEF pvPortMalloc
  <2>3. <<t, calls'[t]>> \in Message
    BY <2>1 DEF Message
  <2>4. calls' \in [Task -> 0 .. MaxMessages]
    BY <1>1 DEF pvPortMalloc
  <2>5. heap' \subseteq Buffer /\ buf' \in [Task -> Buffer \cup {None}]
    BY <2>2
  <2>6. text' \in [Buffer -> Message \cup {None}]
    BY <2>2, <2>3
  <2>7. pc' \in [Task -> {"idle", "number", "store", "send", "free"}]
    BY <1>1 DEF pvPortMalloc
  <2> QED
    BY <1>1, <2>4, <2>5, <2>6, <2>7 DEF pvPortMalloc
<1>2. ASSUME NEW t \in Task, LoadNumber(t) PROVE TypeOK'
  BY <1>2, AppendProperties DEF LoadNumber
<1>3. ASSUME NEW t \in Task, StoreNumber(t) PROVE TypeOK'
  BY <1>3 DEF StoreNumber
<1>4. ASSUME NEW t \in Task, xQueueSend(t) PROVE TypeOK'
  <2>1. buf[t] \in Buffer
    BY <1>4 DEF xQueueSend, Owners, Senders
  <2>2. CASE Len(xQueue) < QueueLength
    <3>0. /\ xQueue' = Append(xQueue, buf[t]) /\ buf' = [buf EXCEPT ![t] = None]
          /\ pc' = [pc EXCEPT ![t] = "idle"]
          /\ UNCHANGED <<heap, text, num, xMessageNumber, pcReceivedString, calls,
                         numbers, printed, overlapped>>
      BY <1>4, <2>2 DEF xQueueSend
    <3>1. xQueue' \in Seq(Buffer) /\ Len(xQueue') = Len(xQueue) + 1
      BY <2>1, <3>0, AppendProperties
    <3>2. Len(xQueue) \in Nat
      BY LenProperties
    <3>3. Len(xQueue') <= QueueLength
      BY <2>2, <3>1, <3>2
    <3> QED
      BY <3>0, <3>1, <3>3
  <2>3. CASE ~(Len(xQueue) < QueueLength)
    BY <1>4, <2>3 DEF xQueueSend
  <2> QED
    BY <2>2, <2>3
<1>5. ASSUME NEW t \in Task, vPortFree(t) PROVE TypeOK'
  BY <1>5 DEF vPortFree
<1>6. ASSUME xQueueReceive PROVE TypeOK'
  BY <1>6, HeadTailProperties, LenProperties DEF xQueueReceive
<1>7. ASSUME PrintString PROVE TypeOK'
  <2>1. printed' \in Seq(Message)
    BY <1>7, AppendProperties DEF PrintString, Texts, Sent
  <2> QED
    BY <1>7, <2>1 DEF PrintString
<1>8. ASSUME UNCHANGED vars PROVE TypeOK'
  BY <1>8 DEF vars
<1> QED
  BY <1>1, <1>2, <1>3, <1>4, <1>5, <1>6, <1>7, <1>8 DEF Next, prvLoggingTask

LEMMA OwnersStep == TypeOK /\ Owners /\ [Next]_vars => Owners'
<1> SUFFICES ASSUME TypeOK, Owners, [Next]_vars PROVE Owners'
  OBVIOUS
<1> USE LogAssumption DEF Goto, Places
<1>0. \A i \in Places : xQueue[i] \in Buffer /\ xQueue[i] \in heap
  BY ElementOfSeq DEF TypeOK, Owners, Accounted
<1>1. ASSUME NEW t \in Task, pvPortMalloc(t) PROVE Owners'
  <2>1. PICK b \in Buffer \ heap :
          /\ heap' = heap \cup {b}
          /\ buf' = [buf EXCEPT ![t] = b]
    BY <1>1 DEF pvPortMalloc
  <2>2. /\ buf[t] = None /\ pc' # pc /\ UNCHANGED <<xQueue, pcReceivedString>>
        /\ \/ pc' = [pc EXCEPT ![t] = "number"]
           \/ pc' = [pc EXCEPT ![t] = "send"]
    BY <1>1 DEF pvPortMalloc, TypeOK, Owners, Senders
  <2>3. Senders'
    BY <2>1, <2>2 DEF TypeOK, Owners, Senders
  <2>4. Accounted'
    BY <2>1, <2>2 DEF TypeOK, Owners, Accounted
  <2>5. \A u \in Task : buf[u] # b
    BY <2>1 DEF Owners, Accounted
  <2>6. b # pcReceivedString /\ \A i \in Places : xQueue[i] # b
    BY <1>0, <2>1 DEF Owners, Accounted
  <2>7. Apart'
    BY <2>1, <2>2, <2>5, <2>6, SMTT(30) DEF TypeOK, Owners, Apart
  <2> QED
    BY <2>3, <2>4, <2>7 DEF Owners
<1>2. ASSUME NEW t \in Task, LoadNumber(t) PROVE Owners'
  BY <1>2 DEF LoadNumber, TypeOK, Owners, Senders, Accounted, Apart
<1>3. ASSUME NEW t \in Task, StoreNumber(t) PROVE Owners'
  BY <1>3 DEF StoreNumber, TypeOK, Owners, Senders, Accounted, Apart
<1>4. ASSUME NEW t \in Task, xQueueSend(t) PROVE Owners'
  <2>1. buf[t] \in Buffer /\ Len(xQueue) \in Nat
    BY <1>4, LenProperties DEF xQueueSend, Owners, Senders, TypeOK
  <2>2. CASE Len(xQueue) < QueueLength
    <3>1. /\ Len(xQueue') = Len(xQueue) + 1
          /\ xQueue'[Len(xQueue) + 1] = buf[t]
          /\ \A i \in 1 .. Len(xQueue) : xQueue'[i] = xQueue[i]
      BY <1>4, <2>1, <2>2, AppendProperties DEF xQueueSend, TypeOK
    <3>2. /\ buf' = [buf EXCEPT ![t] = None] /\ pc' = [pc EXCEPT ![t] = "idle"]
          /\ UNCHANGED <<heap, pcReceivedString>>
      BY <1>4, <2>2 DEF xQueueSend
    <3>3. Senders'
      BY <3>2 DEF TypeOK, Owners, Senders
    <3>4. \A i \in 1 .. Len(xQueue') : i \in 1 .. Len(xQueue) \/ i = Len(xQueue) + 1
      BY <2>1, <3>1
    <3>5. \A b \in Buffer : (\E i \in 1 .. Len(xQueue') : xQueue'[i] = b)
                              <=> (b = buf[t] \/ \E i \in Places : xQueue[i] = b)
      BY <2>1, <3>1, <3>4
    <3>6. Accounted'
      BY <2>1, <3>2, <3>5 DEF TypeOK, Owners, Accounted
    <3>7. \A u \in Task : buf'[u] = IF u = t THEN None ELSE buf[u]
      BY <3>2 DEF TypeOK
    <3>8. Apart'
      <4>1. \A u, v \in Task : buf'[u] # None /\ buf'[u] = buf'[v] => u = v
        BY <3>7 DEF Owners, Apart
      <4>2. \A i, j \in Places' : xQueue'[i] = xQueue'[j] => i = j
        BY <3>1, <3>4 DEF Owners, Apart
      <4>3. \A u \in Task : buf'[u] # None => buf'[u] # pcReceivedString'
        BY <3>2, <3>7 DEF Owners, Apart
      <4>4. \A u \in Task, i \in Places' : buf'[u] # xQueue'[i]
        BY <1>0, <2>1, <3>1, <3>4, <3>7 DEF Owners, Apart
      <4>5. \A i \in Places' : xQueue'[i] # pcReceivedString'
        BY <2>1, <3>1, <3>2, <3>4 DEF Owners, Apart
      <4> QED
        BY <4>1, <4>2, <4>3, <4>4, <4>5 DEF Apart
    <3> QED
      BY <3>3, <3>6, <3>8 DEF Owners
  <2>3. CASE ~(Len(xQueue) < QueueLength)
    BY <1>4, <2>3, ZenonT(40) DEF xQueueSend, TypeOK, Owners, Senders, Accounted, Apart
  <2> QED
    BY <2>2, <2>3
<1>5. ASSUME NEW t \in Task, vPortFree(t) PROVE Owners'
  BY <1>5, SMTT(40) DEF vPortFree, TypeOK, Owners, Senders, Accounted, Apart
<1>6. ASSUME xQueueReceive PROVE Owners'
  <2>1. Len(xQueue) \in Nat \ {0}
    BY <1>6, EmptySeq DEF xQueueReceive, TypeOK
  <2>2. /\ Len(xQueue') = Len(xQueue) - 1
        /\ \A i \in 1 .. Len(xQueue') : xQueue'[i] = xQueue[i + 1]
        /\ pcReceivedString' = xQueue[1]
    BY <1>6, HeadTailProperties DEF xQueueReceive, TypeOK
  <2>3. pcReceivedString = None /\ UNCHANGED <<heap, buf, pc>>
    BY <1>6 DEF xQueueReceive
  <2>4. xQueue[1] \in Buffer
    BY <2>1, ElementOfSeq DEF TypeOK
  <2>5. \A i \in Places : i # 1 => i - 1 \in Places' /\ xQueue'[i - 1] = xQueue[i]
    BY <2>1, <2>2
  <2>6. \A i \in Places' : i + 1 \in Places /\ xQueue'[i] = xQueue[i + 1]
    BY <2>1, <2>2
  <2>7. 1 \in Places
    BY <2>1
  <2>8. Accounted'
    <3>1. ASSUME NEW b \in Buffer
          PROVE  (\E i \in Places : xQueue[i] = b)
                   <=> (b = xQueue[1] \/ \E i \in Places' : xQueue'[i] = b)
      <4>1. ASSUME NEW i \in Places, xQueue[i] = b
            PROVE  b = xQueue[1] \/ \E j \in Places' : xQueue'[j] = b
        BY <2>5, <4>1
      <4>2. ASSUME NEW j \in Places', xQueue'[j] = b
            PROVE  \E i \in Places : xQueue[i] = b
        BY <2>6, <4>2
      <4> QED
        BY <2>7, <4>1, <4>2
    <3> QED
      BY <2>2, <2>3, <3>1 DEF Owners, Accounted
  <2>9. Apart'
    BY <2>1, <2>2, <2>3, <2>4, <2>6, <2>7 DEF Owners, Apart
  <2> QED
    BY <2>3, <2>8, <2>9 DEF Owners, Senders
<1>7. ASSUME PrintString PROVE Owners'
  <2>1. /\ pcReceivedString # None /\ pcReceivedString' = None
        /\ heap' = heap \ {pcReceivedString}
        /\ UNCHANGED <<buf, pc, xQueue>>
    BY <1>7 DEF PrintString
  <2>2. Accounted'
    BY <2>1 DEF TypeOK, Owners, Accounted, Apart
  <2>3. Apart'
    BY <1>0, <2>1 DEF TypeOK, Owners, Apart
  <2> QED
    BY <2>1, <2>2, <2>3 DEF Owners, Senders
<1>8. ASSUME UNCHANGED vars PROVE Owners'
  BY <1>8 DEF vars, Owners, Senders, Accounted, Apart
<1> QED
  BY <1>1, <1>2, <1>3, <1>4, <1>5, <1>6, <1>7, <1>8 DEF Next, prvLoggingTask

(* What was handed over remains so while no call begins. *)
LEMMA SentStays ==
  ASSUME calls' = calls, \A u \in Task : pc[u] = "idle" => pc'[u] = "idle"
  PROVE  \A m : Sent(m) => Sent(m)'
<1> SUFFICES ASSUME NEW m, Sent(m) PROVE Sent(m)'
  OBVIOUS
<1>1. m[1] \in Task
  BY DEF Sent, Message
<1> QED
  BY <1>1 DEF Sent

LEMMA TextsStep == TypeOK /\ Owners /\ Texts /\ [Next]_vars => Texts'
<1> SUFFICES ASSUME TypeOK, Owners, Texts, [Next]_vars PROVE Texts'
  OBVIOUS
<1> USE LogAssumption DEF Goto, Places
<1>0. \A i \in Places : xQueue[i] \in Buffer /\ xQueue[i] \in heap
  BY ElementOfSeq DEF TypeOK, Owners, Accounted
<1>a. Len(xQueue) \in Nat /\ Len(printed) \in Nat
  BY LenProperties DEF TypeOK
<1>1. ASSUME NEW t \in Task, pvPortMalloc(t) PROVE Texts'
  <2>1. PICK b \in Buffer \ heap :
          /\ buf' = [buf EXCEPT ![t] = b]
          /\ text' = [text EXCEPT ![b] = <<t, calls'[t]>>]
    BY <1>1 DEF pvPortMalloc
  <2>2. /\ pc[t] = "idle" /\ calls' = [calls EXCEPT ![t] = @ + 1]
        /\ UNCHANGED <<xQueue, pcReceivedString, printed>>
        /\ \A u \in Task : u # t => pc'[u] = pc[u]
    BY <1>1 DEF pvPortMalloc, TypeOK
  <2>3. ASSUME NEW m, Sent(m) PROVE Sent(m)'
    BY <2>2, <2>3 DEF Sent, Message, TypeOK
  <2>4. \A u \in Task : buf[u] # b
    BY <2>1 DEF Owners, Accounted
  <2>5. b # pcReceivedString /\ \A i \in Places : xQueue[i] # b
    BY <1>0, <2>1 DEF Owners, Accounted
  <2>6. \A u \in Task : buf'[u] # None =>
          text'[buf'[u]] = <<u, calls'[u]>> /\ calls'[u] > 0
    BY <2>1, <2>2, <2>4 DEF Texts, TypeOK
  <2>7. pcReceivedString' # None => Sent(text[pcReceivedString])'
    BY <2>1, <2>2, <2>3, <2>5 DEF Texts, TypeOK
  <2>8. \A i \in Places' : Sent(text[xQueue[i]])'
    BY <1>0, <2>1, <2>2, <2>3, <2>5 DEF Texts, TypeOK
  <2>9. \A i \in 1 .. Len(printed') : Sent(printed[i])'
    BY <2>2, <2>3 DEF Texts
  <2> QED
    BY <2>6, <2>7, <2>8, <2>9 DEF Texts
<1>2. ASSUME NEW t \in Task, LoadNumber(t) \/ StoreNumber(t) PROVE Texts'
  <2>1. /\ \A u \in Task : pc[u] = "idle" => pc'[u] = "idle"
        /\ UNCHANGED <<buf, text, calls, xQueue, pcReceivedString, printed>>
    BY <1>2 DEF LoadNumber, StoreNumber, TypeOK
  <2> QED
    BY <2>1, SentStays DEF Texts
<1>4. ASSUME NEW t \in Task, xQueueSend(t) PROVE Texts'
  <2>1. buf[t] \in Buffer
    BY <1>4 DEF xQueueSend, Owners, Senders, TypeOK
  <2>2. CASE Len(xQueue) < QueueLength
    <3>0. /\ xQueue' = Append(xQueue, buf[t]) /\ buf' = [buf EXCEPT ![t] = None]
          /\ pc' = [pc EXCEPT ![t] = "idle"]
          /\ UNCHANGED <<text, pcReceivedString, calls, printed>>
      BY <1>4, <2>2 DEF xQueueSend
    <3>1. /\ Len(xQueue') = Len(xQueue) + 1
          /\ xQueue'[Len(xQueue) + 1] = buf[t]
          /\ \A i \in 1 .. Len(xQueue) : xQueue'[i] = xQueue[i]
      BY <2>1, <3>0, AppendProperties DEF TypeOK
    <3>2. \A m : Sent(m) => Sent(m)'
      BY <3>0, SentStays DEF TypeOK
    <3>3. text[buf[t]] = <<t, calls[t]>> /\ calls[t] \in 1 .. MaxMessages
      BY <2>1 DEF Texts, TypeOK
    <3>4. ASSUME NEW m, m = <<t, calls[t]>> PROVE Sent(m)'
      <4>1. m \in Message /\ m[1] = t /\ m[2] = calls[t]
        BY <3>3, <3>4 DEF Message
      <4> QED
        BY <3>0, <4>1 DEF Sent, TypeOK
    <3>5. ASSUME NEW i \in Places' PROVE Sent(text[xQueue[i]])'
      <4>1. CASE i \in Places
        BY <3>0, <3>1, <3>2, <4>1 DEF Texts
      <4>2. CASE i \notin Places
        <5>1. xQueue'[i] = buf[t]
          BY <1>a, <3>1, <4>2
        <5> QED
          BY <3>0, <3>3, <3>4, <5>1
      <4> QED
        BY <4>1, <4>2
    <3> QED
      BY <3>0, <3>2, <3>5 DEF Texts, TypeOK
  <2>3. CASE ~(Len(xQueue) < QueueLength)
    <3>1. /\ \A u \in Task : pc[u] = "idle" => pc'[u] = "idle"
          /\ UNCHANGED <<buf, text, calls, xQueue, pcReceivedString, printed>>
      BY <1>4, <2>3 DEF xQueueSend, TypeOK
    <3> QED
      BY <3>1, SentStays DEF Texts
  <2> QED
    BY <2>2, <2>3
<1>5. ASSUME NEW t \in Task, vPortFree(t) PROVE Texts'
  <2>1. /\ buf[t] \in Buffer /\ buf' = [buf EXCEPT ![t] = None]
        /\ text' = [text EXCEPT ![buf[t]] = None]
        /\ pc' = [pc EXCEPT ![t] = "idle"]
        /\ UNCHANGED <<xQueue, pcReceivedString, calls, printed>>
    BY <1>5 DEF vPortFree, Owners, Senders, TypeOK
  <2>2. \A m : Sent(m) => Sent(m)'
    BY <2>1, SentStays DEF TypeOK
  <2>3. \A u \in Task : buf'[u] # None => buf'[u] = buf[u] /\ buf[u] # buf[t]
    BY <2>1 DEF TypeOK, Owners, Apart
  <2>4. \A u \in Task : buf'[u] # None =>
          text'[buf'[u]] = <<u, calls'[u]>> /\ calls'[u] > 0
    BY <2>1, <2>3 DEF Texts, TypeOK
  <2>5. pcReceivedString' # None => Sent(text[pcReceivedString])'
    BY <2>1, <2>2 DEF Texts, TypeOK, Owners, Apart
  <2>6. \A i \in Places' : Sent(text[xQueue[i]])'
    BY <1>0, <2>1, <2>2 DEF Texts, TypeOK, Owners, Apart
  <2> QED
    BY <2>1, <2>2, <2>4, <2>5, <2>6 DEF Texts
<1>6. ASSUME xQueueReceive PROVE Texts'
  <2>1. Len(xQueue) \in Nat \ {0}
    BY <1>6, EmptySeq DEF xQueueReceive, TypeOK
  <2>2. /\ Len(xQueue') = Len(xQueue) - 1
        /\ \A i \in 1 .. Len(xQueue') : xQueue'[i] = xQueue[i + 1]
        /\ pcReceivedString' = xQueue[1]
    BY <1>6, HeadTailProperties DEF xQueueReceive, TypeOK
  <2>3. UNCHANGED <<buf, pc, text, calls, printed>>
    BY <1>6 DEF xQueueReceive
  <2>4. \A i \in Places' : i + 1 \in Places /\ xQueue'[i] = xQueue[i + 1]
    BY <2>1, <2>2
  <2>5. \A m : Sent(m) => Sent(m)'
    BY <2>3 DEF Sent
  <2>6. Sent(text[pcReceivedString])'
    BY <2>1, <2>2, <2>3, <2>5 DEF Texts
  <2>7. \A i \in Places' : Sent(text[xQueue[i]])'
    BY <2>3, <2>4, <2>5 DEF Texts
  <2>8. \A i \in 1 .. Len(printed') : Sent(printed[i])'
    BY <2>3, <2>5 DEF Texts
  <2> QED
    BY <2>3, <2>6, <2>7, <2>8 DEF Texts
<1>7. ASSUME PrintString PROVE Texts'
  <2>1. /\ pcReceivedString # None /\ pcReceivedString' = None
        /\ printed' = Append(printed, text[pcReceivedString])
        /\ text' = [text EXCEPT ![pcReceivedString] = None]
        /\ UNCHANGED <<buf, pc, xQueue, calls>>
    BY <1>7 DEF PrintString
  <2>2. Sent(text[pcReceivedString]) /\ text[pcReceivedString] \in Message
    BY <2>1 DEF Texts, Sent
  <2>3. /\ Len(printed') = Len(printed) + 1
        /\ printed'[Len(printed) + 1] = text[pcReceivedString]
        /\ \A i \in 1 .. Len(printed) : printed'[i] = printed[i]
    BY <2>1, <2>2, AppendProperties DEF TypeOK
  <2>4. \A m : Sent(m) => Sent(m)'
    BY <2>1 DEF Sent
  <2>5. \A i \in 1 .. Len(printed') : Sent(printed'[i])
    BY <1>a, <2>2, <2>3 DEF Texts
  <2>6. \A u \in Task : buf'[u] # None =>
          text'[buf'[u]] = <<u, calls'[u]>> /\ calls'[u] > 0
    BY <2>1 DEF Texts, TypeOK, Owners, Apart
  <2>7. \A i \in Places' : Sent(text'[xQueue[i]])
    BY <1>0, <2>1 DEF Texts, TypeOK, Owners, Apart
  <2>8. UNCHANGED <<calls, pc, xQueue>>
    BY <2>1
  <2> QED
    BY <2>1, <2>5, <2>6, <2>7, <2>8 DEF Texts, Sent
<1>8. ASSUME UNCHANGED vars PROVE Texts'
  BY <1>8 DEF vars, Texts, Sent
<1> QED
  BY <1>1, <1>2, <1>4, <1>5, <1>6, <1>7, <1>8 DEF Next, prvLoggingTask

LEMMA NumbersStep == TypeOK /\ Numbers /\ [Next]_vars => Numbers'
<1> SUFFICES ASSUME TypeOK, Numbers, [Next]_vars, ~overlapped' PROVE Numbers'
  BY DEF Numbers
<1> USE DEF Goto
<1>0. ~overlapped
  BY DEF Next, prvLoggingTask, pvPortMalloc, LoadNumber, StoreNumber, xQueueSend,
         vPortFree, xQueueReceive, PrintString, vars, TypeOK
<1>a. Len(numbers) \in Nat
  BY LenProperties DEF TypeOK
<1>1. ASSUME NEW t \in Task, LoadNumber(t) PROVE Numbers'
  <2>1. /\ \A u \in Task : pc[u] # "store"
        /\ pc' = [pc EXCEPT ![t] = "store"]
        /\ num' = [num EXCEPT ![t] = xMessageNumber]
        /\ numbers' = Append(numbers, xMessageNumber)
        /\ UNCHANGED xMessageNumber
    BY <1>1 DEF LoadNumber, TypeOK
  <2>2. Len(numbers) = xMessageNumber
    BY <1>0, <2>1 DEF Numbers
  <2>3. /\ Len(numbers') = Len(numbers) + 1
        /\ numbers'[Len(numbers) + 1] = xMessageNumber
        /\ \A i \in 1 .. Len(numbers) : numbers'[i] = numbers[i]
    BY <2>1, AppendProperties DEF TypeOK
  <2>4. \A i \in 1 .. Len(numbers') : numbers'[i] = i - 1
    <3>1. \A i \in 1 .. Len(numbers') : i \in 1 .. Len(numbers) \/ i = Len(numbers) + 1
      BY <1>a, <2>3
    <3>2. \A i \in 1 .. Len(numbers) : numbers[i] = i - 1
      BY <1>0 DEF Numbers
    <3>3. numbers'[Len(numbers) + 1] = (Len(numbers) + 1) - 1
      BY <1>a, <2>2, <2>3
    <3> QED
      BY <2>3, <3>1, <3>2, <3>3
  <2> QED
    BY <2>1, <2>2, <2>3, <2>4 DEF Numbers, TypeOK
<1>2. ASSUME NEW t \in Task, StoreNumber(t) PROVE Numbers'
  BY <1>0, <1>2 DEF StoreNumber, Numbers, TypeOK
<1>3. ASSUME NEW t \in Task, pvPortMalloc(t) \/ xQueueSend(t) \/ vPortFree(t)
      PROVE  Numbers'
  <2>1. /\ \A u \in Task : pc'[u] = "store" <=> pc[u] = "store"
        /\ UNCHANGED <<num, numbers, xMessageNumber>>
    BY <1>3 DEF pvPortMalloc, xQueueSend, vPortFree, TypeOK
  <2> QED
    BY <1>0, <2>1 DEF Numbers
<1>4. ASSUME xQueueReceive \/ PrintString \/ UNCHANGED vars PROVE Numbers'
  BY <1>0, <1>4 DEF xQueueReceive, PrintString, vars, Numbers
<1> QED
  BY <1>1, <1>2, <1>3, <1>4 DEF Next, prvLoggingTask

LEMMA Invariance == Spec => []IInv
<1>1. IInv /\ [Next]_vars => IInv'
  BY TypeStep, OwnersStep, TextsStep, NumbersStep DEF IInv
<1> QED
  BY InitEstablishes, <1>1, PTL DEF Spec

(* The state of the tasks, the queue and the logging task keeps its type, for
   any number of tasks, blocks and places in the queue. *)
THEOREM LogTypes == Spec => []TypeOK
<1>1. IInv => TypeOK
  BY DEF IInv
<1> QED
  BY Invariance, <1>1, PTL

-----------------------------------------------------------------------------
(* The sequence of the blocks that wait, index by index *)
LEMMA WaitingShape ==
  ASSUME TypeOK
  PROVE  /\ Waiting \in Seq(Buffer)
         /\ pcReceivedString = None => Waiting = xQueue
         /\ pcReceivedString # None =>
              /\ Len(Waiting) = Len(xQueue) + 1
              /\ Waiting[1] = pcReceivedString
              /\ \A i \in 1 .. Len(xQueue) : Waiting[i + 1] = xQueue[i]
<1>1. CASE pcReceivedString = None
  BY <1>1, ConcatEmptySeq DEF TypeOK, Waiting, Held
<1>2. CASE pcReceivedString # None
  <2>1. /\ <<pcReceivedString>> \in Seq(Buffer) /\ Len(<<pcReceivedString>>) = 1
        /\ <<pcReceivedString>>[1] = pcReceivedString
    BY <1>2 DEF TypeOK
  <2>2. Waiting = <<pcReceivedString>> \o xQueue
    BY <1>2 DEF Waiting, Held
  <2>3. /\ Waiting \in Seq(Buffer) /\ Len(Waiting) = 1 + Len(xQueue)
        /\ \A i \in 1 .. 1 + Len(xQueue) :
             Waiting[i] = IF i <= 1 THEN <<pcReceivedString>>[i] ELSE xQueue[i - 1]
    BY <2>1, <2>2, ConcatProperties DEF TypeOK
  <2>4. Len(xQueue) \in Nat
    BY LenProperties DEF TypeOK
  <2> QED
    BY <1>2, <2>1, <2>3, <2>4
<1> QED
  BY <1>1, <1>2

(* Each block that waits is in the queue or with the logging task. *)
LEMMA WaitingIs ==
  ASSUME TypeOK, NEW i \in DOMAIN Waiting
  PROVE  \/ pcReceivedString # None /\ Waiting[i] = pcReceivedString /\ i = 1
         \/ \E j \in Places : /\ Waiting[i] = xQueue[j]
                               /\ i = IF pcReceivedString = None THEN j ELSE j + 1
<1>1. DOMAIN Waiting = 1 .. Len(Waiting) /\ Len(Waiting) \in Nat /\ Len(xQueue) \in Nat
  BY WaitingShape, LenProperties DEF TypeOK
<1>2. CASE pcReceivedString = None
  BY <1>1, <1>2, WaitingShape DEF Places
<1>3. CASE pcReceivedString # None
  <2>1. i = 1 \/ i - 1 \in Places
    BY <1>1, <1>3, WaitingShape DEF Places
  <2>2. i - 1 \in Places => Waiting[i] = xQueue[i - 1] /\ i = (i - 1) + 1
    BY <1>1, <1>3, WaitingShape DEF Places
  <2> QED
    BY <1>3, <2>1, <2>2, WaitingShape
<1> QED
  BY <1>2, <1>3

(* A block is in the hands of one task, in the queue once, or with the logging
   task, for any number of tasks, blocks and places in the queue. *)
THEOREM OneOwner == Spec => []BufferHasOneOwner
<1>1. TypeOK /\ Owners => BufferHasOneOwner
  <2> SUFFICES ASSUME TypeOK, Owners PROVE BufferHasOneOwner
    OBVIOUS
  <2>1. ASSUME NEW j \in Places
        PROVE  \E i \in DOMAIN Waiting : Waiting[i] = xQueue[j]
    <3>1. DOMAIN Waiting = 1 .. Len(Waiting) /\ Len(xQueue) \in Nat
      BY WaitingShape, LenProperties DEF TypeOK
    <3>2. CASE pcReceivedString = None
      BY <3>1, <3>2, WaitingShape DEF Places
    <3>3. CASE pcReceivedString # None
      <4>1. j + 1 \in DOMAIN Waiting /\ Waiting[j + 1] = xQueue[j]
        BY <3>1, <3>3, WaitingShape DEF Places
      <4> QED
        BY <4>1
    <3> QED
      BY <3>2, <3>3
  <2>2. pcReceivedString # None => \E i \in DOMAIN Waiting : Waiting[i] = pcReceivedString
    <3>1. DOMAIN Waiting = 1 .. Len(Waiting) /\ Len(xQueue) \in Nat
      BY WaitingShape, LenProperties DEF TypeOK
    <3> QED
      BY <3>1, WaitingShape
  <2>3. \A b \in Buffer :
          b \in heap <=> \/ \E t \in Task : buf[t] = b
                         \/ \E i \in DOMAIN Waiting : Waiting[i] = b
    BY <2>1, <2>2, WaitingIs, LogAssumption DEF Owners, Accounted
  <2>4. \A t, u \in Task : buf[t] # None /\ buf[t] = buf[u] => t = u
    BY DEF Owners, Apart
  <2>5. ASSUME NEW i \in DOMAIN Waiting, NEW j \in DOMAIN Waiting, Waiting[i] = Waiting[j]
        PROVE  i = j
    BY <2>5, WaitingIs DEF Owners, Apart
  <2>6. ASSUME NEW t \in Task, NEW i \in DOMAIN Waiting PROVE buf[t] # Waiting[i]
    BY WaitingIs DEF Owners, Apart
  <2> QED
    BY <2>3, <2>4, <2>5, <2>6 DEF BufferHasOneOwner
<1> QED
  BY Invariance, <1>1, PTL DEF IInv

(* The messages are numbered without gaps or repetitions until two tasks take a
   number at once. *)
THEOREM NumberedInOrder == Spec => []NumbersInOrder
<1>1. TypeOK /\ Numbers => NumbersInOrder
  BY LenProperties DEF TypeOK, Numbers, NumbersInOrder
<1> QED
  BY Invariance, <1>1, PTL DEF IInv

LEMMA Onto ==
  ASSUME NEW S, NEW T, NEW f \in [S -> T], \A y \in T : \E x \in S : f[x] = y
  PROVE  f \in Surjection(S, T)
BY DEF Surjection

(* The log's memory is bounded, whatever the number of messages. *)
THEOREM MemoryBounded == Spec => []HeapBounded
<1>1. TypeOK /\ Owners => HeapBounded
  <2> SUFFICES ASSUME TypeOK, Owners PROVE HeapBounded
    OBVIOUS
  <2> DEFINE A == {buf[t] : t \in Task}
             B == {xQueue[i] : i \in Places}
  <2>1. IsFiniteSet(A) /\ Cardinality(A) <= Cardinality(Task)
    <3>1. buf \in Surjection(Task, A)
      BY DEF TypeOK, Surjection
    <3> QED
      BY <3>1, FS_Surjection, LogAssumption
  <2>2. IsFiniteSet(B) /\ Cardinality(B) <= QueueLength
    <3>0. Len(xQueue) \in Nat /\ DOMAIN xQueue = Places
      BY LenProperties DEF TypeOK, Places
    <3>1. xQueue \in [Places -> Buffer]
      BY LenProperties DEF TypeOK, Places
    <3>2. xQueue \in Surjection(Places, B)
      <4>1. xQueue \in [Places -> B]
        BY <3>1
      <4>2. \A b \in B : \E i \in Places : xQueue[i] = b
        OBVIOUS
      <4> HIDE DEF B
      <4> QED
        BY <4>1, <4>2, Onto
    <3>3. IsFiniteSet(Places) /\ Cardinality(Places) = Len(xQueue)
      <4>1. /\ IsFiniteSet(1 .. Len(xQueue))
            /\ Cardinality(1 .. Len(xQueue))
                 = IF 1 > Len(xQueue) THEN 0 ELSE Len(xQueue) - 1 + 1
        BY <3>0, FS_Interval
      <4> QED
        BY <3>0, <4>1 DEF Places
    <3>4. IsFiniteSet(B) /\ Cardinality(B) <= Cardinality(Places)
      BY <3>2, <3>3, FS_Surjection
    <3>5. Cardinality(B) \in Nat
      BY <3>4, FS_CardinalityType
    <3> QED
      BY <3>0, <3>3, <3>4, <3>5, LogAssumption DEF TypeOK
  <2>3. IsFiniteSet(A \cup B) /\ Cardinality(A \cup B) <= Cardinality(A) + Cardinality(B)
    <3>1. IsFiniteSet(A \cap B)
      BY <2>1, FS_Subset
    <3> HIDE DEF A, B
    <3>2. /\ Cardinality(A) \in Nat /\ Cardinality(B) \in Nat
          /\ Cardinality(A \cap B) \in Nat
      BY <2>1, <2>2, <3>1, FS_CardinalityType
    <3> QED
      BY <2>1, <2>2, <3>2, FS_Union
  <2>4. heap \subseteq (A \cup B) \cup {pcReceivedString}
    BY DEF Owners, Accounted, TypeOK
  <2> HIDE DEF A, B
  <2>5. /\ IsFiniteSet((A \cup B) \cup {pcReceivedString})
        /\ Cardinality((A \cup B) \cup {pcReceivedString}) <= Cardinality(A \cup B) + 1
    <3>1. Cardinality(A \cup B) \in Nat
      BY <2>3, FS_CardinalityType
    <3>2. /\ IsFiniteSet((A \cup B) \cup {pcReceivedString})
          /\ \/ Cardinality((A \cup B) \cup {pcReceivedString}) = Cardinality(A \cup B)
             \/ Cardinality((A \cup B) \cup {pcReceivedString}) = Cardinality(A \cup B) + 1
      BY <2>3, FS_AddElement
    <3> QED
      BY <3>1, <3>2
  <2>6. /\ IsFiniteSet(heap)
        /\ Cardinality(heap) <= Cardinality((A \cup B) \cup {pcReceivedString})
    BY <2>4, <2>5, FS_Subset
  <2>7. /\ Cardinality(A) \in Nat /\ Cardinality(B) \in Nat
        /\ Cardinality(A \cup B) \in Nat /\ Cardinality(heap) \in Nat
        /\ Cardinality((A \cup B) \cup {pcReceivedString}) \in Nat
        /\ Cardinality(Task) \in Nat
    BY <2>1, <2>2, <2>3, <2>5, <2>6, FS_CardinalityType, LogAssumption
  <2> QED
    BY <2>1, <2>2, <2>3, <2>5, <2>6, <2>7, LogAssumption DEF HeapBounded
<1> QED
  BY Invariance, <1>1, PTL DEF IInv

-----------------------------------------------------------------------------
(* The log as LossyLog has it *)
Accepted == [i \in DOMAIN Waiting |-> text[Waiting[i]]]

(* Of a sequence w of blocks with the contents x: the sequence of their texts *)
LEMMA TextsOf ==
  ASSUME NEW w \in Seq(Buffer), NEW x,
         \A i \in 1 .. Len(w) : x[w[i]] \in Message
  PROVE  /\ [i \in DOMAIN w |-> x[w[i]]] \in Seq(Message)
         /\ Len([i \in DOMAIN w |-> x[w[i]]]) = Len(w)
         /\ \A i \in 1 .. Len(w) : [j \in DOMAIN w |-> x[w[j]]][i] = x[w[i]]
<1> DEFINE s == [i \in DOMAIN w |-> x[w[i]]]
<1>1. Len(w) \in Nat /\ DOMAIN w = 1 .. Len(w)
  BY LenProperties
<1>2. s \in [1 .. Len(w) -> Message]
  BY <1>1
<1>3. s \in Seq(Message)
  BY <1>1, <1>2, SeqDef
<1>4. Len(s) = Len(w)
  <2>1. DOMAIN s = 1 .. Len(s) /\ Len(s) \in Nat
    BY <1>3, LenProperties
  <2>2. DOMAIN s = 1 .. Len(w)
    BY <1>1
  <2>3. \A m, n \in Nat : 1 .. m = 1 .. n => m = n
    <3> SUFFICES ASSUME NEW m \in Nat, NEW n \in Nat, m < n
                 PROVE  n \in 1 .. n /\ n \notin 1 .. m
      OBVIOUS
    <3> QED
      OBVIOUS
  <2> HIDE DEF s
  <2> QED
    BY <1>1, <2>1, <2>2, <2>3
<1> QED
  BY <1>1, <1>3, <1>4

LEMMA AcceptedShape ==
  ASSUME TypeOK, Texts
  PROVE  /\ Accepted \in Seq(Message) /\ Len(Accepted) = Len(Waiting)
         /\ Len(Waiting) \in Nat /\ Waiting \in Seq(Buffer)
         /\ \A i \in 1 .. Len(Waiting) :
              /\ Sent(text[Waiting[i]]) /\ text[Waiting[i]] \in Message
              /\ Accepted[i] = text[Waiting[i]]
<1>1. Waiting \in Seq(Buffer)
  BY WaitingShape
<1>2. DOMAIN Waiting = 1 .. Len(Waiting) /\ Len(Waiting) \in Nat
  BY <1>1, LenProperties
<1>3. \A i \in 1 .. Len(Waiting) : Sent(text[Waiting[i]])
  BY <1>2, WaitingIs DEF Texts
<1>4. \A i \in 1 .. Len(Waiting) : text[Waiting[i]] \in Message
  BY <1>3 DEF Sent
<1> QED
  BY <1>1, <1>2, <1>3, <1>4, TextsOf DEF Accepted

(* A block that does not wait is of no account. *)
LEMMA AcceptedStays ==
  ASSUME TypeOK, Texts, UNCHANGED <<xQueue, pcReceivedString>>,
         \A i \in 1 .. Len(Waiting) : text'[Waiting[i]] = text[Waiting[i]]
  PROVE  Accepted' = Accepted
<1>1. Waiting' = Waiting
  BY DEF Waiting, Held
<1>2. DOMAIN Waiting = 1 .. Len(Waiting)
  BY WaitingShape, LenProperties
<1> QED
  BY <1>1, <1>2 DEF Accepted

(* The block at each place in the queue of messages that wait *)
LEMMA WaitingNext ==
  ASSUME TypeOK, xQueue' \in Seq(Buffer), pcReceivedString' \in Buffer \cup {None}
  PROVE  /\ Waiting' \in Seq(Buffer)
         /\ pcReceivedString' = None => Waiting' = xQueue'
         /\ pcReceivedString' # None => Waiting' = <<pcReceivedString'>> \o xQueue'
<1>1. CASE pcReceivedString' = None
  BY <1>1, ConcatEmptySeq DEF Waiting, Held
<1>2. CASE pcReceivedString' # None
  <2>1. <<pcReceivedString'>> \in Seq(Buffer)
    BY <1>2
  <2>2. Waiting' = <<pcReceivedString'>> \o xQueue'
    BY <1>2 DEF Waiting, Held
  <2> QED
    BY <1>2, <2>1, <2>2, ConcatProperties
<1> QED
  BY <1>1, <1>2

LEMMA Appended ==
  ASSUME NEW S, NEW s \in Seq(S), NEW e \in S, NEW n, n = Len(s)
  PROVE  /\ Append(s, e) \in Seq(S) /\ Len(Append(s, e)) = n + 1
         /\ Append(s, e)[n + 1] = e
         /\ \A i \in 1 .. n : Append(s, e)[i] = s[i]
BY AppendProperties

LEMMA SendWaits ==
  ASSUME TypeOK, Owners, NEW t \in Task, xQueueSend(t), Len(xQueue) < QueueLength
  PROVE  buf[t] \in Buffer /\ Waiting' = Append(Waiting, buf[t])
<1>0. /\ buf[t] \in Buffer /\ xQueue' = Append(xQueue, buf[t])
      /\ UNCHANGED pcReceivedString
  <2>1. buf[t] \in Buffer
    BY DEF xQueueSend, Owners, Senders, TypeOK
  <2>2. xQueue' = Append(xQueue, buf[t]) /\ UNCHANGED pcReceivedString
    BY DEF xQueueSend
  <2> QED
    BY <2>1, <2>2
<1>1. Waiting' = Append(Waiting, buf[t])
  <2>1. /\ xQueue' \in Seq(Buffer) /\ Len(xQueue') = Len(xQueue) + 1
        /\ xQueue' = xQueue \o <<buf[t]>> /\ <<buf[t]>> \in Seq(Buffer)
    BY <1>0, AppendProperties, AppendIsConcat DEF TypeOK
  <2>2. CASE pcReceivedString = None
    BY <1>0, <2>1, <2>2, WaitingShape, WaitingNext
  <2>3. CASE pcReceivedString # None
    <3>1. <<pcReceivedString>> \in Seq(Buffer)
      BY <2>3 DEF TypeOK
    <3>2. /\ Waiting = <<pcReceivedString>> \o xQueue /\ Waiting \in Seq(Buffer)
          /\ Waiting' = <<pcReceivedString>> \o xQueue'
      BY <1>0, <2>3, WaitingShape DEF Waiting, Held
    <3>3. Waiting' = Waiting \o <<buf[t]>>
      BY <2>1, <3>1, <3>2, ConcatAssociative DEF TypeOK
    <3> QED
      BY <1>0, <3>2, <3>3, AppendProperties
  <2> QED
    BY <2>2, <2>3
<1> QED
  BY <1>0, <1>1

LEMMA SendAccepts ==
  ASSUME TypeOK, Owners, Texts, NEW t \in Task, xQueueSend(t),
         Len(xQueue) < QueueLength
  PROVE  Log!Accept(<<t, calls[t]>>) /\ <<t, calls[t]>> \in Message
<1> DEFINE m == <<t, calls[t]>>
<1>0. /\ pc[t] = "send" /\ buf[t] \in Buffer
      /\ xQueue' = Append(xQueue, buf[t])
      /\ UNCHANGED <<text, pcReceivedString, printed>>
  <2>1. pc[t] = "send" /\ buf[t] \in Buffer
    BY DEF xQueueSend, Owners, Senders, TypeOK
  <2>2. /\ xQueue' = Append(xQueue, buf[t])
        /\ UNCHANGED <<text, pcReceivedString, printed>>
    BY DEF xQueueSend
  <2> QED
    BY <2>1, <2>2
<1>1. text[buf[t]] = m /\ m \in Message
  <2>1. text[buf[t]] = m /\ calls[t] > 0
    BY <1>0, LogAssumption DEF Texts
  <2>2. calls[t] \in 0 .. MaxMessages
    BY DEF TypeOK
  <2>3. calls[t] \in 1 .. MaxMessages
    BY <2>1, <2>2, LogAssumption
  <2>4. <<t, calls[t]>> \in Task \X (1 .. MaxMessages)
    BY <2>3
  <2> QED
    BY <2>1, <2>4 DEF Message
<1>2. \A x : Sent(x) => x # m
  <2>1. m[1] = t /\ m[2] = calls[t] /\ calls[t] \in Nat
    BY DEF TypeOK
  <2>2. ~Sent(m)
    BY <1>0, <2>1 DEF Sent
  <2> QED
    BY <2>2
<1>3. /\ \A i \in 1 .. Len(Accepted) : Accepted[i] # m
      /\ \A i \in 1 .. Len(printed) : printed[i] # m
  BY <1>2, AcceptedShape DEF Texts
<1>4. Waiting' = Append(Waiting, buf[t])
  BY SendWaits
<1>5. Accepted' = Append(Accepted, m)
  <2> DEFINE w == Append(Waiting, buf[t])
             s == [i \in DOMAIN w |-> text[w[i]]]
  <2>1. /\ Waiting \in Seq(Buffer) /\ Len(Waiting) \in Nat
        /\ w \in Seq(Buffer) /\ Len(w) = Len(Waiting) + 1
        /\ w[Len(Waiting) + 1] = buf[t]
        /\ \A i \in 1 .. Len(Waiting) : w[i] = Waiting[i]
    BY <1>0, AcceptedShape, Appended
  <2>2. Accepted' = s
    BY <1>0, <1>4 DEF Accepted
  <2>3. \A i \in 1 .. Len(w) : i \in 1 .. Len(Waiting) \/ i = Len(Waiting) + 1
    BY <2>1
  <2>4. \A i \in 1 .. Len(w) : text[w[i]] \in Message
    BY <1>1, <2>1, <2>3, AcceptedShape
  <2> HIDE DEF w
  <2>5. /\ s \in Seq(Message) /\ Len(s) = Len(w)
        /\ \A i \in 1 .. Len(w) : s[i] = text[w[i]]
    BY <2>1, <2>4, TextsOf
  <2> DEFINE a == Append(Accepted, m)
  <2>6. /\ a \in Seq(Message) /\ Len(a) = Len(Waiting) + 1
        /\ a[Len(Waiting) + 1] = m
        /\ \A i \in 1 .. Len(Waiting) : a[i] = Accepted[i]
    <3>1. Accepted \in Seq(Message) /\ Len(Accepted) = Len(Waiting)
      BY AcceptedShape
    <3> HIDE DEF m
    <3> QED
      BY <1>1, <3>1, Appended
  <2> HIDE DEF s, a
  <2>7. ASSUME NEW i \in 1 .. Len(s) PROVE s[i] = a[i]
    <3>1. s[i] = text[w[i]] /\ (i \in 1 .. Len(Waiting) \/ i = Len(Waiting) + 1)
      BY <2>3, <2>5
    <3>2. CASE i \in 1 .. Len(Waiting)
      BY <2>1, <2>6, <3>1, <3>2, AcceptedShape
    <3>3. CASE i = Len(Waiting) + 1
      BY <1>1, <2>1, <2>6, <3>1, <3>3
    <3> QED
      BY <3>1, <3>2, <3>3
  <2>8. s = a
    BY <2>1, <2>5, <2>6, <2>7, SeqEqual
  <2> QED
    BY <2>2, <2>8 DEF a
<1>6. Len(Accepted) < QueueLength + 1
  <2>1. Len(Accepted) = Len(Waiting)
    BY AcceptedShape
  <2>2. Len(Waiting) <= Len(xQueue) + 1
    BY WaitingShape, LenProperties DEF TypeOK
  <2>3. Len(Waiting) \in Nat /\ Len(xQueue) \in Nat
    BY AcceptedShape, LenProperties DEF TypeOK
  <2> QED
    BY <2>1, <2>2, <2>3, LogAssumption
<1> QED
  BY <1>0, <1>1, <1>3, <1>5, <1>6 DEF Log!Accept, Accepted

LEMMA ReceiveKeeps ==
  ASSUME TypeOK, xQueueReceive
  PROVE  Waiting' = Waiting
<1>0. /\ xQueue # << >> /\ pcReceivedString = None /\ xQueue \in Seq(Buffer)
      /\ pcReceivedString' = Head(xQueue) /\ xQueue' = Tail(xQueue)
  BY DEF xQueueReceive, TypeOK
<1>1. /\ Head(xQueue) \in Buffer /\ xQueue' \in Seq(Buffer)
      /\ Len(xQueue') = Len(xQueue) - 1
      /\ \A i \in 1 .. Len(xQueue') : xQueue'[i] = xQueue[i + 1]
      /\ Head(xQueue) = xQueue[1] /\ Len(xQueue) \in Nat
  BY <1>0, HeadTailProperties, LenProperties
<1>2. Waiting = xQueue
  BY <1>0, WaitingShape
<1>3. Waiting' = <<Head(xQueue)>> \o xQueue'
  BY <1>0, <1>1, WaitingNext, LogAssumption
<1>4. /\ <<Head(xQueue)>> \in Seq(Buffer) /\ Len(<<Head(xQueue)>>) = 1
      /\ <<Head(xQueue)>>[1] = xQueue[1]
  BY <1>1
<1>5. /\ Waiting' \in Seq(Buffer) /\ Len(Waiting') = 1 + Len(xQueue')
      /\ \A i \in 1 .. 1 + Len(xQueue') :
           Waiting'[i] = IF i <= 1 THEN <<Head(xQueue)>>[i] ELSE xQueue'[i - 1]
  BY <1>1, <1>3, <1>4, ConcatProperties
<1>6. ASSUME NEW i \in 1 .. Len(Waiting') PROVE Waiting'[i] = xQueue[i]
  <2>1. CASE i = 1
    BY <1>4, <1>5, <2>1
  <2>2. CASE i # 1
    <3>1. i - 1 \in 1 .. Len(xQueue') /\ (i - 1) + 1 = i
      BY <1>1, <1>5, <2>2
    <3>2. xQueue'[i - 1] = xQueue[i]
      BY <1>1, <3>1
    <3>3. ~(i <= 1) /\ i \in 1 .. 1 + Len(xQueue')
      BY <1>5, <3>1
    <3> QED
      BY <1>5, <3>2, <3>3
  <2> QED
    BY <2>1, <2>2
<1>7. Len(Waiting') = Len(xQueue)
  BY <1>1, <1>5
<1>8. Waiting' = xQueue
  BY <1>0, <1>5, <1>6, <1>7, SeqEqual
<1> QED
  BY <1>2, <1>8

LEMMA PrintEmits ==
  ASSUME TypeOK, Owners, Texts, PrintString
  PROVE  Log!Emit
<1>0. /\ pcReceivedString # None /\ pcReceivedString' = None
      /\ printed' = Append(printed, text[pcReceivedString])
      /\ text' = [text EXCEPT ![pcReceivedString] = None]
      /\ xQueue' = xQueue /\ xQueue \in Seq(Buffer) /\ Len(xQueue) \in Nat
  BY LenProperties DEF PrintString, TypeOK
<1>1. /\ Waiting \in Seq(Buffer) /\ Len(Waiting) = Len(xQueue) + 1
      /\ Waiting[1] = pcReceivedString
      /\ \A i \in 1 .. Len(xQueue) : Waiting[i + 1] = xQueue[i]
  BY <1>0, WaitingShape
<1>2. /\ Accepted \in Seq(Message) /\ Len(Accepted) = Len(xQueue) + 1
      /\ \A i \in 1 .. Len(xQueue) + 1 :
           Accepted[i] = text[Waiting[i]] /\ text[Waiting[i]] \in Message
  BY <1>1, AcceptedShape
<1>3. Accepted # << >> /\ Head(Accepted) = text[pcReceivedString]
  BY <1>0, <1>1, <1>2, EmptySeq
<1>4. Waiting' = xQueue
  BY <1>0, WaitingNext
<1>5. \A i \in 1 .. Len(xQueue) :
        /\ i + 1 \in 1 .. Len(xQueue) + 1
        /\ text'[xQueue[i]] = text[Waiting[i + 1]]
        /\ text'[xQueue[i]] \in Message
  <2> SUFFICES ASSUME NEW i \in 1 .. Len(xQueue)
               PROVE  /\ i + 1 \in 1 .. Len(xQueue) + 1
                      /\ text'[xQueue[i]] = text[Waiting[i + 1]]
                      /\ text'[xQueue[i]] \in Message
    OBVIOUS
  <2>1. i + 1 \in 1 .. Len(xQueue) + 1
    BY <1>0
  <2>2. xQueue[i] # pcReceivedString /\ xQueue[i] \in Buffer
    BY <1>0, ElementOfSeq DEF Owners, Apart, Places
  <2>3. text'[xQueue[i]] = text[xQueue[i]]
    BY <1>0, <2>2 DEF TypeOK
  <2> QED
    BY <1>1, <1>2, <2>1, <2>3
<1> DEFINE s == [i \in DOMAIN xQueue |-> text'[xQueue[i]]]
<1>6. Accepted' = s
  BY <1>4 DEF Accepted
<1>7. /\ s \in Seq(Message) /\ Len(s) = Len(xQueue)
      /\ \A i \in 1 .. Len(xQueue) : s[i] = text'[xQueue[i]]
  <2> DEFINE x == text'
             q == xQueue
  <2>1. q \in Seq(Buffer) /\ \A i \in 1 .. Len(q) : x[q[i]] \in Message
    BY <1>0, <1>5
  <2> HIDE DEF x, q
  <2>2. /\ [i \in DOMAIN q |-> x[q[i]]] \in Seq(Message)
        /\ Len([i \in DOMAIN q |-> x[q[i]]]) = Len(q)
        /\ \A i \in 1 .. Len(q) : [j \in DOMAIN q |-> x[q[j]]][i] = x[q[i]]
    BY <2>1, TextsOf
  <2> QED
    BY <2>2 DEF x, q
<1> HIDE DEF s
<1>8. /\ Tail(Accepted) \in Seq(Message) /\ Len(Tail(Accepted)) = Len(xQueue)
      /\ \A i \in 1 .. Len(xQueue) : Tail(Accepted)[i] = Accepted[i + 1]
  <2>1. /\ Tail(Accepted) \in Seq(Message)
        /\ Len(Tail(Accepted)) = Len(Accepted) - 1
        /\ \A i \in 1 .. Len(Tail(Accepted)) : Tail(Accepted)[i] = Accepted[i + 1]
    BY <1>2, <1>3, HeadTailProperties
  <2> QED
    BY <1>0, <1>2, <2>1
<1>9. \A i \in 1 .. Len(s) : s[i] = Tail(Accepted)[i]
  BY <1>2, <1>5, <1>7, <1>8, SMTT(40)
<1>10. s = Tail(Accepted)
  BY <1>7, <1>8, <1>9, SeqEqual
<1> QED
  BY <1>0, <1>3, <1>6, <1>10 DEF Log!Emit, Accepted

(* The step by which a task's message gets into the queue *)
Accepts(t) ==
  pc[t] = "send" /\ Log!Accept(<<t, calls[t]>>) /\ <<t, calls[t]>> \in Message

LEMMA LogStep ==
  ASSUME IInv, [Next]_vars
  PROVE  \/ Log!Emit
         \/ \E t \in Task : Accepts(t)
         \/ Accepted' = Accepted /\ printed' = printed
<1>b. TypeOK /\ Owners /\ Texts
  BY DEF IInv
<1> USE LogAssumption, <1>b
<1>0. DOMAIN Waiting = 1 .. Len(Waiting)
  BY WaitingShape, LenProperties
<1>a. \A i \in 1 .. Len(Waiting) :
        Waiting[i] \in heap /\ \A t \in Task : buf[t] # Waiting[i]
  <2>1. \A i \in 1 .. Len(Waiting) :
          Waiting[i] = pcReceivedString \/ \E j \in Places : Waiting[i] = xQueue[j]
    BY <1>0, WaitingIs
  <2>2. \A i \in 1 .. Len(Waiting) : Waiting[i] \in Buffer
    BY WaitingShape, ElementOfSeq
  <2> QED
    BY <2>1, <2>2 DEF Owners, Accounted, Apart
<1>1. ASSUME NEW t \in Task, pvPortMalloc(t)
      PROVE  Accepted' = Accepted /\ printed' = printed
  <2>1. PICK b \in Buffer \ heap : text' = [text EXCEPT ![b] = <<t, calls'[t]>>]
    BY <1>1 DEF pvPortMalloc
  <2>2. \A i \in 1 .. Len(Waiting) : text'[Waiting[i]] = text[Waiting[i]]
    BY <1>a, <2>1 DEF TypeOK
  <2> QED
    BY <1>1, <2>2, AcceptedStays DEF pvPortMalloc
<1>2. ASSUME NEW t \in Task, LoadNumber(t) \/ StoreNumber(t)
      PROVE  Accepted' = Accepted /\ printed' = printed
  BY <1>2, AcceptedStays DEF LoadNumber, StoreNumber
<1>3. ASSUME NEW t \in Task, xQueueSend(t)
      PROVE  \/ Accepts(t)
             \/ Accepted' = Accepted /\ printed' = printed
  <2>1. CASE Len(xQueue) < QueueLength
    <3>1. Log!Accept(<<t, calls[t]>>) /\ <<t, calls[t]>> \in Message
      BY <1>3, <2>1, SendAccepts
    <3>2. pc[t] = "send"
      BY <1>3 DEF xQueueSend
    <3> QED
      BY <3>1, <3>2 DEF Accepts
  <2>2. CASE ~(Len(xQueue) < QueueLength)
    BY <1>3, <2>2, AcceptedStays DEF xQueueSend
  <2> QED
    BY <2>1, <2>2
<1>4. ASSUME NEW t \in Task, vPortFree(t)
      PROVE  Accepted' = Accepted /\ printed' = printed
  <2>1. \A i \in 1 .. Len(Waiting) : text'[Waiting[i]] = text[Waiting[i]]
    BY <1>4, <1>a DEF vPortFree, TypeOK, Owners, Accounted
  <2> QED
    BY <1>4, <2>1, AcceptedStays DEF vPortFree
<1>5. ASSUME xQueueReceive PROVE Accepted' = Accepted /\ printed' = printed
  BY <1>5, ReceiveKeeps DEF xQueueReceive, Accepted
<1>6. ASSUME PrintString PROVE Log!Emit
  BY <1>6, PrintEmits
<1>7. ASSUME UNCHANGED vars PROVE Accepted' = Accepted /\ printed' = printed
  BY <1>7 DEF vars, Accepted, Waiting, Held
<1> QED
  BY <1>1, <1>2, <1>3, <1>4, <1>5, <1>6, <1>7 DEF Next, prvLoggingTask

(* The log implements LossyLog: the messages that the queue takes come out of the
   UART whole, once each and in the order of the queue; at most QueueLength + 1
   wait.  (That they do come out is left to the model checker.) *)
THEOREM LogIsLossyLog ==
  Spec => Log!Init /\ [][Log!Next]_<<Accepted, printed>>
<1>1. Init => Log!Init
  <2> SUFFICES ASSUME Init PROVE Log!Init
    OBVIOUS
  <2>1. Waiting = << >>
    BY ConcatEmptySeq, EmptySeq DEF Init, Waiting, Held
  <2>2. DOMAIN << >> = {}
    OBVIOUS
  <2>3. [i \in DOMAIN Waiting |-> text[Waiting[i]]] = << >>
    BY <2>1, <2>2
  <2> QED
    BY <2>3 DEF Init, Log!Init
<1>2. IInv /\ [Next]_vars => [Log!Next]_<<Accepted, printed>>
  <2> SUFFICES ASSUME IInv, [Next]_vars
               PROVE  Log!Next \/ (Accepted' = Accepted /\ printed' = printed)
    OBVIOUS
  <2>1. ASSUME NEW t \in Task, Accepts(t) PROVE Log!Next
    <3>1. \E m \in Message : Log!Accept(m)
      BY <2>1 DEF Accepts, Log!Accept
    <3> QED
      BY <3>1 DEF Log!Next, Log!Accept
  <2> QED
    BY <2>1, LogStep DEF Log!Next
<1> QED
  BY Invariance, <1>1, <1>2, PTL DEF Spec

-----------------------------------------------------------------------------
(* What WF(prvLoggingTask) has still to do for the message at place i of those
   that wait: its steps, the one that prints it included *)
Turn(i) == 2 * i - (IF pcReceivedString = None THEN 0 ELSE 1)

LEMMA TurnIs ==
  ASSUME TypeOK, NEW i \in 1 .. Len(Waiting)
  PROVE  Turn(i) \in 1 .. 2 * QueueLength + 1 /\ i \in Nat \ {0}
<1>1. Len(xQueue) \in Nat /\ Len(xQueue) <= QueueLength /\ QueueLength \in Nat
  BY LenProperties, LogAssumption DEF TypeOK
<1>2. Len(Waiting) = Len(xQueue) + (IF pcReceivedString = None THEN 0 ELSE 1)
  BY <1>1, WaitingShape
<1> QED
  BY <1>1, <1>2 DEF Turn

(* The progress that the promise of LossyLog rests on: as long as a message waits
   the logging task has a step to take, each of its steps brings every message
   that waits one step nearer to the UART, and no step of a task takes one
   further away or out of the queue (prvLoggingTask; xQueueGenericSend): a
   message is printed by the logging task's 2 * QueueLength + 1st step. *)
THEOREM MessagesComeNearer ==
  Spec => [][ \A i \in 1 .. Len(Waiting) :
                /\ Turn(i) \in 1 .. 2 * QueueLength + 1
                /\ pcReceivedString # None \/ xQueue # << >>
                /\ \/ i = 1 /\ PrintString
                   \/ \E j \in 1 .. Len(Waiting') :
                        /\ Waiting'[j] = Waiting[i]
                        /\ Turn(j)' = IF prvLoggingTask THEN Turn(i) - 1 ELSE Turn(i) ]_vars
<1>1. ASSUME TypeOK, Owners, Next, NEW i \in 1 .. Len(Waiting)
      PROVE  /\ Turn(i) \in 1 .. 2 * QueueLength + 1
             /\ pcReceivedString # None \/ xQueue # << >>
             /\ \/ i = 1 /\ PrintString
                \/ \E j \in 1 .. Len(Waiting') :
                     /\ Waiting'[j] = Waiting[i]
                     /\ Turn(j)' = IF prvLoggingTask THEN Turn(i) - 1 ELSE Turn(i)
  <2>1. Turn(i) \in 1 .. 2 * QueueLength + 1 /\ i \in Nat \ {0}
    BY <1>1, TurnIs
  <2>2. pcReceivedString # None \/ xQueue # << >>
    BY <1>1, WaitingShape, EmptySeq
  <2>3. Waiting \in Seq(Buffer) /\ Len(Waiting) \in Nat
    BY <1>1, WaitingShape, LenProperties
  <2>4. ASSUME ~prvLoggingTask
        PROVE  \E j \in 1 .. Len(Waiting') : Waiting'[j] = Waiting[i] /\ Turn(j)' = Turn(i)
    <3>1. PICK t \in Task : \/ pvPortMalloc(t) \/ LoadNumber(t) \/ StoreNumber(t)
                            \/ xQueueSend(t) \/ vPortFree(t)
      BY <1>1, <2>4 DEF Next
    <3>2. pcReceivedString' = pcReceivedString
      BY <3>1 DEF pvPortMalloc, LoadNumber, StoreNumber, xQueueSend, vPortFree
    <3>3. Turn(i)' = Turn(i)
      BY <3>2 DEF Turn
    <3>4. i \in 1 .. Len(Waiting') /\ Waiting'[i] = Waiting[i]
      <4>1. CASE xQueueSend(t) /\ Len(xQueue) < QueueLength
        <5>1. buf[t] \in Buffer /\ Waiting' = Append(Waiting, buf[t])
          BY <1>1, <4>1, SendWaits
        <5>2. /\ Len(Waiting') = Len(Waiting) + 1
              /\ \A k \in 1 .. Len(Waiting) : Waiting'[k] = Waiting[k]
          BY <2>3, <5>1, Appended
        <5> QED
          BY <2>3, <5>2
      <4>2. CASE ~(xQueueSend(t) /\ Len(xQueue) < QueueLength)
        <5>1. xQueue' = xQueue
          BY <3>1, <4>2 DEF pvPortMalloc, LoadNumber, StoreNumber, xQueueSend, vPortFree
        <5>2. Waiting' = Waiting
          BY <3>2, <5>1 DEF Waiting, Held
        <5> QED
          BY <5>2
      <4> QED
        BY <4>1, <4>2
    <3> QED
      BY <3>3, <3>4
  <2>5. CASE xQueueReceive
    <3>1. Waiting' = Waiting
      BY <1>1, <2>5, ReceiveKeeps
    <3>2. pcReceivedString = None /\ pcReceivedString' # None
      BY <1>1, <2>5, LogAssumption, HeadTailProperties DEF xQueueReceive, TypeOK
    <3>3. Turn(i) = 2 * i /\ Turn(i)' = 2 * i - 1
      BY <2>1, <3>2 DEF Turn
    <3>4. Turn(i)' = Turn(i) - 1
      BY <2>1, <3>3
    <3> QED
      BY <2>1, <2>2, <2>5, <3>1, <3>4 DEF prvLoggingTask
  <2>6. CASE PrintString /\ i # 1
    <3>1. /\ pcReceivedString # None /\ pcReceivedString' = None
          /\ xQueue' = xQueue /\ xQueue \in Seq(Buffer) /\ Len(xQueue) \in Nat
      BY <1>1, <2>6, LenProperties DEF PrintString, TypeOK
    <3>2. /\ Len(Waiting) = Len(xQueue) + 1
          /\ \A k \in 1 .. Len(xQueue) : Waiting[k + 1] = xQueue[k]
      BY <1>1, <3>1, WaitingShape
    <3>3. Waiting' = xQueue
      BY <1>1, <3>1, WaitingNext
    <3>4. PICK k \in 1 .. Len(xQueue) : i = k + 1
      <4>1. i - 1 \in 1 .. Len(xQueue) /\ i = (i - 1) + 1
        BY <2>1, <2>6, <3>1, <3>2
      <4> QED
        BY <4>1
    <3>5. k \in 1 .. Len(Waiting') /\ Waiting'[k] = Waiting[i]
      BY <3>2, <3>3, <3>4
    <3>6. Turn(i) = 2 * i - 1 /\ Turn(k)' = 2 * k
      BY <3>1, <3>4 DEF Turn
    <3>7. Turn(k)' = Turn(i) - 1
      BY <3>4, <3>6
    <3> QED
      BY <2>1, <2>2, <2>6, <3>5, <3>7 DEF prvLoggingTask
  <2>7. CASE PrintString /\ i = 1
    BY <2>1, <2>2, <2>7
  <2> QED
    BY <2>1, <2>2, <2>4, <2>5, <2>6, <2>7 DEF prvLoggingTask
<1>2. IInv /\ [Next]_vars =>
        [ \A i \in 1 .. Len(Waiting) :
            /\ Turn(i) \in 1 .. 2 * QueueLength + 1
            /\ pcReceivedString # None \/ xQueue # << >>
            /\ \/ i = 1 /\ PrintString
               \/ \E j \in 1 .. Len(Waiting') :
                    /\ Waiting'[j] = Waiting[i]
                    /\ Turn(j)' = IF prvLoggingTask THEN Turn(i) - 1 ELSE Turn(i) ]_vars
  BY <1>1 DEF IInv
<1> QED
  BY <1>2, Invariance, PTL DEF Spec

-----------------------------------------------------------------------------
(* Each task's messages, in the order of its calls *)
InOrder(s) ==
  \A i, j \in 1 .. Len(s) : i < j /\ s[i][1] = s[j][1] => s[i][2] < s[j][2]

(* What is printed and what is going to be *)
Line == printed \o Accepted

LEMMA LineIs ==
  ASSUME TypeOK, Texts
  PROVE  /\ Line \in Seq(Message) /\ Len(Line) \in Nat
         /\ \A i \in 1 .. Len(Line) : Sent(Line[i])
         /\ \A i \in 1 .. Len(printed) : i \in 1 .. Len(Line) /\ Line[i] = printed[i]
<1>1. /\ Accepted \in Seq(Message) /\ printed \in Seq(Message)
      /\ Len(Accepted) \in Nat /\ Len(printed) \in Nat
      /\ \A i \in 1 .. Len(Accepted) : Sent(Accepted[i])
  BY AcceptedShape, LenProperties DEF TypeOK
<1>2. /\ Line \in Seq(Message) /\ Len(Line) = Len(printed) + Len(Accepted)
      /\ \A i \in 1 .. Len(printed) + Len(Accepted) :
           Line[i] = IF i <= Len(printed) THEN printed[i] ELSE Accepted[i - Len(printed)]
  BY <1>1, ConcatProperties DEF Line
<1>3. ASSUME NEW i \in 1 .. Len(Line) PROVE Sent(Line[i])
  <2>1. CASE i <= Len(printed)
    BY <1>1, <1>2, <2>1 DEF Texts
  <2>2. CASE ~(i <= Len(printed))
    <3>1. i - Len(printed) \in 1 .. Len(Accepted)
      BY <1>1, <1>2, <2>2
    <3> QED
      BY <1>1, <1>2, <2>2, <3>1
  <2> QED
    BY <2>1, <2>2
<1> QED
  BY <1>1, <1>2, <1>3

(* The first of a line goes over to the other. *)
LEMMA HandOver ==
  ASSUME NEW p \in Seq(Message), NEW a \in Seq(Message), a # << >>
  PROVE  Append(p, Head(a)) \o Tail(a) = p \o a
<1>1. /\ Head(a) \in Message /\ Tail(a) \in Seq(Message) /\ Len(Tail(a)) = Len(a) - 1
      /\ \A i \in 1 .. Len(Tail(a)) : Tail(a)[i] = a[i + 1]
      /\ Len(a) \in Nat /\ Head(a) = a[1]
  BY HeadTailProperties, LenProperties
<1> DEFINE h == <<Head(a)>>
<1>2. h \in Seq(Message) /\ Len(h) = 1 /\ h[1] = a[1]
  BY <1>1
<1>3. Append(p, Head(a)) = p \o h
  BY <1>1, AppendIsConcat
<1> HIDE DEF h
<1>4. h \o Tail(a) = a
  <2>1. /\ h \o Tail(a) \in Seq(Message) /\ Len(h \o Tail(a)) = 1 + Len(Tail(a))
        /\ \A i \in 1 .. 1 + Len(Tail(a)) :
             (h \o Tail(a))[i] = IF i <= 1 THEN h[i] ELSE Tail(a)[i - 1]
    <3> DEFINE q == Tail(a)
    <3>1. q \in Seq(Message)
      BY <1>1
    <3> HIDE DEF q
    <3>2. /\ h \o q \in Seq(Message) /\ Len(h \o q) = Len(h) + Len(q)
          /\ \A i \in 1 .. Len(h) + Len(q) :
               (h \o q)[i] = IF i <= Len(h) THEN h[i] ELSE q[i - Len(h)]
      BY <1>2, <3>1, ConcatProperties
    <3>3. /\ h \o q \in Seq(Message) /\ Len(h \o q) = 1 + Len(q)
          /\ \A i \in 1 .. 1 + Len(q) :
               (h \o q)[i] = IF i <= 1 THEN h[i] ELSE q[i - 1]
      BY <1>2, <3>2
    <3> QED
      BY <3>3 DEF q
  <2> DEFINE b == h \o Tail(a)
  <2>2. b \in Seq(Message) /\ Len(b) = Len(a)
    BY <1>1, <2>1
  <2>3. ASSUME NEW i \in 1 .. Len(a) PROVE b[i] = a[i]
    <3>1. CASE i = 1
      BY <1>1, <1>2, <2>1, <3>1
    <3>2. CASE i # 1
      <4>1. i - 1 \in 1 .. Len(Tail(a)) /\ (i - 1) + 1 = i /\ ~(i <= 1)
        BY <1>1, <3>2
      <4>2. Tail(a)[i - 1] = a[i]
        BY <1>1, <4>1
      <4>3. b[i] = Tail(a)[i - 1]
        BY <1>1, <2>1, <4>1
      <4> QED
        BY <4>2, <4>3
    <3> QED
      BY <3>1, <3>2
  <2> HIDE DEF b
  <2>4. b = a
    BY <2>2, <2>3, SeqEqual
  <2> QED
    BY <2>4 DEF b
<1> QED
  BY <1>1, <1>2, <1>3, <1>4, ConcatAssociative

LEMMA LineStep == IInv /\ InOrder(Line) /\ [Next]_vars => InOrder(Line)'
<1> SUFFICES ASSUME IInv, InOrder(Line), [Next]_vars PROVE InOrder(Line)'
  OBVIOUS
<1>1. /\ Line \in Seq(Message) /\ Len(Line) \in Nat
      /\ \A i \in 1 .. Len(Line) : Sent(Line[i])
      /\ Accepted \in Seq(Message) /\ printed \in Seq(Message)
  BY LineIs, AcceptedShape DEF IInv, TypeOK
<1>2. CASE Log!Emit
  <2>1. /\ Accepted # << >> /\ Accepted' = Tail(Accepted)
        /\ printed' = Append(printed, Head(Accepted))
    BY <1>2 DEF Log!Emit, Accepted
  <2>2. Line' = Line
    BY <1>1, <2>1, HandOver DEF Line
  <2> QED
    BY <2>2 DEF InOrder
<1>3. ASSUME NEW t \in Task, Accepts(t) PROVE InOrder(Line)'
  <2> DEFINE m == <<t, calls[t]>>
  <2>1. m \in Message /\ Accepted' = Append(Accepted, m) /\ printed' = printed
    BY <1>3 DEF Accepts, Log!Accept, Accepted
  <2>2. m[1] = t /\ m[2] = calls[t] /\ calls[t] \in Nat /\ pc[t] # "idle"
    BY <1>3 DEF Accepts, IInv, TypeOK
  <2>3. \A i \in 1 .. Len(Line) : Line[i][1] = m[1] => Line[i][2] < m[2]
    BY <1>1, <2>2 DEF Sent
  <2> HIDE DEF m
  <2>4. Line' = Append(Line, m)
    <3>1. /\ Accepted' = Accepted \o <<m>> /\ <<m>> \in Seq(Message)
          /\ Append(Line, m) = Line \o <<m>>
      BY <1>1, <2>1, AppendIsConcat
    <3>2. Line' = printed \o (Accepted \o <<m>>)
      BY <2>1, <3>1 DEF Line
    <3> QED
      BY <1>1, <3>1, <3>2, ConcatAssociative DEF Line
  <2>5. /\ Len(Line') = Len(Line) + 1 /\ Line'[Len(Line) + 1] = m
        /\ \A i \in 1 .. Len(Line) : Line'[i] = Line[i]
    BY <1>1, <2>1, <2>4, Appended
  <2>6. ASSUME NEW i \in 1 .. Len(Line'), NEW j \in 1 .. Len(Line'), i < j,
               Line'[i][1] = Line'[j][1]
        PROVE  Line'[i][2] < Line'[j][2]
    <3>1. i \in 1 .. Len(Line) /\ (j \in 1 .. Len(Line) \/ j = Len(Line) + 1)
      BY <1>1, <2>5, <2>6
    <3>2. CASE j \in 1 .. Len(Line)
      BY <2>5, <2>6, <3>1, <3>2 DEF InOrder
    <3>3. CASE j = Len(Line) + 1
      BY <2>3, <2>5, <2>6, <3>1, <3>3
    <3> QED
      BY <3>1, <3>2, <3>3
  <2> QED
    BY <2>6 DEF InOrder
<1>4. CASE Accepted' = Accepted /\ printed' = printed
  BY <1>4 DEF InOrder, Line
<1> QED
  BY <1>2, <1>3, <1>4, LogStep

(* Whatever is dropped on the way, what is printed of one task are messages of its
   calls in the order in which it made them, none twice, although all tasks and
   the queue use the same blocks over and over (xQueueGenericSend, FIFO; the
   free of a message that was not sent). *)
THEOREM TasksPrintInOrder == Spec => []InOrder(printed)
<1>1. Init => InOrder(Line)
  <2> SUFFICES ASSUME Init PROVE InOrder(Line)
    OBVIOUS
  <2>1. TypeOK /\ Texts /\ Len(Waiting) = 0
    <3>1. Waiting = << >>
      BY ConcatEmptySeq, EmptySeq DEF Init, Waiting, Held
    <3> QED
      BY <3>1, InitEstablishes, EmptySeq DEF IInv
  <2>2. Accepted = << >> /\ printed = << >>
    BY <2>1, AcceptedShape, EmptySeq DEF Init
  <2>3. Len(Line) = 0
    BY <2>2, ConcatEmptySeq, EmptySeq DEF Line
  <2> QED
    BY <2>3 DEF InOrder
<1>2. IInv /\ InOrder(Line) => InOrder(printed)
  <2> SUFFICES ASSUME IInv, InOrder(Line),
                      NEW i \in 1 .. Len(printed), NEW j \in 1 .. Len(printed), i < j,
                      printed[i][1] = printed[j][1]
               PROVE  printed[i][2] < printed[j][2]
    BY DEF InOrder
  <2>1. /\ i \in 1 .. Len(Line) /\ Line[i] = printed[i]
        /\ j \in 1 .. Len(Line) /\ Line[j] = printed[j]
    BY LineIs DEF IInv
  <2> QED
    BY <2>1 DEF InOrder
<1> QED
  BY Invariance, <1>1, <1>2, LineStep, PTL DEF Spec

===============================================================================
