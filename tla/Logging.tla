------------------------------- MODULE Logging -------------------------------
(***************************************************************************)
(* The log of Src/common/logging/aws_logging_task_dynamic_buffers.c: tasks   *)
(* allocate a buffer, write a message into it and hand it to the logging     *)
(* task through a queue; who does not get it into the queue frees it.        *)
(* xLoggingTaskInitialize is called before the first message and cannot      *)
(* fail in this build (the hook of a failed allocation does not return), so  *)
(* the queue and its task are there from the start.                          *)
(***************************************************************************)
EXTENDS Naturals, Sequences, FiniteSets

CONSTANTS
  Task,         (* the tasks that log *)
  Buffer,       (* blocks of the heap *)
  QueueLength,  (* mainLOGGING_MESSAGE_QUEUE_LENGTH *)
  MaxMessages,  (* bound: calls of each task *)
  None

ASSUME LogAssumption ==
  /\ QueueLength \in Nat \ {0} /\ MaxMessages \in Nat
  /\ IsFiniteSet(Task)
  /\ None \notin Buffer

VARIABLES
  heap,            (* the blocks that are allocated *)
  text,            (* what is in each block; None in a free one *)
  pc, buf,         (* of each task: where it is, its pcPrintString *)
  num,             (* and the message number it has read *)
  xMessageNumber,
  xQueue,
  pcReceivedString,(* of the logging task; None while it waits *)
  (* history: calls made; the numbers in the order in which they were read;
     what came out of the UART; a task has read the number between another's
     reading and storing it *)
  calls, numbers, printed, overlapped

vars == <<heap, text, pc, buf, num, xMessageNumber, xQueue, pcReceivedString,
          calls, numbers, printed, overlapped>>

Message == Task \X (1 .. MaxMessages)

TypeOK ==
  /\ heap \subseteq Buffer
  /\ text \in [Buffer -> Message \cup {None}]
  /\ pc \in [Task -> {"idle", "number", "store", "send", "free"}]
  /\ buf \in [Task -> Buffer \cup {None}]
  /\ num \in [Task -> Nat]
  /\ xMessageNumber \in Nat
  /\ xQueue \in Seq(Buffer) /\ Len(xQueue) <= QueueLength
  /\ pcReceivedString \in Buffer \cup {None}
  /\ calls \in [Task -> 0 .. MaxMessages]
  /\ numbers \in Seq(Nat)
  /\ printed \in Seq(Message)
  /\ overlapped \in BOOLEAN

Init ==
  /\ heap = {} /\ text = [b \in Buffer |-> None]
  /\ pc = [t \in Task |-> "idle"] /\ buf = [t \in Task |-> None]
  /\ num = [t \in Task |-> 0] /\ xMessageNumber = 0
  /\ xQueue = << >> /\ pcReceivedString = None
  /\ calls = [t \in Task |-> 0]
  /\ numbers = << >> /\ printed = << >> /\ overlapped = FALSE

Goto(t, p) == pc' = [pc EXCEPT ![t] = p]

(* The block is whichever the heap has free.  A message of "\n" alone, and one
   of vLoggingPrint, gets no number. *)
pvPortMalloc(t) ==
  /\ pc[t] = "idle" /\ calls[t] < MaxMessages
  /\ calls' = [calls EXCEPT ![t] = @ + 1]
  /\ \E b \in Buffer \ heap :
       /\ heap' = heap \cup {b}
       /\ buf' = [buf EXCEPT ![t] = b]
       /\ text' = [text EXCEPT ![b] = <<t, calls'[t]>>]
  /\ Goto(t, "number") \/ Goto(t, "send")
  /\ UNCHANGED <<num, xMessageNumber, xQueue, pcReceivedString, numbers, printed,
                 overlapped>>

(* xMessageNumber++ is a load and a store. *)
LoadNumber(t) ==
  /\ pc[t] = "number" /\ Goto(t, "store")
  /\ num' = [num EXCEPT ![t] = xMessageNumber]
  /\ numbers' = Append(numbers, xMessageNumber)
  /\ overlapped' = (overlapped \/ \E u \in Task : pc[u] = "store")
  /\ UNCHANGED <<heap, text, buf, xMessageNumber, xQueue, pcReceivedString, calls,
                 printed>>

StoreNumber_Same(t) ==
  /\ pc[t] = "store" /\ Goto(t, "send")
  /\ UNCHANGED <<heap, text, buf, num, xMessageNumber, xQueue, pcReceivedString, calls,
                 numbers, printed, overlapped>>
StoreNumber(t) ==
  /\ pc[t] = "store" /\ Goto(t, "send")
  /\ xMessageNumber' = num[t] + 1 /\ num' = [num EXCEPT ![t] = 0]
  /\ UNCHANGED <<heap, text, buf, xQueue, pcReceivedString, calls, numbers,
                 printed, overlapped>>

xQueueSend_FreeAnyway(t) ==
  /\ pc[t] = "send" /\ Goto(t, "free")
  /\ xQueue' = IF Len(xQueue) < QueueLength THEN Append(xQueue, buf[t]) ELSE xQueue
  /\ UNCHANGED <<heap, text, buf, num, xMessageNumber, pcReceivedString, calls, numbers,
                 printed, overlapped>>

xQueueSend_ToFront(t) ==
  /\ pc[t] = "send"
  /\ IF Len(xQueue) < QueueLength
     THEN /\ xQueue' = <<buf[t]>> \o xQueue
          /\ buf' = [buf EXCEPT ![t] = None] /\ Goto(t, "idle")
     ELSE Goto(t, "free") /\ UNCHANGED <<xQueue, buf>>
  /\ UNCHANGED <<heap, text, num, xMessageNumber, pcReceivedString, calls, numbers,
                 printed, overlapped>>

xQueueSend(t) ==
  /\ pc[t] = "send"
  /\ IF Len(xQueue) < QueueLength
     THEN /\ xQueue' = Append(xQueue, buf[t])
          /\ buf' = [buf EXCEPT ![t] = None] /\ Goto(t, "idle")
     ELSE Goto(t, "free") /\ UNCHANGED <<xQueue, buf>>
  /\ UNCHANGED <<heap, text, num, xMessageNumber, pcReceivedString, calls, numbers,
                 printed, overlapped>>

(* The message was not sent. *)
vPortFree(t) ==
  /\ pc[t] = "free" /\ Goto(t, "idle")
  /\ heap' = heap \ {buf[t]} /\ text' = [text EXCEPT ![buf[t]] = None]
  /\ buf' = [buf EXCEPT ![t] = None]
  /\ UNCHANGED <<num, xMessageNumber, xQueue, pcReceivedString, calls, numbers,
                 printed, overlapped>>

xQueueReceive ==
  /\ pcReceivedString = None /\ xQueue # << >>
  /\ pcReceivedString' = Head(xQueue) /\ xQueue' = Tail(xQueue)
  /\ UNCHANGED <<heap, text, pc, buf, num, xMessageNumber, calls, numbers, printed,
                 overlapped>>

(* configPRINT_STRING returns when the UART has sent the string. *)
PrintString ==
  /\ pcReceivedString # None
  /\ printed' = Append(printed, text[pcReceivedString])
  /\ heap' = heap \ {pcReceivedString} /\ text' = [text EXCEPT ![pcReceivedString] = None]
  /\ pcReceivedString' = None
  /\ UNCHANGED <<pc, buf, num, xMessageNumber, xQueue, calls, numbers,
                 overlapped>>

prvLoggingTask == xQueueReceive \/ PrintString

Next ==
  \/ prvLoggingTask
  \/ \E t \in Task : \/ pvPortMalloc(t) \/ LoadNumber(t) \/ StoreNumber(t)
                     \/ xQueueSend(t) \/ vPortFree(t)

(* Nothing preempts the logging task for ever: it has the highest priority, and
   shares it with tasks that block. *)
Spec == Init /\ [][Next]_vars /\ WF_vars(prvLoggingTask)

-----------------------------------------------------------------------------
(* What should hold *)

Held == IF pcReceivedString = None THEN << >> ELSE <<pcReceivedString>>
Waiting == Held \o xQueue

(* Each block that is allocated is in the hands of one task, or in the queue
   once, or with the logging task, and of no two of them; so none is freed twice,
   lost, or written again before it is printed. *)
BufferHasOneOwner ==
  /\ \A b \in Buffer :
       b \in heap <=> \/ \E t \in Task : buf[t] = b
                     \/ \E i \in DOMAIN Waiting : Waiting[i] = b
  /\ \A t, u \in Task : buf[t] # None /\ buf[t] = buf[u] => t = u
  /\ \A i, j \in DOMAIN Waiting : Waiting[i] = Waiting[j] => i = j
  /\ \A t \in Task, i \in DOMAIN Waiting : buf[t] # Waiting[i]

(* However fast the tasks log, the log holds no more blocks than the queue has
   places, one for each task and the one that is being printed. *)
HeapBounded == Cardinality(heap) <= Cardinality(Task) + QueueLength + 1

(* The messages are numbered one after the other unless a task takes its number
   while another has read and not stored it: the counter has no lock. *)
NumbersInOrder == ~overlapped => \A i \in DOMAIN numbers : numbers[i] = i - 1

(* The messages in the queue are printed whole, once, in order and in the end,
   though the blocks they are in are used over and over. *)
Log == INSTANCE LossyLog WITH
  waiting <- [i \in DOMAIN Waiting |-> text[Waiting[i]]],
  Message <- Message, printed <- printed, Capacity <- QueueLength + 1
KeepsLog == Log!Spec
===============================================================================
