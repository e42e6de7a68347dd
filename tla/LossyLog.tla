------------------------------ MODULE LossyLog ------------------------------
(***************************************************************************)
(* What the log of aws_logging_task_dynamic_buffers.c promises: a message    *)
(* that is accepted is printed, whole and once, in the order of acceptance;  *)
(* at most Capacity wait.  The others are dropped whole, and nobody is told. *)
(***************************************************************************)
EXTENDS Naturals, Sequences

CONSTANTS Message, Capacity

VARIABLES
  waiting,   (* accepted, in order, and not yet printed *)
  printed    (* what the UART has put out, in order *)

TypeOK == waiting \in Seq(Message) /\ printed \in Seq(Message)

Init == waiting = << >> /\ printed = << >>

Accept(m) ==
  /\ Len(waiting) < Capacity
  /\ \A i \in 1 .. Len(waiting) : waiting[i] # m
  /\ \A i \in 1 .. Len(printed) : printed[i] # m
  /\ waiting' = Append(waiting, m)
  /\ UNCHANGED printed

Emit ==
  /\ waiting # << >>
  /\ printed' = Append(printed, Head(waiting))
  /\ waiting' = Tail(waiting)

Next == Emit \/ \E m \in Message : Accept(m)

Spec == Init /\ [][Next]_<<waiting, printed>> /\ WF_<<waiting, printed>>(Emit)
===============================================================================
