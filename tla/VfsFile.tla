------------------------------- MODULE VfsFile -------------------------------
(***************************************************************************)
(* What SQLite may rely on of a file behind the VFS of                      *)
(* sqlite_os_freertos.c: a read returns what was written before it, and     *)
(* what was synchronised survives a crash, as long as no call on the open   *)
(* file has returned an error.  Closing a file does not promise that what   *)
(* was not synchronised is kept, and opening one does not promise that it   *)
(* is not emptied.                                                         *)
(***************************************************************************)
EXTENDS FileContents

VARIABLES
  content,   (* what a read returns *)
  durable,   (* at each position, what a crash may leave there *)
  open,
  broken,    (* a call on the open file returned an error *)
  out        (* what the last call returned *)

vars == <<content, durable, open, broken, out>>

NoOut == [op |-> "none", rc |-> "OK", at |-> 0, data |-> << >>, size |-> 0]
Out(op) == [NoOut EXCEPT !.op = op]

Init ==
  /\ content \in Contents
  /\ durable = [p \in Pos |-> {content[p]}]
  /\ open = FALSE /\ broken = FALSE /\ out = NoOut

Open ==
  /\ ~open /\ open' = TRUE
  /\ \/ UNCHANGED <<content, durable>>
     \/ content' = Empty /\ durable' = [p \in Pos |-> durable[p] \cup {Absent}]
  /\ out' = NoOut /\ UNCHANGED broken

(* Some stretch of the file is given new bytes. *)
Write ==
  /\ open /\ ~broken /\ out' = NoOut
  /\ \E first, last \in Pos :
       /\ first <= last
       /\ \A p \in Pos : IF first <= p /\ p <= last THEN content'[p] \in Byte
                                                ELSE content'[p] = content[p]
  /\ durable' = [p \in Pos |-> durable[p] \cup {content'[p]}]
  /\ UNCHANGED <<open, broken>>

(* A read is short only if the file ends before it does, and then says so. *)
Read ==
  /\ open /\ ~broken
  /\ out'.op = "read"
  /\ LET n == Len(out'.data) IN
       \/ /\ out'.rc = "OK" /\ out'.at + n <= Size(content)
          /\ Agrees(content, out'.at, out'.data, n)
       \/ /\ out'.rc = "SHORT_READ" /\ Size(content) < out'.at + n
          /\ \E m \in 0 .. n - 1 :
               /\ Size(content) <= out'.at + m
               /\ Agrees(content, out'.at, out'.data, m)
               /\ \A k \in m + 1 .. n : out'.data[k] = Zero
  /\ UNCHANGED <<content, durable, open, broken>>

FileSize ==
  /\ open /\ ~broken
  /\ out'.op = "size" /\ out'.size = Size(content)
  /\ UNCHANGED <<content, durable, open, broken>>

(* What lies behind the new end is gone for the next read, and may be gone after
   a crash.  SQLite makes no file longer by it. *)
Truncate ==
  /\ open /\ ~broken /\ out'.op = "truncate"
  /\ content' = [p \in Pos |-> IF p < out'.size THEN content[p] ELSE Absent]
  /\ durable' = [p \in Pos |-> durable[p] \cup {content'[p]}]
  /\ UNCHANGED <<open, broken>>

Sync ==
  /\ open /\ ~broken
  /\ out' = Out("sync")
  /\ durable' = [p \in Pos |-> {content[p]}]
  /\ UNCHANGED <<content, open, broken>>

(* A call returns an error, or any call is made after one. *)
Break == open /\ open' /\ broken'

(* A file longer than what was written of it has any bytes in between. *)
Close ==
  /\ open /\ ~open' /\ ~broken'
  /\ broken \/ \A p \in Pos : durable'[p] \subseteq OrJunk(durable[p])
  /\ \A p \in Pos : content'[p] \in durable'[p]
  /\ out' = NoOut

Delete ==
  /\ ~open /\ out' = NoOut
  /\ content' = Empty
  /\ \/ durable' = [p \in Pos |-> {Absent}]
     \/ durable' = [p \in Pos |-> durable[p] \cup {Absent}]
  /\ UNCHANGED <<open, broken>>

Crash ==
  /\ ~open' /\ ~broken' /\ out' = NoOut
  /\ broken \/ \A p \in Pos : content'[p] \in durable[p]
  /\ durable' = [p \in Pos |-> {content'[p]}]

Next ==
  \/ Break \/ Open \/ Read \/ FileSize \/ Truncate \/ Sync \/ Write \/ Close
  \/ Delete \/ Crash

Spec == Init /\ [][Next]_vars
===============================================================================
