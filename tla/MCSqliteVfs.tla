----------------------------- MODULE MCSqliteVfs -----------------------------
(***************************************************************************)
(* SqliteVfs with at most Calls calls on a file that is at first empty, so  *)
(* that a buffer of more than one byte and writes longer than it fit into a *)
(* run; the iterations of a write and a crash are not counted.              *)
(***************************************************************************)
EXTENDS SqliteVfs

CONSTANT Calls

VARIABLE calls

MCInit == Init /\ h.file = Empty /\ calls = 0

MCNext ==
  \/ (WriteStep \/ Crash) /\ UNCHANGED calls
  \/ /\ z = << >> /\ calls < Calls /\ calls' = calls + 1
     /\ Next /\ ~WriteStep /\ ~Crash

MCSpec == MCInit /\ [][MCNext]_<<vars, calls>>
===============================================================================
