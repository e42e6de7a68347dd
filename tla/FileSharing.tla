----------------------------- MODULE FileSharing -----------------------------
(***************************************************************************)
(* What FatFs's table of open files is for: a file open for writing is open *)
(* once, and the directory entry of an open file is left alone.  Which of    *)
(* the permitted opens succeed is not said.                                 *)
(*                                                                         *)
(* A mount invalidates every handle; any call may be the one that finds the  *)
(* volume in need of it, so each action starts from the opens that are left, *)
(* all of them or none.                                                     *)
(***************************************************************************)
CONSTANTS Handle, File

VARIABLES
  opens,    (* the open files: which handle, which file, open for writing? *)
  exists    (* the names of files in the directories *)

Open == [h : Handle, key : File, w : BOOLEAN]

Left == {opens, {}}

Permitted(left, k, w) == \A o \in left : o.key = k => ~w /\ ~o.w

TypeOK == opens \subseteq Open /\ exists \subseteq File

Init == opens = {} /\ exists \in SUBSET File

Grant(h, k, w) ==
  \E left \in Left :
    /\ \A o \in left : o.h # h
    /\ Permitted(left, k, w)
    /\ opens' = left \cup {[h |-> h, key |-> k, w |-> w]}
    /\ exists' = exists \cup {k}

GiveUp(h) ==
  /\ opens' = {o \in opens : o.h # h}
  /\ UNCHANGED exists

(* A file may come, go or change its name unless it is open. *)
ChangeDirectory ==
  \E left \in Left, names \in SUBSET File :
    /\ opens' = left
    /\ exists' = names
    /\ \A o \in left : o.key \in names

Next ==
  \/ \E h \in Handle : GiveUp(h)
  \/ \E h \in Handle, k \in File, w \in BOOLEAN : Grant(h, k, w)
  \/ ChangeDirectory

Spec == Init /\ [][Next]_<<opens, exists>>
===============================================================================
