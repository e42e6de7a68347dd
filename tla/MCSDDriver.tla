------------------------------ MODULE MCSDDriver ------------------------------
(***************************************************************************)
(* The driver's calls (SDDisk) and its two bounded waits on the tick counter *)
(* (TickWait), in one run.  In SDDisk a wait that has a timeout may end in it *)
(* at any time; how long it lasts is TickWait's.  Neither shares a variable  *)
(* with the other, so a behaviour is of one part.                           *)
(***************************************************************************)
EXTENDS SDDisk, TickWait

VARIABLE part

MCInit ==
  /\ Init /\ WaitInit
  /\ \/ part = "calls" /\ tick = 0 /\ ready
     \/ part = "waits" /\ card = "OFF" /\ halState = "RESET"
        /\ disk = CHOOSE d \in [Sectors -> Data] : TRUE

MCNext ==
  \/ part = "calls" /\ Next /\ UNCHANGED <<waitVars, part>>
  \/ part = "waits" /\ WaitNext /\ UNCHANGED <<vars, part>>

MCSpec ==
  MCInit /\ [][MCNext]_<<vars, waitVars, part>> /\ WF_vars(~halted /\ Driver)
===============================================================================
