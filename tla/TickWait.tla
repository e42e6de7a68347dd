------------------------------- MODULE TickWait -------------------------------
(***************************************************************************)
(* The two loops of Src/sd_diskio.c that wait for the card with a bound in *)
(* system ticks.  Before a transfer, SD_CheckStatusWithTimeout compares    *)
(* the ticks gone by with the bound; after a fast write, SD_write compares *)
(* the tick with a deadline.  Both use uint32_t arithmetic on a tick       *)
(* counter that wraps.                                                     *)
(***************************************************************************)
EXTENDS Integers

CONSTANTS
  W,          (* the tick counter and the variables wrap at W: 2^32 in the build *)
  SD_TIMEOUT  (* 30 * 1000 ticks in the build *)

ASSUME TickAssumption == W \in Nat /\ SD_TIMEOUT \in Nat /\ 0 < SD_TIMEOUT /\ SD_TIMEOUT < W

VARIABLES
  tick,      (* osKernelSysTick() *)
  ready,     (* BSP_SD_GetCardState() = SD_TRANSFER_OK *)
  loop,      (* which loop runs: "since", "deadline" or "none" *)
  stage,     (* "test": at the loop condition; "poll": in the loop's body;
                "ok", "gaveup": left *)
  timer,     (* the local variable of both functions *)
  elapsed    (* history: ticks since the loop was entered *)

waitVars == <<tick, ready, loop, stage, timer, elapsed>>

Words == 0 .. W - 1

(* uint32_t addition and subtraction *)
Add(a, b) == IF a + b < W THEN a + b ELSE a + b - W
Sub_Signed(a, b) == a - b
Sub(a, b) == IF a >= b THEN a - b ELSE a - b + W

WaitTypeOK ==
  /\ tick \in Words /\ timer \in Words /\ elapsed \in Words
  /\ ready \in BOOLEAN
  /\ loop \in {"none", "since", "deadline"}
  /\ stage \in {"test", "poll", "ok", "gaveup"}

WaitInit ==
  /\ tick \in Words /\ ready \in BOOLEAN
  /\ loop = "none" /\ stage = "ok" /\ timer = 0 /\ elapsed = 0

SD_CheckStatusWithTimeout ==
  /\ stage \in {"ok", "gaveup"}
  /\ loop' = "since" /\ stage' = "test" /\ timer' = tick /\ elapsed' = 0
  /\ UNCHANGED <<tick, ready>>

SD_write_poll ==
  /\ stage \in {"ok", "gaveup"}
  /\ loop' = "deadline" /\ stage' = "test"
  /\ timer' = Add(tick, SD_TIMEOUT) /\ elapsed' = 0
  /\ UNCHANGED <<tick, ready>>

(* The loop conditions *)
GoesOn_OneEarly ==
  IF loop = "since" THEN Sub(tick, timer) < SD_TIMEOUT ELSE timer > tick + 1
GoesOn == IF loop = "since" THEN Sub(tick, timer) < SD_TIMEOUT ELSE timer > tick

Test ==
  /\ stage = "test"
  /\ stage' = IF GoesOn THEN "poll" ELSE "gaveup"
  /\ UNCHANGED <<tick, ready, loop, timer, elapsed>>

Poll ==
  /\ stage = "poll"
  /\ stage' = IF ready THEN "ok" ELSE "test"
  /\ UNCHANGED <<tick, ready, loop, timer, elapsed>>

(* The tick interrupt, at any point of the loop.  The bound elapsed < W - 1
   excludes a task that is starved for a whole turn of the counter, 49 days. *)
Tick ==
  /\ stage \in {"test", "poll"} => elapsed < W - 1
  /\ tick' = Add(tick, 1)
  /\ elapsed' = IF stage \in {"test", "poll"} THEN elapsed + 1 ELSE elapsed
  /\ UNCHANGED <<ready, loop, stage, timer>>

CardChanges ==
  /\ ready' = ~ready
  /\ UNCHANGED <<tick, loop, stage, timer, elapsed>>

WaitNext ==
  \/ SD_CheckStatusWithTimeout \/ SD_write_poll \/ Test \/ Poll
  \/ Tick \/ CardChanges

WaitSpec == WaitInit /\ [][WaitNext]_waitVars

-------------------------------------------------------------------------------
(* SD_CheckStatusWithTimeout gives up exactly when SD_TIMEOUT ticks have gone
   by, also across the wrap of the counter (sd_diskio.c:157). *)
SinceExact ==
  loop = "since" =>
    /\ stage = "test" => (GoesOn <=> elapsed < SD_TIMEOUT)
    /\ stage = "gaveup" => elapsed >= SD_TIMEOUT

(* The loop of SD_write keeps the same promise while its deadline does not
   wrap: it gives up no earlier than the bound. *)
DeadlineNotEarly ==
  loop = "deadline" /\ stage = "gaveup" /\ Sub(timer, SD_TIMEOUT) + SD_TIMEOUT < W =>
    elapsed >= SD_TIMEOUT
===============================================================================
