------------------------------- MODULE NetLink -------------------------------
(***************************************************************************)
(* The network link: the thread that polls the PHY (Src/ethernetif.c), the *)
(* link callback and DHCP_Thread (Src/lwip.c), lwIP's DHCP client as they   *)
(* drive it (core/ipv4/dhcp.c), and the default task that starts the web    *)
(* server once DHCP_state says that an address was assigned (Src/main.c).   *)
(*                                                                         *)
(* The threads share DHCP_state without a lock.  ethernet_link_thread       *)
(* (osPriorityNormal) preempts DHCP_Thread (osPriorityBelowNormal) between  *)
(* any two of its steps and does not block while it handles a change, so    *)
(* one poll of it is one action; the TCP/IP thread (osPriorityHigh) runs    *)
(* the DHCP client between any two steps of either.                         *)
(***************************************************************************)
EXTENDS Naturals

CONSTANT
  Modes      (* the speed and duplex settings the PHY may negotiate *)

ASSUME ModesAssumption ==
  Modes # {} /\ Modes \cap {"none", "down", "negotiating", "error"} = {}

MAX_DHCP_TRIES == 4
SELECT_TRIES   == 5
REBOOT_TRIES   == 2
(* Bound on dhcp->tries: beyond it no comparison of the code tells two values
   apart. *)
TriesCap == 6

VARIABLES
  (* the PHY: "down", "negotiating", or up with the mode negotiated *)
  phy,
  (* the MAC's mode, and the link thread's variables *)
  macMode, mode, linkchanged,
  (* NETIF_FLAG_UP and NETIF_FLAG_LINK_UP, always changed together *)
  up,
  (* the state machine of lwip.c and the position in DHCP_Thread *)
  DHCP_state, dpc,
  (* the client struct: "NONE" before it is allocated; dhcp->tries; whether a
     lease timer runs; the interface's address *)
  client, tries, armed, addr,
  (* minimal_http_server_tls has been created *)
  serverStarted,
  (* history: the last link change fell inside an iteration of DHCP_Thread;
     an assigned address was lost since DHCP_Thread last started the client;
     that start, or one lwIP made after it, failed *)
  raced, lost, failed

phyVars    == <<phy>>
linkVars   == <<macMode, mode, linkchanged, up>>
threadVars == <<DHCP_state, dpc>>
clientVars == <<client, tries, armed>>
history    == <<raced, lost, failed>>
vars == <<phyVars, linkVars, threadVars, clientVars, addr, serverStarted, history>>

(* the states of dhcp_supplied_address; RENEWING stands for REBINDING too,
   in which the client answers to every message alike. *)
Supplied == {"BOUND", "RENEWING"}
ClientStates ==
  {"NONE", "OFF", "SELECTING", "REQUESTING", "CHECKING", "REBOOTING",
   "BACKING_OFF"} \cup Supplied

TypeOK ==
  /\ phy \in {"down", "negotiating"} \cup Modes
  /\ macMode \in Modes /\ mode \in Modes \cup {"none"}
  /\ linkchanged \in BOOLEAN /\ up \in BOOLEAN
  /\ DHCP_state \in {"OFF", "START", "WAIT_ADDRESS", "ADDRESS_ASSIGNED",
                     "TIMEOUT", "LINK_DOWN"}
  /\ dpc \in {"switch", "setWait", "start", "assign", "tries", "setTimeout",
              "stop", "static", "down", "setOff"}
  /\ client \in ClientStates /\ tries \in 0 .. TriesCap /\ armed \in BOOLEAN
  /\ addr \in {"zero", "leased"}
  /\ serverStarted \in BOOLEAN
  /\ raced \in BOOLEAN /\ lost \in BOOLEAN /\ failed \in BOOLEAN

(* After MX_LWIP_Init: low_level_init has brought the interface up whatever
   the PHY said, and the first call of the link callback has seen it up. *)
Init ==
  /\ phy \in {"down", "negotiating"} \cup Modes
  /\ macMode \in Modes
  /\ mode = "none" /\ linkchanged = FALSE /\ up = TRUE
  /\ DHCP_state = "START" /\ dpc = "switch"
  /\ client = "NONE" /\ tries = 0 /\ armed = FALSE /\ addr = "zero"
  /\ serverStarted = FALSE
  /\ raced = FALSE /\ lost = FALSE /\ failed = FALSE

-------------------------------------------------------------------------------
(* lwIP's DHCP client *)

Inc_NoLimit(n) == n + 1
Inc(n) == IF n < TriesCap THEN n + 1 ELSE n

(* dhcp_set_state followed by the increment every sender makes *)
Enter(state) ==
  /\ client' = state
  /\ tries' = IF client = state THEN Inc(tries) ELSE 1

(* dhcp_start: refused while the interface is down; out of memory for the
   struct it stays unallocated, out of memory for the socket it is cleared. *)
dhcp_start(ok) ==
  \/ ~up /\ UNCHANGED clientVars
  \/ up /\ ok /\ client' = "SELECTING" /\ tries' = 1 /\ armed' = FALSE
  \/ up /\ ~ok /\ client = "NONE" /\ UNCHANGED clientVars
  \/ up /\ ~ok /\ client' = "OFF" /\ tries' = 0 /\ armed' = FALSE

(* dhcp_release_and_stop *)
dhcp_stop ==
  IF client \in {"NONE", "OFF"}
    THEN UNCHANGED <<clientVars, addr>>
    ELSE /\ client' = "OFF" /\ tries' = 0 /\ armed' = FALSE
         /\ addr' = IF client \in Supplied THEN "zero" ELSE addr

(* dhcp_network_changed, called when the link comes up *)
dhcp_network_changed ==
  IF client \in {"NONE", "OFF"}
    THEN UNCHANGED clientVars
    ELSE /\ client' = IF client \in Supplied \cup {"REBOOTING"}
                        THEN "REBOOTING" ELSE "SELECTING"
         /\ tries' = 1
         /\ UNCHANGED armed

clientSteps == <<phyVars, linkVars, threadVars, serverStarted, raced>>

Offer ==
  /\ up /\ client = "SELECTING"
  /\ Enter("REQUESTING")
  /\ UNCHANGED <<clientSteps, armed, addr, lost, failed>>

Bind == client' = "BOUND" /\ tries' = 0 /\ armed' = TRUE /\ addr' = "leased"

Ack ==
  /\ up
  /\ \/ /\ client = "REQUESTING"
        /\ Enter("CHECKING")
        /\ UNCHANGED <<armed, addr>>
     \/ client \in {"REBOOTING", "RENEWING"} /\ Bind
  /\ UNCHANGED <<clientSteps, lost, failed>>

(* dhcp_handle_nak: BACKING_OFF, the address is removed, and discovery anew *)
Nak ==
  /\ up /\ client \in {"REBOOTING", "REQUESTING", "RENEWING"}
  /\ client' = "SELECTING" /\ tries' = 1
  /\ addr' = "zero"
  /\ lost' = (lost \/ addr = "leased")
  /\ UNCHANGED <<clientSteps, armed, failed>>

(* dhcp_arp_reply: somebody else uses the address *)
Decline ==
  /\ up /\ client = "CHECKING"
  /\ Enter("BACKING_OFF")
  /\ UNCHANGED <<clientSteps, armed, addr, lost, failed>>

(* dhcp_fine_tmr, dhcp_timeout; the sixth request without an answer stops the
   client and starts it again. *)
RequestTimeout ==
  /\ \/ client \in {"SELECTING", "BACKING_OFF"} /\ Enter("SELECTING") /\ UNCHANGED <<armed, addr>>
     \/ client = "REQUESTING" /\ tries <= SELECT_TRIES /\ Enter("REQUESTING") /\ UNCHANGED <<armed, addr>>
     \/ client = "REQUESTING" /\ tries > SELECT_TRIES
        /\ \/ up /\ client' = "SELECTING" /\ tries' = 1
           \/ client' = "OFF" /\ tries' = 0
        /\ armed' = FALSE /\ UNCHANGED addr
     \/ client = "CHECKING" /\ tries <= 1 /\ Enter("CHECKING") /\ UNCHANGED <<armed, addr>>
     \/ client = "CHECKING" /\ tries > 1 /\ Bind
     \/ client = "REBOOTING" /\ tries < REBOOT_TRIES /\ Enter("REBOOTING") /\ UNCHANGED <<armed, addr>>
     \/ client = "REBOOTING" /\ tries >= REBOOT_TRIES /\ Enter("SELECTING") /\ UNCHANGED <<armed, addr>>
  /\ failed' = (failed \/ client' = "OFF")
  /\ UNCHANGED <<clientSteps, lost>>

(* dhcp_coarse_tmr: t1 and t2 *)
Renew ==
  /\ armed /\ client \in {"REQUESTING", "BOUND", "RENEWING"}
  /\ Enter("RENEWING")
  /\ UNCHANGED <<clientSteps, armed, addr, lost, failed>>

(* dhcp_coarse_tmr: t0, dhcp_release_and_stop and dhcp_start; the start fails
   when the interface is down or memory is short. *)
Expire ==
  /\ armed /\ client \notin {"NONE", "OFF"}
  /\ \/ up /\ client' = "SELECTING" /\ tries' = 1
     \/ client' = "OFF" /\ tries' = 0
  /\ armed' = FALSE
  /\ addr' = IF client \in Supplied THEN "zero" ELSE addr
  /\ lost' = (lost \/ addr = "leased")
  /\ failed' = (failed \/ client' = "OFF")
  /\ UNCHANGED clientSteps

-------------------------------------------------------------------------------
(* ethernet_link_thread: one poll of the PHY; read is what LAN8742_GetLinkState
   returns: "down", a mode, or something else (negotiation not done, or a
   register read that failed, negative and above LINK_DOWN as an uint32_t). *)

(* ethernet_link_status_updated *)
Callback_AlwaysStart(state) ==
  /\ DHCP_state' = "START"
  /\ raced' = (dpc # "switch")
Callback(state) ==
  /\ DHCP_state' = state
  /\ raced' = (dpc # "switch")

LinkLost(read) ==
  /\ up /\ read = "down"
  /\ up' = FALSE
  /\ Callback("LINK_DOWN")
  /\ UNCHANGED <<phyVars, macMode, mode, linkchanged, dpc, clientVars, addr,
                 serverStarted, lost, failed>>

(* linkchanged and the mode keep the values of the last link-up. *)
LinkFound(read) ==
  /\ ~up /\ read # "down"
  /\ mode' = IF read \in Modes THEN read ELSE mode
  /\ linkchanged' = (linkchanged \/ read \in Modes)
  /\ IF linkchanged'
       THEN /\ macMode' = mode' /\ up' = TRUE
            /\ dhcp_network_changed
            /\ Callback("START")
       ELSE UNCHANGED <<macMode, up, clientVars, DHCP_state, raced>>
  /\ UNCHANGED <<phyVars, dpc, addr, serverStarted, lost, failed>>

-------------------------------------------------------------------------------
(* DHCP_Thread *)

threadOnly == <<phyVars, linkVars, serverStarted, raced>>

ReadStart ==
  /\ dpc = "switch" /\ DHCP_state = "START"
  /\ addr' = "zero" /\ dpc' = "setWait"
  /\ UNCHANGED <<threadOnly, DHCP_state, clientVars, lost, failed>>

SetWait ==
  /\ dpc = "setWait"
  /\ DHCP_state' = "WAIT_ADDRESS" /\ dpc' = "start"
  /\ UNCHANGED <<threadOnly, clientVars, addr, lost, failed>>

(* the result of dhcp_start is not looked at *)
CallStart(ok) ==
  /\ dpc = "start"
  /\ dhcp_start(ok)
  /\ dpc' = "switch"
  /\ lost' = FALSE /\ failed' = (client' \in {"NONE", "OFF"})
  /\ UNCHANGED <<threadOnly, DHCP_state, addr>>

AddressSupplied_Any == client \notin {"NONE", "OFF", "SELECTING"}
AddressSupplied == client \in Supplied

ReadWait ==
  /\ dpc = "switch" /\ DHCP_state = "WAIT_ADDRESS"
  /\ dpc' = IF AddressSupplied THEN "assign" ELSE "tries"
  /\ UNCHANGED <<threadOnly, DHCP_state, clientVars, addr, lost, failed>>

SetAssigned ==
  /\ dpc = "assign"
  /\ DHCP_state' = "ADDRESS_ASSIGNED" /\ dpc' = "switch"
  /\ UNCHANGED <<threadOnly, clientVars, addr, lost, failed>>

(* dhcp->tries > MAX_DHCP_TRIES; an unallocated client is read at address 0,
   which is RAM, with any outcome. *)
TriesExceeded_Never == FALSE
TriesExceeded == tries > MAX_DHCP_TRIES

CheckTries ==
  /\ dpc = "tries"
  /\ dpc' \in IF client = "NONE" THEN {"setTimeout", "switch"}
              ELSE IF TriesExceeded THEN {"setTimeout"} ELSE {"switch"}
  /\ UNCHANGED <<threadOnly, DHCP_state, clientVars, addr, lost, failed>>

SetTimeout ==
  /\ dpc = "setTimeout"
  /\ DHCP_state' = "TIMEOUT" /\ dpc' = "stop"
  /\ UNCHANGED <<threadOnly, clientVars, addr, lost, failed>>

StopAfterTimeout ==
  /\ dpc = "stop"
  /\ dhcp_stop
  /\ dpc' = "static"
  /\ UNCHANGED <<threadOnly, DHCP_state, lost, failed>>

(* IP_ADDR0 to IP_ADDR3 are all 0 in a build with USE_DHCP *)
SetStaticAddress ==
  /\ dpc = "static"
  /\ addr' = "zero" /\ dpc' = "switch"
  /\ UNCHANGED <<threadOnly, DHCP_state, clientVars, lost, failed>>

ReadLinkDown ==
  /\ dpc = "switch" /\ DHCP_state = "LINK_DOWN"
  /\ dpc' = "down"
  /\ UNCHANGED <<threadOnly, DHCP_state, clientVars, addr, lost, failed>>

StopAfterLinkDown ==
  /\ dpc = "down"
  /\ dhcp_stop
  /\ dpc' = "setOff"
  /\ UNCHANGED <<threadOnly, DHCP_state, lost, failed>>

SetOff_Early ==
  /\ dpc = "down"
  /\ DHCP_state' = "OFF" /\ dpc' = "switch"
  /\ UNCHANGED <<threadOnly, clientVars, addr, lost, failed>>
SetOff ==
  /\ dpc = "setOff"
  /\ DHCP_state' = "OFF" /\ dpc' = "switch"
  /\ UNCHANGED <<threadOnly, clientVars, addr, lost, failed>>

-------------------------------------------------------------------------------
(* StartDefaultTask polls DHCP_state and creates the server task once. *)
StartServer ==
  /\ ~serverStarted /\ DHCP_state = "ADDRESS_ASSIGNED"
  /\ serverStarted' = TRUE
  /\ UNCHANGED <<phyVars, linkVars, threadVars, clientVars, addr, history>>

(* A cable is plugged, replaced or pulled; negotiation ends. *)
PhyChanges ==
  /\ phy' \in ({"down", "negotiating"} \cup Modes) \ {phy}
  /\ UNCHANGED <<linkVars, threadVars, clientVars, addr, serverStarted, history>>

DHCP_Thread ==
  \/ ReadStart \/ SetWait \/ (\E ok \in BOOLEAN : CallStart(ok))
  \/ ReadWait \/ SetAssigned \/ CheckTries \/ SetTimeout \/ StopAfterTimeout
  \/ SetStaticAddress \/ ReadLinkDown \/ StopAfterLinkDown \/ SetOff

Poll(read) == LinkLost(read) \/ LinkFound(read)

(* A failed register read takes no link down, but may bring one up. *)
Environment ==
  \/ LinkFound("error") \/ PhyChanges \/ Offer \/ Ack \/ Nak \/ Decline \/ Renew \/ Expire

System == DHCP_Thread \/ Poll(phy) \/ RequestTimeout \/ StartServer

Next == System \/ Environment

Spec == Init /\ [][Next]_vars

(* DHCP_Thread and the default task loop for ever with a delay, the link
   thread polls every 100 ms, lwIP's timers run.  Nothing is assumed of the
   cable and of the DHCP server. *)
FairSpec ==
  /\ Spec
  /\ WF_vars(DHCP_Thread)
  /\ WF_vars(Poll(phy))
  /\ WF_vars(RequestTimeout)
  /\ WF_vars(StartServer)

-------------------------------------------------------------------------------
(* Unless the last link change fell inside an iteration of DHCP_Thread, the
   state machine of lwip.c has taken note of it: it is stopping or off while
   the interface is down, and neither while it is up (lwip.c:254 and 148). *)
StateFollowsLink ==
  ~raced => ((DHCP_state \in {"LINK_DOWN", "OFF"}) <=> ~up)

(* ADDRESS_ASSIGNED, on which the default task starts the web server
   (main.c:884), means that the interface has an address, unless the link
   change raced or the server took the lease back (lwip.c:117). *)
AssignedMeansAddress ==
  DHCP_state = "ADDRESS_ASSIGNED" /\ ~raced /\ ~lost => addr = "leased"

(* While DHCP is given up or the cable is out, the client is stopped: it
   neither keeps a lease nor sends, so a late answer of the server cannot give
   the interface an address (lwip.c:133 and 151). *)
ClientStopped ==
  DHCP_state \in {"TIMEOUT", "OFF"} /\ dpc = "switch" /\ ~raced =>
    client \in {"NONE", "OFF"} /\ ~armed

(* Once cables and server are at rest, the interface comes up exactly if the
   PHY has negotiated a mode, and DHCP ends with an address, the timeout, or
   off (lwip.c:114 to 152); unless the last link change raced, or the client
   could not be started (lwip.c:111, whose result is dropped). *)
Settled ==
  /\ phy = "down" => ~up
  /\ phy \in Modes => up
  /\ DHCP_state \in {"ADDRESS_ASSIGNED", "TIMEOUT", "OFF"}

EventuallySettled ==
  <>[][System]_vars => <>[](raced \/ failed \/ Settled)
===============================================================================
