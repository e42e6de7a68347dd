---------------------------- MODULE NetLinkProofs ----------------------------
(***************************************************************************)
(* Proofs about NetLink.  What a link change that falls inside an iteration *)
(* of DHCP_Thread leaves behind is repaired by the next one that does not,  *)
(* so the last part of the invariant is conditional on ~raced, and the link *)
(* callback establishes it anew.                                            *)
(***************************************************************************)
EXTENDS NetLink, TLAPS

(* The iteration of DHCP_Thread in progress still agrees with DHCP_state. *)
Iteration ==
  /\ dpc = "setWait" => DHCP_state = "START"
  /\ dpc \in {"start", "assign", "tries", "setTimeout"} => DHCP_state = "WAIT_ADDRESS"
  /\ dpc \in {"stop", "static"} => DHCP_state = "TIMEOUT"
  /\ dpc \in {"down", "setOff"} => DHCP_state = "LINK_DOWN"

(* A lease and the address of the interface go together. *)
LeaseHasAddress ==
  /\ (/\ DHCP_state \in {"WAIT_ADDRESS", "ADDRESS_ASSIGNED"}
      /\ dpc # "start"
      /\ armed \/ client \in Supplied) => addr = "leased"
  /\ dpc = "assign" => addr = "leased"
  /\ DHCP_state = "ADDRESS_ASSIGNED" => addr = "leased"

Stopped == client \in {"NONE", "OFF"}

Unraced ==
  /\ Iteration
  /\ (DHCP_state \in {"LINK_DOWN", "OFF"}) <=> ~up
  /\ DHCP_state = "OFF" \/ dpc \in {"static", "setOff"} => Stopped
  /\ DHCP_state = "TIMEOUT" /\ dpc # "stop" => Stopped
  /\ ~lost => LeaseHasAddress

(* The link thread has a mode to set when it brings the interface up. *)
ModeKnown == linkchanged => mode \in Modes

IInv ==
  /\ TypeOK
  /\ ModeKnown
  /\ Stopped => ~armed
  /\ ~raced => Unraced
-------------------------------------------------------------------------------
(* TypeOK in four groups, by what the provers need for them. *)
PhyOK ==
  /\ phy \in {"down", "negotiating"} \cup Modes
  /\ macMode \in Modes /\ mode \in Modes \cup {"none"}
FlagsOK ==
  /\ linkchanged \in BOOLEAN /\ up \in BOOLEAN /\ armed \in BOOLEAN
  /\ serverStarted \in BOOLEAN
  /\ raced \in BOOLEAN /\ lost \in BOOLEAN /\ failed \in BOOLEAN
NamesOK ==
  /\ DHCP_state \in {"OFF", "START", "WAIT_ADDRESS", "ADDRESS_ASSIGNED",
                     "TIMEOUT", "LINK_DOWN"}
  /\ dpc \in {"switch", "setWait", "start", "assign", "tries", "setTimeout",
              "stop", "static", "down", "setOff"}
  /\ client \in ClientStates
  /\ addr \in {"zero", "leased"}
TriesOK == tries \in 0 .. TriesCap

LEMMA TypeGroups == TypeOK <=> PhyOK /\ FlagsOK /\ NamesOK /\ TriesOK
  BY DEF TypeOK, PhyOK, FlagsOK, NamesOK, TriesOK

LEMMA EnterClient == ASSUME NEW s, Enter(s) PROVE client' = s
  BY DEF Enter

LEMMA InitEstablishes == Init => IInv
<1> SUFFICES ASSUME Init PROVE IInv
  OBVIOUS
<1>1. PhyOK /\ ModeKnown
  BY DEF Init, PhyOK, ModeKnown
<1>2. FlagsOK
  BY DEF Init, FlagsOK
<1>3. NamesOK
  BY DEF Init, NamesOK, ClientStates
<1>4. TriesOK
  BY DEF Init, TriesOK, TriesCap
<1>5. (Stopped => ~armed) /\ Unraced
  BY DEF Init, Stopped, Unraced, Iteration, LeaseHasAddress, Supplied
<1> QED
  BY <1>1, <1>2, <1>3, <1>4, <1>5, TypeGroups DEF IInv

(* The mode the link thread sets was read at this link-up or an earlier one. *)
LEMMA ModeStep == TypeOK /\ ModeKnown /\ [Next]_vars => PhyOK' /\ ModeKnown'
<1> SUFFICES ASSUME TypeOK, ModeKnown, [Next]_vars PROVE PhyOK' /\ ModeKnown'
  OBVIOUS
<1> USE DEF TypeOK, PhyOK, ModeKnown, linkVars, phyVars
<1>1. CASE DHCP_Thread
  BY <1>1 DEF DHCP_Thread, ReadStart, SetWait, CallStart, ReadWait, SetAssigned,
     CheckTries, SetTimeout, StopAfterTimeout, SetStaticAddress, ReadLinkDown,
     StopAfterLinkDown, SetOff, threadOnly
<1>2. CASE Poll(phy)
  BY <1>2 DEF Poll, LinkLost, LinkFound
<1>3. CASE LinkFound("error")
  BY <1>3 DEF Poll, LinkLost, LinkFound
<1>4. CASE RequestTimeout \/ Offer \/ Ack \/ Nak \/ Decline \/ Renew \/ Expire
  BY <1>4 DEF RequestTimeout, Offer, Ack, Nak, Decline, Renew, Expire, clientSteps
<1>5. CASE PhyChanges
  BY <1>5 DEF PhyChanges
<1>6. CASE StartServer \/ UNCHANGED vars
  BY <1>6 DEF StartServer, vars
<1> QED
  BY <1>1, <1>2, <1>3, <1>4, <1>5, <1>6 DEF Next, System, Environment

(* No retry raises dhcp->tries past the bound. *)
LEMMA TriesStep == TypeOK /\ [Next]_vars => TriesOK'
<1> SUFFICES ASSUME TypeOK, [Next]_vars PROVE TriesOK'
  OBVIOUS
<1> USE DEF TypeOK, TriesOK, TriesCap, clientVars, clientSteps
<1>1. CASE DHCP_Thread
  BY <1>1 DEF DHCP_Thread, ReadStart, SetWait, CallStart, ReadWait, SetAssigned,
     CheckTries, SetTimeout, StopAfterTimeout, SetStaticAddress, ReadLinkDown,
     StopAfterLinkDown, SetOff, dhcp_start, dhcp_stop
<1>2. CASE Poll(phy) \/ LinkFound("error")
  BY <1>2 DEF Poll, LinkLost, LinkFound, dhcp_network_changed
<1>3. CASE RequestTimeout
  BY <1>3 DEF RequestTimeout, Enter, Inc, Bind
<1>4. CASE Offer \/ Ack \/ Nak \/ Decline \/ Renew \/ Expire
  BY <1>4 DEF Offer, Ack, Nak, Decline, Renew, Expire, Enter, Inc, Bind
<1>5. CASE PhyChanges \/ StartServer \/ UNCHANGED vars
  BY <1>5 DEF PhyChanges, StartServer, vars
<1> QED
  BY <1>1, <1>2, <1>3, <1>4, <1>5 DEF Next, System, Environment

LEMMA NamesStep == TypeOK /\ [Next]_vars => NamesOK'
<1> SUFFICES ASSUME TypeOK, [Next]_vars PROVE NamesOK'
  OBVIOUS
<1> USE DEF TypeOK, NamesOK, ClientStates, Supplied, clientVars, threadVars, clientSteps
<1>1. CASE DHCP_Thread
  BY <1>1 DEF DHCP_Thread, ReadStart, SetWait, CallStart, ReadWait, SetAssigned,
     CheckTries, SetTimeout, StopAfterTimeout, SetStaticAddress, ReadLinkDown,
     StopAfterLinkDown, SetOff, dhcp_start, dhcp_stop
<1>2. CASE Poll(phy) \/ LinkFound("error")
  BY <1>2 DEF Poll, LinkLost, LinkFound, Callback, dhcp_network_changed
<1>3. CASE RequestTimeout
  BY <1>3, EnterClient DEF RequestTimeout, Bind
<1>4. CASE Offer \/ Ack
  BY <1>4, EnterClient DEF Offer, Ack, Bind
<1>5. CASE Decline \/ Renew
  BY <1>5, EnterClient DEF Decline, Renew
<1>6. CASE Nak \/ Expire
  BY <1>6 DEF Nak, Expire
<1>7. CASE PhyChanges \/ StartServer \/ UNCHANGED vars
  BY <1>7 DEF PhyChanges, StartServer, vars
<1> QED
  BY <1>1, <1>2, <1>3, <1>4, <1>5, <1>6, <1>7 DEF Next, System, Environment

LEMMA FlagsStep == TypeOK /\ [Next]_vars => FlagsOK'
<1> SUFFICES ASSUME TypeOK, [Next]_vars PROVE FlagsOK'
  OBVIOUS
<1> USE DEF TypeOK, FlagsOK, linkVars, clientVars, history, clientSteps, threadOnly
<1>1. CASE ReadStart \/ SetWait \/ ReadWait \/ SetAssigned
  BY <1>1 DEF ReadStart, SetWait, ReadWait, SetAssigned
<1>2. ASSUME NEW ok \in BOOLEAN, CallStart(ok) PROVE FlagsOK'
  <2>1. armed' \in BOOLEAN
    BY <1>2 DEF CallStart, dhcp_start
  <2>2. failed' \in BOOLEAN
    BY <1>2 DEF CallStart
  <2> QED
    BY <1>2, <2>1, <2>2 DEF CallStart
<1>3. CASE CheckTries \/ SetTimeout \/ StopAfterTimeout \/ SetStaticAddress
  BY <1>3 DEF CheckTries, SetTimeout, StopAfterTimeout, SetStaticAddress, dhcp_stop
<1>4. CASE ReadLinkDown \/ StopAfterLinkDown \/ SetOff
  BY <1>4 DEF ReadLinkDown, StopAfterLinkDown, SetOff, dhcp_stop
<1>5. CASE Poll(phy) \/ LinkFound("error")
  BY <1>5, ZenonT(40) DEF Poll, LinkLost, LinkFound, Callback, dhcp_network_changed
<1>6. CASE RequestTimeout
  BY <1>6 DEF RequestTimeout, Bind
<1>7. CASE Offer \/ Ack \/ Nak \/ Decline \/ Renew
  BY <1>7 DEF Offer, Ack, Nak, Decline, Renew, Bind
<1>8. CASE Expire
  BY <1>8 DEF Expire
<1>9. CASE PhyChanges \/ StartServer \/ UNCHANGED vars
  BY <1>9 DEF PhyChanges, StartServer, vars, phyVars
<1> QED
  BY <1>1, <1>2, <1>3, <1>4, <1>5, <1>6, <1>7, <1>8, <1>9
     DEF Next, System, DHCP_Thread, Environment

LEMMA Step == IInv /\ [Next]_vars => IInv'
<1> SUFFICES ASSUME IInv, [Next]_vars PROVE IInv'
  OBVIOUS
<1>t. TypeOK' /\ ModeKnown'
  BY ModeStep, TriesStep, NamesStep, FlagsStep
     DEF IInv, TypeOK, PhyOK, FlagsOK, NamesOK, TriesOK
<1> SUFFICES (Stopped => ~armed)' /\ (~raced => Unraced)'
  BY <1>t DEF IInv
<1> USE DEF IInv, Stopped, Unraced, Iteration, LeaseHasAddress, Supplied, history,
            clientVars, threadVars, linkVars, phyVars, clientSteps, threadOnly
<1>1. ASSUME Poll(phy) \/ LinkFound("error")
      PROVE  (Stopped => ~armed)' /\ (~raced => Unraced)'
  <2>1. CASE LinkLost(phy)
    <3>1. (Stopped => ~armed)'
      BY <2>1 DEF LinkLost
    <3>2. ASSUME ~raced' PROVE Unraced'
      <4>1. dpc' = "switch" /\ DHCP_state' = "LINK_DOWN" /\ up' = FALSE
        BY <2>1, <3>2 DEF LinkLost, Callback
      <4> QED
        BY <4>1
    <3> QED
      BY <3>1, <3>2
  <2>2. CASE LinkFound(phy) \/ LinkFound("error")
    BY <2>2 DEF LinkFound, Callback, dhcp_network_changed, TypeOK
  <2> QED
    BY <1>1, <2>1, <2>2 DEF Poll
<1>2. ASSUME DHCP_Thread
      PROVE  (Stopped => ~armed)' /\ (~raced => Unraced)'
  <2>1. CASE ReadStart \/ SetWait
    BY <2>1 DEF ReadStart, SetWait, TypeOK
  <2>2. ASSUME NEW ok \in BOOLEAN, CallStart(ok)
        PROVE  (Stopped => ~armed)' /\ (~raced => Unraced)'
    BY <2>2 DEF CallStart, dhcp_start, TypeOK
  <2>3. CASE ReadWait \/ SetAssigned \/ CheckTries
    BY <2>3 DEF ReadWait, SetAssigned, CheckTries, AddressSupplied, TypeOK
  <2>4. CASE SetTimeout \/ StopAfterTimeout \/ SetStaticAddress
    BY <2>4 DEF SetTimeout, StopAfterTimeout, SetStaticAddress, dhcp_stop, TypeOK
  <2>5. CASE ReadLinkDown \/ StopAfterLinkDown \/ SetOff
    BY <2>5 DEF ReadLinkDown, StopAfterLinkDown, SetOff, dhcp_stop, TypeOK
  <2> QED
    BY <1>2, <2>1, <2>2, <2>3, <2>4, <2>5 DEF DHCP_Thread
<1>3. ASSUME RequestTimeout
      PROVE  (Stopped => ~armed)' /\ (~raced => Unraced)'
  BY <1>3 DEF RequestTimeout, Enter, Bind, TypeOK
<1>4. ASSUME Offer \/ Ack \/ Nak \/ Decline \/ Renew \/ Expire
      PROVE  (Stopped => ~armed)' /\ (~raced => Unraced)'
  BY <1>4 DEF Offer, Ack, Nak, Decline, Renew, Expire, Enter, Bind, TypeOK
<1>5. ASSUME PhyChanges \/ StartServer \/ UNCHANGED vars
      PROVE  (Stopped => ~armed)' /\ (~raced => Unraced)'
  BY <1>5 DEF PhyChanges, StartServer, vars
<1> QED
  BY <1>1, <1>2, <1>3, <1>4, <1>5 DEF Next, System, Environment

LEMMA Invariance == Spec => []IInv
  BY InitEstablishes, Step, PTL DEF Spec

(* The types hold for every set of modes. *)
THEOREM NetTypes == Spec => []TypeOK
<1>1. IInv => TypeOK
  BY DEF IInv
<1> QED
  BY Invariance, <1>1, PTL

(* The state machine of lwip.c has noted whether the link is up, unless the
   last change fell inside an iteration of DHCP_Thread. *)
THEOREM LinkIsNoted == Spec => []StateFollowsLink
<1>1. IInv => StateFollowsLink
  BY DEF IInv, Unraced, StateFollowsLink
<1> QED
  BY Invariance, <1>1, PTL

(* Where DHCP_state says ADDRESS_ASSIGNED, which releases the web server, the
   interface has the leased address. *)
THEOREM AssignedHasLease == Spec => []AssignedMeansAddress
<1>1. IInv => AssignedMeansAddress
  BY DEF IInv, Unraced, LeaseHasAddress, AssignedMeansAddress
<1> QED
  BY Invariance, <1>1, PTL

(* A client given up is stopped, so that no late answer can bind it. *)
THEOREM GivenUpIsStopped == Spec => []ClientStopped
<1>1. IInv => ClientStopped
  BY DEF IInv, Unraced, Stopped, ClientStopped
<1> QED
  BY Invariance, <1>1, PTL

-------------------------------------------------------------------------------
(* What EventuallySettled rests on: while cable and server are at rest every
   step leads towards Settled. *)

(* The link thread has a change to act on. *)
Unnoticed == IF up THEN phy = "down" ELSE phy \in Modes \/ (linkchanged /\ phy # "down")

(* How often the timer of a request can expire before the client has an address
   or has asked as often as it is asked about *)
Timeouts ==
  IF client = "SELECTING" THEN TriesCap - tries
  ELSE IF client = "BACKING_OFF" THEN TriesCap
  ELSE IF client = "REQUESTING" THEN 2 * TriesCap - tries
  ELSE IF client = "REBOOTING"
    THEN IF tries < REBOOT_TRIES THEN TriesCap + REBOOT_TRIES - tries ELSE TriesCap
  ELSE IF client = "CHECKING" THEN IF tries <= 1 THEN 3 - tries ELSE 1
  ELSE 0

(* DHCP_Thread before it waits for an address, or before it has stopped *)
Phase ==
  IF DHCP_state \in {"START", "LINK_DOWN"}
    THEN IF dpc = "switch" THEN 3 ELSE IF dpc \in {"setWait", "down"} THEN 2 ELSE 1
    ELSE IF DHCP_state = "WAIT_ADDRESS" /\ dpc = "start" THEN 1 ELSE 0

(* and how far it is from the end of its wait once the client is *)
Wait ==
  IF DHCP_state = "WAIT_ADDRESS"
    THEN IF Timeouts > 0 THEN 6
         ELSE IF dpc \in {"assign", "setTimeout"} THEN 4
         ELSE IF dpc = "switch" <=> client \in Supplied THEN 5 ELSE 6
    ELSE IF dpc = "stop" THEN 2 ELSE IF dpc = "static" THEN 1 ELSE 0

Change == IF Unnoticed THEN 1 ELSE 0

(* Each term outweighs those after it. *)
Weigh(change, phase, timeouts, wait) == 500 * change + 110 * phase + 8 * timeouts + wait
Rank == Weigh(Change, Phase, Timeouts, Wait)

(* DHCP_Thread looks at a client that is not done, or the default task starts
   the server. *)
LooksOn == StartServer \/ (Timeouts > 0 /\ (ReadWait \/ CheckTries))

Excused == raced \/ failed

LEMMA RankIs ==
  ASSUME TypeOK
  PROVE  Change \in 0 .. 1 /\ Phase \in 0 .. 3 /\ Timeouts \in 0 .. 12 /\ Wait \in 0 .. 6
BY DEF TypeOK, Change, Phase, Timeouts, TriesCap, REBOOT_TRIES, Wait

(* The values of Timeouts, for n tries *)
LEMMA Few ==
  ASSUME NEW n \in 0 .. 6, NEW t,
         \/ t = 6 - n \/ t = 6 \/ t = 2 * 6 - n \/ t = 0
         \/ t = IF n < 2 THEN 6 + 2 - n ELSE 6
         \/ t = IF n <= 1 THEN 3 - n ELSE 1
  PROVE  t \in 0 .. 12
OBVIOUS

LEMMA RankNext ==
  ASSUME TypeOK'
  PROVE  Change' \in 0 .. 1 /\ Phase' \in 0 .. 3 /\ Timeouts' \in 0 .. 12 /\ Wait' \in 0 .. 6
<1>1. tries' \in 0 .. 6
  BY DEF TypeOK, TriesCap
<1>2. \/ Timeouts' = 6 - tries' \/ Timeouts' = 6 \/ Timeouts' = 2 * 6 - tries' \/ Timeouts' = 0
      \/ Timeouts' = IF tries' < 2 THEN 6 + 2 - tries' ELSE 6
      \/ Timeouts' = IF tries' <= 1 THEN 3 - tries' ELSE 1
  BY DEF Timeouts, TriesCap, REBOOT_TRIES
<1>4. Timeouts' \in 0 .. 12
  BY <1>1, <1>2, Few
<1>3. Wait' \in 0 .. 6
  BY DEF Wait
<1> QED
  BY <1>3, <1>4 DEF Change, Phase

LEMMA Lower ==
  ASSUME TypeOK, TypeOK',
         \/ Change' < Change
         \/ Change' = Change /\ Phase' < Phase
         \/ Change' = Change /\ Phase' = Phase /\ Timeouts' < Timeouts
         \/ Change' = Change /\ Phase' = Phase /\ Timeouts' = Timeouts /\ Wait' < Wait
  PROVE  Rank' < Rank
<1>1. /\ Change \in 0 .. 1 /\ Phase \in 0 .. 3 /\ Timeouts \in 0 .. 12 /\ Wait \in 0 .. 6
      /\ Change' \in 0 .. 1 /\ Phase' \in 0 .. 3 /\ Timeouts' \in 0 .. 12 /\ Wait' \in 0 .. 6
  BY RankIs, RankNext
<1>2. ASSUME NEW c \in 0 .. 1, NEW p \in 0 .. 3, NEW t \in 0 .. 12, NEW w \in 0 .. 6,
             NEW d \in 0 .. 1, NEW q \in 0 .. 3, NEW u \in 0 .. 12, NEW x \in 0 .. 6,
             \/ d < c
             \/ d = c /\ q < p
             \/ d = c /\ q = p /\ u < t
             \/ d = c /\ q = p /\ u = t /\ x < w
      PROVE  Weigh(d, q, u, x) < Weigh(c, p, t, w)
  BY <1>2 DEF Weigh
<1>3. Weigh(Change', Phase', Timeouts', Wait') < Weigh(Change, Phase, Timeouts, Wait)
  BY <1>1, <1>2
<1> QED
  BY <1>3 DEF Rank

(* A client that DHCP_Thread waits for is running. *)
Started ==
  DHCP_state = "WAIT_ADDRESS" /\ dpc # "start" => client \notin {"NONE", "OFF"}

LEMMA StartedStep ==
  ASSUME IInv, ~Excused => Started, [Next]_vars, ~Excused'
  PROVE  Started'
<1> USE DEF Started, Excused, clientVars, threadVars, clientSteps, threadOnly, history
<1>1. raced \in BOOLEAN /\ failed \in BOOLEAN /\ (~raced => Iteration)
  BY DEF IInv, TypeOK, Unraced
<1>2. CASE LinkLost(phy) \/ LinkFound(phy) \/ LinkFound("error")
  BY <1>1, <1>2 DEF LinkLost, LinkFound, Callback
<1>3. CASE ReadStart \/ SetWait \/ ReadWait \/ SetAssigned \/ CheckTries
  BY <1>1, <1>3 DEF ReadStart, SetWait, ReadWait, SetAssigned, CheckTries, Iteration
<1>4. ASSUME NEW ok \in BOOLEAN, CallStart(ok) PROVE Started'
  BY <1>4 DEF CallStart
<1>5. CASE SetTimeout \/ StopAfterTimeout \/ SetStaticAddress
  BY <1>1, <1>5 DEF SetTimeout, StopAfterTimeout, SetStaticAddress, Iteration
<1>6. CASE ReadLinkDown \/ StopAfterLinkDown \/ SetOff
  BY <1>1, <1>6 DEF ReadLinkDown, StopAfterLinkDown, SetOff, Iteration
<1>7. CASE RequestTimeout
  <2>1. client' # "NONE"
    BY <1>7, EnterClient DEF RequestTimeout, Bind
  <2>2. ~(client' = "OFF")
    BY <1>7 DEF RequestTimeout
  <2> QED
    BY <2>1, <2>2
<1>8. CASE Offer \/ Ack \/ Nak \/ Decline \/ Renew
  BY <1>1, <1>8, EnterClient DEF Offer, Ack, Nak, Decline, Renew, Bind
<1>9. CASE Expire
  BY <1>1, <1>9 DEF Expire
<1>10. CASE PhyChanges \/ StartServer \/ UNCHANGED vars
  BY <1>1, <1>10 DEF PhyChanges, StartServer, vars
<1> QED
  BY <1>2, <1>3, <1>4, <1>5, <1>6, <1>7, <1>8, <1>9, <1>10
     DEF Next, System, DHCP_Thread, Poll, Environment

LEMMA Waiting == Spec => [](~Excused => Started)
<1>1. Init => (~Excused => Started)
  BY DEF Init, Started
<1>2. IInv /\ (~Excused => Started) /\ [Next]_vars => (~Excused => Started)'
  BY StartedStep
<1> QED
  BY Invariance, <1>1, <1>2, PTL DEF Spec

LEMMA Nearer ==
  ASSUME IInv, IInv', ~Excused => Started, System, ~Excused, ~Settled, ~Excused'
  PROVE  Settled' \/ Rank' < Rank \/ (Rank' = Rank /\ LooksOn) \/ UNCHANGED vars
<1>1. /\ tries \in Nat /\ tries <= 6 /\ client \in ClientStates
      /\ TypeOK /\ TypeOK' /\ Unraced /\ Unraced' /\ ~raced /\ ~failed /\ ~raced' /\ ~failed'
  BY DEF IInv, Excused, TypeOK, TriesCap
<1>0. /\ Timeouts \in 0 .. 12 /\ Phase \in 0 .. 3 /\ Wait \in 0 .. 6
      /\ Timeouts' \in 0 .. 12 /\ Phase' \in 0 .. 3 /\ Wait' \in 0 .. 6
  BY <1>1, RankIs, RankNext
<1>2. CASE Poll(phy)
  <2>1. (Unnoticed /\ ~Unnoticed') \/ UNCHANGED vars
    BY <1>1, <1>2, ModesAssumption DEF Poll, LinkLost, LinkFound, Unnoticed, TypeOK, vars, phyVars, linkVars,
       threadVars, clientVars, history, IInv
  <2>2. Unnoticed /\ ~Unnoticed' => Change' < Change
    BY DEF Change
  <2> QED
    BY <1>1, <2>1, <2>2, Lower
<1>3. ASSUME UNCHANGED <<phy, up, linkchanged>> PROVE Change' = Change
  BY <1>3 DEF Change, Unnoticed
<1>4. CASE RequestTimeout
  <2>1. UNCHANGED <<phy, up, linkchanged, DHCP_state, dpc>>
    BY <1>4 DEF RequestTimeout, clientSteps, phyVars, linkVars, threadVars
  <2>2. Phase' = Phase /\ Change' = Change
    BY <1>3, <2>1 DEF Phase
  <2>3. \/ Timeouts' < Timeouts
        \/ client = "SELECTING" /\ tries = 6 /\ UNCHANGED <<client, tries, armed, addr>>
    <3>1. CASE client = "SELECTING"
      BY <1>1, <1>4, <3>1 DEF RequestTimeout, Enter, Inc, Timeouts, TriesCap
    <3>2. CASE client = "BACKING_OFF"
      BY <1>1, <1>4, <3>2 DEF RequestTimeout, Enter, Timeouts, TriesCap
    <3>3. CASE client = "REQUESTING"
      BY <1>1, <1>4, <3>3 DEF RequestTimeout, Enter, Inc, Timeouts, TriesCap, SELECT_TRIES
    <3>4. CASE client = "CHECKING"
      BY <1>1, <1>4, <3>4 DEF RequestTimeout, Enter, Inc, Bind, Timeouts, TriesCap
    <3>5. CASE client = "REBOOTING"
      BY <1>1, <1>4, <3>5 DEF RequestTimeout, Enter, Inc, Timeouts, TriesCap, REBOOT_TRIES
    <3> QED
      BY <1>4, <3>1, <3>2, <3>3, <3>4, <3>5 DEF RequestTimeout
  <2>4. ASSUME client = "SELECTING", UNCHANGED <<client, tries, armed, addr>>
        PROVE  UNCHANGED vars
    <3>1. failed' = failed /\ lost' = lost
      BY <1>1, <1>4, <2>4 DEF RequestTimeout, TypeOK
    <3>2. UNCHANGED <<phyVars, linkVars, threadVars, clientVars, addr, serverStarted, raced>>
      BY <1>4, <2>4 DEF RequestTimeout, clientSteps, clientVars
    <3> QED
      BY <3>1, <3>2 DEF vars, history
  <2> QED
    BY <1>1, <2>2, <2>3, <2>4, Lower
<1>5. ASSUME NEW ok \in BOOLEAN, CallStart(ok) PROVE Rank' < Rank
  <2>1. Change' = Change
    BY <1>3, <1>5 DEF CallStart, threadOnly, phyVars, linkVars
  <2>2. Phase' < Phase
    BY <1>1, <1>5 DEF CallStart, Phase, Unraced, Iteration
  <2> QED
    BY <1>1, <2>1, <2>2, Lower
<1>6. CASE ReadStart \/ SetWait \/ ReadLinkDown \/ StopAfterLinkDown
  <2>1. Change' = Change
    BY <1>3, <1>6 DEF ReadStart, SetWait, ReadLinkDown, StopAfterLinkDown, threadOnly,
       phyVars, linkVars
  <2>2. Phase' < Phase
    BY <1>1, <1>6 DEF ReadStart, SetWait, ReadLinkDown, StopAfterLinkDown, Phase, Unraced,
       Iteration
  <2> QED
    BY <1>1, <2>1, <2>2, Lower
<1>7. CASE SetOff
  <2>1. Change' = Change
    BY <1>3, <1>7 DEF SetOff, threadOnly, phyVars, linkVars
  <2>2. Phase' < Phase
    BY <1>1, <1>7 DEF SetOff, Phase, Unraced, Iteration
  <2> QED
    BY <1>1, <2>1, <2>2, Lower
<1>8. CASE ReadWait \/ CheckTries
  <2>1. /\ Change' = Change /\ Phase' = Phase /\ DHCP_state = "WAIT_ADDRESS"
        /\ UNCHANGED <<client, tries, DHCP_state>>
    BY <1>1, <1>3, <1>8 DEF ReadWait, CheckTries, threadOnly, phyVars, linkVars, clientVars,
       Phase, Unraced, Iteration
  <2>2. Timeouts' = Timeouts
    BY <2>1 DEF Timeouts
  <2>3. CASE Timeouts > 0
    <3>1. Wait' = Wait
      BY <2>1, <2>2, <2>3 DEF Wait
    <3> QED
      BY <1>8, <2>1, <2>2, <2>3, <3>1 DEF Rank, LooksOn
  <2>4. CASE ~(Timeouts > 0)
    <3>1. client \in Supplied \/ (client = "SELECTING" /\ tries = TriesCap)
      <4>1. client \notin {"NONE", "OFF"}
        BY <1>1, <1>8, <2>1 DEF Started, ReadWait, CheckTries
      <4>2. client \in {"SELECTING", "REQUESTING", "CHECKING", "REBOOTING", "BACKING_OFF"} \cup Supplied
        BY <1>1, <4>1 DEF ClientStates
      <4> QED
        BY <1>1, <2>4, <4>2 DEF Timeouts, TriesCap, REBOOT_TRIES
    <3>2. Wait' < Wait
      BY <1>8, <2>1, <2>2, <2>4, <3>1 DEF ReadWait, CheckTries, Wait, AddressSupplied,
         TriesExceeded, MAX_DHCP_TRIES, TriesCap, Supplied
    <3> QED
      BY <1>1, <2>1, <2>2, <3>2, Lower
  <2> QED
    BY <2>3, <2>4
<1>9. CASE SetAssigned \/ SetTimeout
  <2>1. /\ Change' = Change /\ UNCHANGED <<client, tries>>
        /\ DHCP_state = "WAIT_ADDRESS" /\ dpc \in {"assign", "setTimeout"}
        /\ DHCP_state' \in {"ADDRESS_ASSIGNED", "TIMEOUT"} /\ dpc' \in {"switch", "stop"}
    BY <1>1, <1>3, <1>9 DEF SetAssigned, SetTimeout, threadOnly, phyVars, linkVars, clientVars,
       Unraced, Iteration
  <2>2. Phase' = Phase /\ Timeouts' = Timeouts
    BY <2>1 DEF Phase, Timeouts
  <2>3. Wait' < Wait
    BY <2>1 DEF Wait
  <2> QED
    BY <1>1, <2>1, <2>2, <2>3, Lower
<1>10. CASE StopAfterTimeout \/ SetStaticAddress
  <2>1. /\ Change' = Change /\ DHCP_state = "TIMEOUT" /\ DHCP_state' = DHCP_state
        /\ (dpc = "stop" /\ dpc' = "static") \/ (dpc = "static" /\ dpc' = "switch")
        /\ dpc' = "switch" => UNCHANGED <<client, tries>>
        /\ client' = "OFF" \/ UNCHANGED <<client, tries>>
    BY <1>1, <1>3, <1>10 DEF StopAfterTimeout, SetStaticAddress, threadOnly, phyVars, linkVars,
       clientVars, Unraced, Iteration, dhcp_stop
  <2>2. Phase' = Phase /\ Wait' < Wait
    BY <2>1 DEF Phase, Wait
  <2>3. Timeouts' = Timeouts \/ Timeouts' = 0
    BY <2>1 DEF Timeouts
  <2>4. Timeouts' < Timeouts \/ Timeouts' = Timeouts
    BY <1>0, <2>3
  <2> QED
    BY <1>1, <2>1, <2>2, <2>4, Lower
<1>11. CASE StartServer
  <2>1. Change' = Change /\ Phase' = Phase /\ Timeouts' = Timeouts /\ Wait' = Wait
    BY <1>3, <1>11 DEF StartServer, phyVars, linkVars, threadVars, clientVars, Phase, Timeouts, Wait
  <2> QED
    BY <1>11, <2>1 DEF Rank, LooksOn
<1> QED
  BY <1>2, <1>4, <1>5, <1>6, <1>7, <1>8, <1>9, <1>10, <1>11 DEF System, DHCP_Thread

(* While nothing changes outside, a step taken before the end was reached ends
   there, comes nearer to it, or changes nothing that is waited for
   (ethernet_link_thread; lwip.c:91-163; dhcp_fine_tmr): the link is noticed
   first, the request's timer expires 12 times at most, and the bound of the
   whole is the bound of Rank. *)
THEOREM RestComesNearer ==
  Spec => [][ System /\ ~Excused /\ ~Excused' /\ ~Settled =>
                /\ Rank \in 0 .. 932
                /\ Settled' \/ Rank' < Rank \/ (Rank' = Rank /\ LooksOn) ]_vars
<1>1. ASSUME IInv, IInv', ~Excused => Started, [Next]_vars
      PROVE  [ System /\ ~Excused /\ ~Excused' /\ ~Settled =>
                /\ Rank \in 0 .. 932
                /\ Settled' \/ Rank' < Rank \/ (Rank' = Rank /\ LooksOn) ]_vars
  <2>1. TypeOK
    BY <1>1 DEF IInv
  <2>2. Rank \in 0 .. 932
    <3>1. Change \in 0 .. 1 /\ Phase \in 0 .. 3 /\ Timeouts \in 0 .. 12 /\ Wait \in 0 .. 6
      BY <2>1, RankIs
    <3> QED
      BY <3>1 DEF Rank, Weigh
  <2> QED
    BY <1>1, <2>2, Nearer
<1> QED
  BY <1>1, Invariance, Waiting, PTL DEF Spec

(* The end is kept: where the link thread has nothing left to do, no step of
   the threads and timers leaves Settled (lwip.c:114 to 157), not even one in
   which lwIP's client cannot be started again. *)
THEOREM RestIsKept ==
  Spec => [][ System /\ ~Excused /\ Settled /\ ~Unnoticed =>
                Settled' /\ ~Unnoticed' /\ ~raced' ]_vars
<1>1. ASSUME IInv, System, ~Excused, Settled, ~Unnoticed
      PROVE  Settled' /\ ~Unnoticed' /\ ~raced'
  <2>1. ~raced /\ Unraced /\ Iteration
    BY <1>1 DEF IInv, Excused, Unraced
  <2>2. ASSUME NEW ok \in BOOLEAN PROVE ~CallStart(ok)
    <3>1. dpc # "start"
      BY <1>1, <2>1 DEF Iteration, Settled
    <3> QED
      BY <3>1 DEF CallStart
  <2>3. CASE Poll(phy)
    <3>1. LinkFound(phy) /\ phy \notin Modes /\ ~linkchanged
      BY <1>1, <2>3 DEF Poll, LinkLost, LinkFound, Unnoticed
    <3>2. ~linkchanged'
      BY <1>1, <3>1 DEF LinkFound, IInv, TypeOK
    <3>3. UNCHANGED <<phy, up, DHCP_state, raced>>
      BY <3>1, <3>2 DEF LinkFound, phyVars
    <3> QED
      BY <1>1, <2>1, <3>1, <3>2, <3>3 DEF Settled, Unnoticed
  <2>4. ASSUME UNCHANGED <<phy, linkchanged, up, raced>>,
               DHCP_state' \in {"ADDRESS_ASSIGNED", "TIMEOUT", "OFF"}
        PROVE  Settled' /\ ~Unnoticed' /\ ~raced'
    BY <1>1, <2>1, <2>4 DEF Settled, Unnoticed
  <2>5. CASE DHCP_Thread
    BY <1>1, <2>1, <2>2, <2>4, <2>5 DEF DHCP_Thread, ReadStart, SetWait, ReadWait, SetAssigned,
       CheckTries, SetTimeout, StopAfterTimeout, SetStaticAddress, ReadLinkDown,
       StopAfterLinkDown, SetOff, Iteration, Settled, threadOnly, phyVars, linkVars
  <2>6. CASE RequestTimeout
    BY <1>1, <2>4, <2>6 DEF RequestTimeout, clientSteps, phyVars, linkVars, threadVars, Settled
  <2>7. CASE StartServer
    BY <1>1, <2>4, <2>7 DEF StartServer, phyVars, linkVars, threadVars, history, Settled
  <2> QED
    BY <1>1, <2>3, <2>5, <2>6, <2>7 DEF System
<1>2. IInv => [ System /\ ~Excused /\ Settled /\ ~Unnoticed =>
                Settled' /\ ~Unnoticed' /\ ~raced' ]_vars
  BY <1>1
<1> QED
  BY <1>2, Invariance, PTL DEF Spec
===============================================================================
