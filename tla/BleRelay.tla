------------------------------ MODULE BleRelay ------------------------------
(***************************************************************************)
(* The Bluetooth relay of the phone (ble-client.js): relaySessionId is the *)
(* generation every asynchronous step is checked against, connections the  *)
(* map of reserved and open slots, and the plug-in owns the native links   *)
(* and the one scan.  The toggle and an SOS activate, the toggle           *)
(* deactivates, and every await may be overtaken by either.                *)
(***************************************************************************)
EXTENDS Naturals, Sequences, FiniteSets

CONSTANTS
  Devices,
  MaxConnections,   \* MAX_CONNECTIONS
  MaxSessions,      \* bound: activations and deactivations
  MaxAttempts,      \* bound: calls of connectToPeer()
  None

VARIABLES
  session,    \* relaySessionId
  active,     \* relayActive
  slots,      \* connections: per device, the attempt that holds its entry
  attempts,   \* calls of connectToPeer(): [dev, sess, stage]
  native,     \* per device, the attempt whose connect() opened the link
  inits,      \* activations awaiting initialize()
  rescans,    \* issueScan() calls awaiting stopLEScan()
  scan,       \* session of the scan registered with the plug-in
  deact       \* deactivateRelay() under way: [sess, stage, todo], or None

vars == <<session, active, slots, attempts, native, inits, rescans, scan, deact>>

Attempts == DOMAIN attempts
NoSlots  == [d \in Devices |-> None]

Init ==
  /\ session = 0 /\ active = FALSE /\ slots = NoSlots /\ native = NoSlots
  /\ attempts = <<>> /\ inits = {} /\ rescans = {} /\ scan = None /\ deact = None

-----------------------------------------------------------------------------
(* Activation and scanning. *)

\* activateRelay() up to its first await; the maps of the last session go.
Activate ==
  /\ ~active /\ session < MaxSessions
  /\ session' = session + 1 /\ active' = TRUE /\ slots' = NoSlots
  /\ inits' = inits \cup {session + 1}
  /\ UNCHANGED <<attempts, native, rescans, scan, deact>>

\* issueScan(): stopLEScan() is issued at once, whoever registered the scan.
IssueScan(s) == scan' = None /\ rescans' = rescans \cup {s}

InitEnds(s, ok) ==
  /\ s \in inits /\ inits' = inits \ {s}
  /\ active' = (active /\ (ok \/ s # session))
  /\ IF ok /\ s = session THEN IssueScan(s) ELSE UNCHANGED <<scan, rescans>>
  /\ UNCHANGED <<session, slots, attempts, native, deact>>

\* As if an overtaken call still registered its scan.
ScanRequestedStale(s, ok) ==
  /\ s \in rescans /\ rescans' = rescans \ {s}
  /\ scan' = IF ok THEN s ELSE scan
  /\ UNCHANGED <<session, active, slots, attempts, native, inits, deact>>

ScanRequested(s, ok) ==
  /\ s \in rescans /\ rescans' = rescans \ {s}
  /\ scan' = IF ok /\ s = session THEN s ELSE scan
  /\ UNCHANGED <<session, active, slots, attempts, native, inits, deact>>

\* The interval of SCAN_REFRESH_INTERVAL_MS.
Refresh ==
  /\ active /\ session \notin inits \cup rescans
  /\ IssueScan(session)
  /\ UNCHANGED <<session, active, slots, attempts, native, inits, deact>>

-----------------------------------------------------------------------------
(* Connections. *)

InUse == {d \in Devices : slots[d] # None}

\* handleScanResult() and reserveConnectionSlot().
Found(d) ==
  /\ scan # None /\ active /\ scan = session
  /\ slots[d] = None /\ Cardinality(InUse) < MaxConnections
  /\ Len(attempts) < MaxAttempts
  /\ attempts' = Append(attempts, [dev |-> d, sess |-> session, stage |-> "connect"])
  /\ slots' = [slots EXCEPT ![d] = Len(attempts) + 1]
  /\ UNCHANGED <<session, active, native, inits, rescans, scan, deact>>

Stage(a, s) == attempts' = [attempts EXCEPT ![a].stage = s]

\* The native link goes down, and its callback is handlePeerDisconnected() of
\* the attempt that opened it.
LinkDown(d) ==
  /\ native' = [native EXCEPT ![d] = None]
  /\ slots' = IF native[d] # None /\ slots[d] = native[d] THEN [slots EXCEPT ![d] = None] ELSE slots

\* cleanupConnection() up to its first await: only the attempt that still holds the
\* entry removes it and goes on to take down the native link.
CleanupBegins(a) ==
  LET d == attempts[a].dev IN
  IF slots[d] = a
  THEN slots' = [slots EXCEPT ![d] = None] /\ Stage(a, "cleanup")
  ELSE slots' = slots /\ Stage(a, "done")

\* stopNotifications() is over; disconnect() takes the device's link down, whoever
\* opened it meanwhile.
CleanupEnds(a) ==
  /\ attempts[a].stage = "cleanup" /\ Stage(a, "done") /\ LinkDown(attempts[a].dev)
  /\ UNCHANGED <<session, active, inits, rescans, scan, deact>>

\* An await of connectToPeer() ends; then the session is checked.
StepEnds(a, from, to, link, ok) ==
  /\ attempts[a].stage = from
  /\ native' = [native EXCEPT ![attempts[a].dev] = link]
  /\ IF ok /\ attempts[a].sess = session
     THEN Stage(a, to) /\ UNCHANGED slots
     ELSE CleanupBegins(a)
  /\ UNCHANGED <<session, active, inits, rescans, scan, deact>>

Connected(a, ok) ==
  StepEnds(a, "connect", "subscribe", IF ok THEN a ELSE native[attempts[a].dev], ok)

\* Notifications can only be started over a link that is up.
Subscribed(a, ok) ==
  LET link == native[attempts[a].dev] IN
  /\ ok => link # None
  /\ StepEnds(a, "subscribe", "hello", link, ok)

\* handleNotification() gives a HELLO to the entry its device has now.  The
\* attempt resumes at once, and is over if its session is.
HelloArrives(d) ==
  LET a == slots[d] IN
  /\ native[d] # None /\ a # None
  /\ attempts[a].stage = "hello"
  /\ IF attempts[a].sess = session
     THEN Stage(a, "identified") /\ UNCHANGED slots
     ELSE CleanupBegins(a)
  /\ UNCHANGED <<session, active, native, inits, rescans, scan, deact>>

\* As if the timer only ended the wait.
HelloFailsKeeping(a) ==
  /\ attempts[a].stage = "hello" /\ Stage(a, "done")
  /\ UNCHANGED <<session, active, slots, native, inits, rescans, scan, deact>>

\* HELLO_TIMEOUT_MS, or the phone's own HELLO cannot be written.
HelloFails(a) ==
  /\ attempts[a].stage = "hello"
  /\ CleanupBegins(a)
  /\ UNCHANGED <<session, active, native, inits, rescans, scan, deact>>

\* A link goes down by itself.
PeerLeaves(d) ==
  /\ native[d] # None /\ LinkDown(d)
  /\ UNCHANGED <<session, active, attempts, inits, rescans, scan, deact>>

-----------------------------------------------------------------------------
(* Deactivation. *)

\* deactivateRelay() up to its first await; the toggle is disabled meanwhile.
Deactivate ==
  /\ active /\ deact = None /\ session < MaxSessions
  /\ session' = session + 1 /\ active' = FALSE /\ scan' = None
  /\ deact' = [sess |-> session + 1, stage |-> "scan", todo |-> {}]
  /\ UNCHANGED <<slots, attempts, native, inits, rescans>>

\* The scan has stopped: the devices to disconnect are read from connections.
DeactivateLists ==
  /\ deact # None /\ deact.stage = "scan"
  /\ deact' = [deact EXCEPT !.stage = "links", !.todo = InUse]
  /\ UNCHANGED <<session, active, slots, attempts, native, inits, rescans, scan>>

DeactivateDisconnects(d) ==
  /\ deact # None /\ d \in deact.todo
  /\ deact' = [deact EXCEPT !.todo = @ \ {d}]
  /\ LinkDown(d)
  /\ UNCHANGED <<session, active, attempts, inits, rescans, scan>>

\* As if the map were emptied whichever session it belongs to now.
DeactivateEndsBlind ==
  /\ deact # None /\ deact.stage = "links" /\ deact.todo = {}
  /\ deact' = None /\ slots' = NoSlots
  /\ UNCHANGED <<session, active, attempts, native, inits, rescans, scan>>

DeactivateEnds ==
  /\ deact # None /\ deact.stage = "links" /\ deact.todo = {}
  /\ deact' = None
  /\ slots' = IF deact.sess = session THEN NoSlots ELSE slots
  /\ UNCHANGED <<session, active, attempts, native, inits, rescans, scan>>

-----------------------------------------------------------------------------
Step(a) ==
  \/ \E ok \in BOOLEAN : Connected(a, ok) \/ Subscribed(a, ok)
  \/ HelloFails(a) \/ CleanupEnds(a)

Next ==
  \/ Activate \/ Deactivate \/ Refresh
  \/ \E s \in inits, ok \in BOOLEAN : InitEnds(s, ok)
  \/ \E s \in rescans, ok \in BOOLEAN : ScanRequested(s, ok)
  \/ \E d \in Devices : Found(d) \/ HelloArrives(d) \/ PeerLeaves(d) \/ DeactivateDisconnects(d)
  \/ \E a \in Attempts : Step(a)
  \/ DeactivateLists \/ DeactivateEnds

\* Every call of the plug-in settles and every HELLO is awaited with a timer.
Fairness == \A a \in 1..MaxAttempts : WF_vars(a \in Attempts /\ Step(a))

Spec == Init /\ [][Next]_vars /\ Fairness

-----------------------------------------------------------------------------
\* The scan the plug-in runs, if any, reports to the session that is active: an
\* issueScan() that was overtaken never leaves the phone without discovery.
ScanIsCurrent == scan # None => scan = session /\ active

\* A peer identified in this session whose link is up has its entry: neither a
\* late failure of an earlier attempt for the same device nor the tail of an
\* overtaken deactivation takes it away.
IdentifiedKeepsSlot ==
  \A a \in Attempts :
     attempts[a].stage = "identified" /\ attempts[a].sess = session
       /\ active /\ native[attempts[a].dev] = a
     => slots[attempts[a].dev] = a

\* An entry is never held for ever by an attempt that gets nowhere: it is
\* identified or the entry is freed.
SlotSettles ==
  \A d \in Devices :
     (slots[d] # None /\ attempts[slots[d]].stage # "identified")
       ~> (slots[d] = None \/ attempts[slots[d]].stage = "identified")
=============================================================================
