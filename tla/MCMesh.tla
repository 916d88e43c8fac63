------------------------------- MODULE MCMesh -------------------------------
(*****************************************************************************)
(* What nodes and phones hold for one another, each component on its own     *)
(* small instance. A behaviour is about one of them, among those Chosen;     *)
(* the others rest.                                                          *)
(*****************************************************************************)
EXTENDS StoreAndForward, TLC

CONSTANTS
  Chosen,          \* the components that the behaviours are about
  a, b, sos, text, forged, p1, p2, p3, c1, c2,
  OnAir,           \* nodes with a simulated radio
  MaxConnections,  \* their limits and the bounds on their runs, as in SimulatedLink
  MaxPending, MaxConns, MaxStops,
  Users,           \* nodes whose users write, and the rest as in Messaging
  Admins, MaxPeers, Links, Writes, Waiter, MaxLinks, MaxMsgs, MaxFaults,
  Devices,         \* around a phone with two roles, and the rest as in BleDualRole
  MaxOut, MaxIn, MaxSessions, MaxEntries,
  Sizes,           \* packets in fragments, and the rest as in Fragments
  IdSpace, MaxReassemblies, MaxInFlight, MaxLag, MaxMessages, MaxFailures,
  Provider,        \* of a content, and the rest as in ContentFetch
  Call, Total, Estimates, MaxFetches, MaxCandidates, MaxMishaps

VARIABLES
  which,   \* the component this behaviour is about
  f_call, f_entry, f_assembly, f_stored, f_has, f_toP, f_fromP, f_round, f_faults,
  l_started, l_conns, l_byId, l_byPeer, l_promise, l_greeted, l_air, l_told, l_stops,
  g_msgs, g_entries, g_out, g_failed, g_crowded,
  c_on, c_present, c_seen, c_held, c_sends, c_now,
  d_dsession, d_dactive, d_turningOn, d_turningOff, d_radio, d_listeners, d_entries,
  d_pend, d_links, d_gone, d_made,
  m_key, m_dir, m_keyOf, m_verified, m_wait, m_wire, m_lastSent, m_lastAccepted,
  m_members, m_acted, m_unread, m_refused, m_now, m_links, m_msgs, m_restarts,
  m_forgets

\* sos: EMERGENCY; text: in range, not urgent; forged: out of range, clamped.
HeldPriority == [p \in Packet |-> IF p = sos THEN 0 ELSE IF p = text THEN 3 ELSE 9]

\* Two emergencies and a message for a peer, and a broadcast.
Carry     == {"e1", "e2", "m1", "m2"}
CarryDest == [p \in Carry |-> CASE p = "e2" -> b [] p = "m2" -> NoPeer [] OTHER -> a]
CarryRank == [p \in Carry |-> IF p \in {"e1", "e2"} THEN 0 ELSE 2]

\* b takes commands from a.
MsgAdmins == [n \in {"a", "b", "c"} |-> IF n = "b" THEN {"a"} ELSE {}]
MsgLinks  == {<<"a", "b">>, <<"b", "c">>}
MsgWrites == {<<"a", "b">>, <<"c", "b">>}

\* Providers (and nodes on the air), and calls, are interchangeable.
Symmetry == Permutations({p1, p2, p3}) \cup Permutations({c1, c2})

Fetch == INSTANCE ContentFetch WITH
    MaxFaults <- MaxMishaps, call <- f_call, entry <- f_entry, assembly <- f_assembly,
    stored <- f_stored, has <- f_has, toP <- f_toP, fromP <- f_fromP, round <- f_round,
    faults <- f_faults

Link == INSTANCE SimulatedLink WITH
    Nodes <- OnAir, started <- l_started, conns <- l_conns, byId <- l_byId,
    byPeer <- l_byPeer, promise <- l_promise, greeted <- l_greeted, air <- l_air,
    told <- l_told, stops <- l_stops

Frag == INSTANCE Fragments WITH
    msgs <- g_msgs, entries <- g_entries, out <- g_out, failed <- g_failed,
    crowded <- g_crowded

Courier == INSTANCE BleCourier WITH
    Packets <- Carry, Peers <- {a, b}, Dest <- CarryDest, PriorityRank <- CarryRank,
    MaxQueue <- 2, MaxSeen <- 2, Ttl <- 1, MaxTime <- 1, MaxSends <- 2,
    None <- NoPeer, on <- c_on, present <- c_present, seen <- c_seen,
    held <- c_held, sends <- c_sends, now <- c_now

Dual == INSTANCE BleDualRole WITH
    dsession <- d_dsession, dactive <- d_dactive, turningOn <- d_turningOn,
    turningOff <- d_turningOff, radio <- d_radio, listeners <- d_listeners,
    entries <- d_entries, pend <- d_pend, links <- d_links, gone <- d_gone,
    made <- d_made

Msg == INSTANCE Messaging WITH
    Nodes <- Users, key <- m_key,
    dir <- m_dir, keyOf <- m_keyOf, verified <- m_verified, wait <- m_wait,
    wire <- m_wire, lastSent <- m_lastSent, lastAccepted <- m_lastAccepted,
    members <- m_members, acted <- m_acted, unread <- m_unread,
    refused <- m_refused, now <- m_now, links <- m_links, msgs <- m_msgs,
    restarts <- m_restarts, forgets <- m_forgets

ASSUME FetchConstants == Fetch!FetchAssumption
ASSUME FragConstants == Frag!FragmentsAssumption
ASSUME MsgConstants == Msg!MessagingAssumption

holdVars == <<connected, trusted, canRelay, now, queue, expiresAt, exceptPeer, flight,
    outcome, sentTo, firstDeadline>>
fetchVars == <<f_call, f_entry, f_assembly, f_stored, f_has, f_toP, f_fromP, f_round,
    f_faults>>
linkVars == <<l_started, l_conns, l_byId, l_byPeer, l_promise, l_greeted, l_air, l_told,
    l_stops>>
fragVars == <<g_msgs, g_entries, g_out, g_failed, g_crowded>>
courierVars == <<c_on, c_present, c_seen, c_held, c_sends, c_now>>
dualVars == <<d_dsession, d_dactive, d_turningOn, d_turningOff, d_radio, d_listeners,
    d_entries, d_pend, d_links, d_gone, d_made>>
msgVars == <<m_key, m_dir, m_keyOf, m_verified, m_wait, m_wire, m_lastSent,
    m_lastAccepted, m_members, m_acted, m_unread, m_refused, m_now,
    m_links, m_msgs, m_restarts, m_forgets>>

mcVars == <<which, holdVars, fetchVars, linkVars, fragVars, courierVars, dualVars, msgVars>>

\* What a component that this behaviour is not about holds.
fetchRest ==
  /\ f_call = 0 /\ f_entry = 0 /\ f_assembly = 0 /\ f_stored = 0 /\ f_has = 0
  /\ f_toP = 0 /\ f_fromP = 0 /\ f_round = 0 /\ f_faults = 0
linkRest ==
  /\ l_started = 0 /\ l_conns = 0 /\ l_byId = 0 /\ l_byPeer = 0 /\ l_promise = 0
  /\ l_greeted = 0 /\ l_air = 0 /\ l_told = 0 /\ l_stops = 0
fragRest ==
  /\ g_msgs = 0 /\ g_entries = 0 /\ g_out = 0 /\ g_failed = 0 /\ g_crowded = 0
courierRest ==
  /\ c_on = 0 /\ c_present = 0 /\ c_seen = 0 /\ c_held = 0 /\ c_sends = 0
  /\ c_now = 0
dualRest ==
  /\ d_dsession = 0 /\ d_dactive = 0 /\ d_turningOn = 0 /\ d_turningOff = 0
  /\ d_radio = 0 /\ d_listeners = 0 /\ d_entries = 0 /\ d_pend = 0 /\ d_links = 0
  /\ d_gone = 0 /\ d_made = 0
msgRest ==
  /\ m_key = 0 /\ m_dir = 0 /\ m_keyOf = 0 /\ m_verified = 0 /\ m_wait = 0
  /\ m_wire = 0 /\ m_lastSent = 0 /\ m_lastAccepted = 0 /\ m_members = 0
  /\ m_acted = 0 /\ m_unread = 0 /\ m_refused = 0 /\ m_now = 0 /\ m_links = 0
  /\ m_msgs = 0 /\ m_restarts = 0 /\ m_forgets = 0

MCInit ==
  /\ which \in Chosen
  /\ Init
  /\ IF which = "fetch" THEN Fetch!Init ELSE fetchRest
  /\ IF which = "link" THEN Link!Init ELSE linkRest
  /\ IF which = "frag" THEN Frag!Init ELSE fragRest
  /\ IF which = "courier" THEN Courier!Init ELSE courierRest
  /\ IF which = "dual" THEN Dual!Init ELSE dualRest
  /\ IF which = "msg" THEN Msg!Init ELSE msgRest

MCNext ==
  \/ which = "hold" /\ Next /\ UNCHANGED <<which, fetchVars, linkVars, fragVars, courierVars, dualVars, msgVars>>
  \/ which = "fetch" /\ Fetch!Next /\ UNCHANGED <<which, holdVars, linkVars, fragVars, courierVars, dualVars, msgVars>>
  \/ which = "link" /\ Link!Next /\ UNCHANGED <<which, holdVars, fetchVars, fragVars, courierVars, dualVars, msgVars>>
  \/ which = "frag" /\ Frag!Next /\ UNCHANGED <<which, holdVars, fetchVars, linkVars, courierVars, dualVars, msgVars>>
  \/ which = "courier" /\ Courier!Next /\ UNCHANGED <<which, holdVars, fetchVars, linkVars, fragVars, dualVars, msgVars>>
  \/ which = "dual" /\ Dual!Next /\ UNCHANGED <<which, holdVars, fetchVars, linkVars, fragVars, courierVars, msgVars>>
  \/ which = "msg" /\ Msg!Next /\ UNCHANGED <<which, holdVars, fetchVars, linkVars, fragVars, courierVars, dualVars>>

MCSpec == MCInit /\ [][MCNext]_mcVars

\* The specification in which neighbours come by at open gates, for held packets.
MCFairSpec == MCSpec /\ Fairness

\* A content in transfer: for its first request no part is forgotten and every active
\* fetch has somebody working on it, the number of fetches is bounded, honest
\* providers get no call rejected, and without faults no call is left waiting.
FetchForgetsNothing ==
  which = "fetch" =>
    /\ Fetch!TypeOK /\ Fetch!FetchesBounded /\ Fetch!FirstRoundForgetsNothing
    /\ Fetch!FetchBacked /\ Fetch!NeverRejected /\ Fetch!FaultFreeCompletes

\* With nothing on the air two simulated nodes agree on their connection, and the
\* handlers were told what send() can use.
LinkEndsAgree == which = "link" => Link!LinkEndsAgree /\ Link!LinkToldIsTrue

\* Every packet written whole comes out whole, or is lost to a crowd or to what a crowd
\* or a failed write left behind, however the one-byte id wraps around.
FaultFreeReassembled == which = "frag" => Frag!FaultFreeReassembled /\ Frag!LostToUnfinished

\* The phone lets go of an emergency only to its destination or to other emergencies,
\* and puts on the air only what is within its time.
CourierKeepsEmergency ==
  [][which = "courier" => Courier!EmergencyKept /\ Courier!FlushedFresh]_mcVars

\* Sessions of the dual-role relay do not reach into one another: the radio stays on
\* for the active one, and an identified peer keeps its entry.
DualSessionsApart ==
  /\ [](which = "dual" => Dual!DualRadioOn)
  /\ [][which = "dual" => Dual!NamedKept]_mcVars

\* A first message is decrypted and its sender verified, whoever met whom first, and a
\* command is acted on once.
FirstContactWorks == which = "msg" => Msg!FirstContactWorks /\ Msg!CommandOnce
=============================================================================
