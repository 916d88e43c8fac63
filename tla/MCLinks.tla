------------------------------- MODULE MCLinks ------------------------------
(*****************************************************************************)
(* What moves packets between a node, its neighbours and the outside, and    *)
(* the launch of a node, each component on its own small instance. A         *)
(* behaviour is about one of them, among those Chosen; the others rest in    *)
(* their initial states. Fairness is the send path's own in the              *)
(* specification and a premise of the other components' properties, so       *)
(* that each is checked under its own.                                       *)
(*****************************************************************************)
EXTENDS TcpSend, TLC

CONSTANTS Chosen, s1, s2, s3, s4, s5, na, nb, nc, nd, m1, m2

VARIABLES
  which,   \* the component this behaviour is about
  c_end, c_hello, c_promise, c_sockets, c_stopped, c_broken, c_peers, c_count,
  c_registered, c_online,
  r_link, r_due, r_up, r_chan, r_routes, r_events, r_renewed,
  m_role, m_roleStarted, m_roleSession, m_attempt, m_cycle, m_timer, m_waiting,
  m_starts,
  e_queue, e_expired, e_batch, e_inFlight, e_posting, e_reported, e_answer, e_late,
  e_handlers, e_remembered, e_sends, e_doubt,
  b_session, b_active, b_slots, b_attempts, b_native, b_inits, b_rescans, b_scan,
  b_deact,
  s_up, s_peer, s_connecting, s_helloSent, s_todo, s_cur, s_outcome, s_turns,
  s_asked, s_answers, s_mode, s_fifo, s_rxFlag, s_txFlag, s_frames, s_faults,
  x_up, x_peer, x_connecting, x_helloSent, x_todo, x_cur, x_outcome, x_turns,
  x_asked, x_answers, x_mode, x_fifo, x_rxFlag, x_txFlag, x_frames, x_faults,
  x_boot, x_busy, x_loaded, x_aired,
  l_proc, l_config, l_priv, l_pub, l_fresh, l_overlapping, l_launches, l_kills,
  l_failures,
  g_edition, g_syncs, g_published, g_emergencies, g_announced, g_headlines,
  g_digests, g_digest, g_failures, g_calls, g_window, g_perPeer

\* Two BULK sends, two more urgent ones, and one with a made-up priority.
Burst == s1 :> 2 @@ s2 :> 2 @@ s3 :> 0 @@ s4 :> 1 @@ s5 :> -1

\* Both nodes dial each other at the same time.
BothDial == {[from |-> na, to |-> nb, k |-> 1], [from |-> nb, to |-> na, k |-> 1]}

\* A converged triangle, and a fourth node that may join and leave behind the third.
BothWays(S) == S \cup {<<e[2], e[1]>> : e \in S}
Triangle == BothWays({<<na, nb>>, <<nb, nc>>, <<na, nc>>})
Pendant == Triangle \cup BothWays({<<nc, nd>>})
TriangleRoutes ==
  [n \in {na, nb, nc, nd} |-> [m \in {na, nb, nc, nd} |->
     IF <<n, m>> \in Triangle THEN [nextHop |-> m, cost |-> 1] ELSE None]]

\* Two messages, the larger one the more urgent, and a queue they just fit or do not.
MsgSize == m1 :> 2 @@ m2 :> 1
MsgRank == m1 :> 1 @@ m2 :> 2

\* A bulk send of two fragments and an urgent one of one.
LoraSend  == {"bulk", "sos"}
LoraSize  == [s \in LoraSend |-> IF s = "bulk" THEN 2 ELSE 1]
LoraLevel == [s \in LoraSend |-> IF s = "bulk" THEN 5 ELSE 0]

\* Command lines: a portable install, an identity directory, bad and missing values.
F(t) == [dash |-> TRUE, text |-> t]
V(t) == [dash |-> FALSE, text |-> t]
CommandLines ==
  {<<F("portable"), F("map-file"), V("x"), F("allow-remote-reboot"), F("telemetry"), V("x")>>,
   <<F("identity-dir"), V("x"), F("web-port"), V("x"), F("network-password"), V("x")>>,
   <<F("portable"), F("battery-percent"), V("bad")>>,
   <<F("network-password"), V("y"), F("network-password"), F("portable")>>,
   <<F("lora-serial-port"), V("x"), F("trust-admin"), V("")>>}

\* Three editions of a feed; a bulletin comes back changed in the third.
News(i, v, e) == [id |-> i, version |-> v, emergency |-> e]
NewsEditions == <<
  <<News("flood", 1, TRUE), News("fair", 1, FALSE)>>,
  <<News("fair", 1, FALSE), News("market", 1, FALSE), News("flood", 1, TRUE), News("storm", 1, TRUE)>>,
  <<News("flood", 2, TRUE), News("market", 1, FALSE), News("storm", 1, TRUE)>> >>

Conns == INSTANCE TcpConnections WITH
    Node <- {na, nb}, Conn <- BothDial, MaxFailures <- 1, MaxStops <- 1,
    Relays <- {nb}, end <- c_end, hello <- c_hello, promise <- c_promise,
    sockets <- c_sockets, stopped <- c_stopped, broken <- c_broken,
    peers <- c_peers, count <- c_count, registered <- c_registered,
    online <- c_online

Dv == INSTANCE DistanceVector WITH
    Node <- {na, nb, nc, nd}, Edge <- Pendant, MaxCost <- 6, MaxEvents <- 2,
    InitLinks <- Triangle, InitRoutes <- TriangleRoutes, NoRoute <- None,
    link <- r_link, due <- r_due, up <- r_up, chan <- r_chan, routes <- r_routes,
    events <- r_events, renewed <- r_renewed

Role == INSTANCE BleRoleManager WITH
    MaxAttempts <- 3, Window <- 2, Backoffs <- {3, 4}, MaxCycle <- 9,
    MaxStarts <- 4, role <- m_role, roleStarted <- m_roleStarted,
    roleSession <- m_roleSession, attempt <- m_attempt, cycle <- m_cycle,
    timer <- m_timer, waiting <- m_waiting, starts <- m_starts

Ext == INSTANCE ExternalDelivery WITH
    Msgs <- {m1, m2}, Size <- MsgSize, Rank <- MsgRank, MaxEntries <- 2,
    MaxBytes <- 2, MaxDoubt <- 1, queue <- e_queue, expired <- e_expired,
    batch <- e_batch, inFlight <- e_inFlight, posting <- e_posting,
    reported <- e_reported, answer <- e_answer, late <- e_late,
    handlers <- e_handlers, remembered <- e_remembered, sends <- e_sends,
    doubt <- e_doubt

Relay == INSTANCE BleRelay WITH
    Devices <- {m1, m2}, MaxConnections <- 1, MaxSessions <- 3, MaxAttempts <- 2,
    session <- b_session, active <- b_active, slots <- b_slots,
    attempts <- b_attempts, native <- b_native, inits <- b_inits,
    rescans <- b_rescans, scan <- b_scan, deact <- b_deact

Serial == INSTANCE LoraSerial WITH
    Sends <- LoraSend, Size <- LoraSize, Level <- LoraLevel, MaxFrames <- 2,
    MaxFaults <- 1, up <- s_up, peer <- s_peer, connecting <- s_connecting,
    helloSent <- s_helloSent, todo <- s_todo, cur <- s_cur, outcome <- s_outcome,
    turns <- s_turns, asked <- s_asked, answers <- s_answers, mode <- s_mode,
    fifo <- s_fifo, rxFlag <- s_rxFlag, txFlag <- s_txFlag, frames <- s_frames,
    faults <- s_faults

Chip == INSTANCE LoraChip WITH
    Sends <- LoraSend, Size <- LoraSize, Level <- LoraLevel, MaxFrames <- 1,
    MaxFaults <- 1, MaxBusy <- 1, up <- x_up, peer <- x_peer,
    connecting <- x_connecting, helloSent <- x_helloSent, todo <- x_todo,
    cur <- x_cur, outcome <- x_outcome, turns <- x_turns, asked <- x_asked,
    answers <- x_answers, mode <- x_mode, fifo <- x_fifo, rxFlag <- x_rxFlag,
    txFlag <- x_txFlag, frames <- x_frames, faults <- x_faults, boot <- x_boot,
    busy <- x_busy, loaded <- x_loaded, aired <- x_aired

Install == INSTANCE Launch WITH
    Procs <- {1, 2}, Argvs <- CommandLines, Overlaps <- {FALSE, TRUE},
    MaxLaunches <- 2, MaxKills <- 1, MaxFailures <- 1, proc <- l_proc,
    config <- l_config, priv <- l_priv, pub <- l_pub, fresh <- l_fresh,
    overlapping <- l_overlapping, launches <- l_launches, kills <- l_kills,
    failures <- l_failures

Gate == INSTANCE LocalGateways WITH
    Editions <- NewsEditions, MaxTracked <- 2, MaxTrackedEmergency <- 2,
    MaxPerSync <- 1, MaxInFlight <- 2, MaxFailures <- 1, Peer <- {"p", "q"},
    MaxPerPeer <- 1, MaxPerWindow <- 2, MaxCalls <- 3, edition <- g_edition,
    syncs <- g_syncs, published <- g_published, emergencies <- g_emergencies,
    announced <- g_announced, headlines <- g_headlines, digests <- g_digests,
    digest <- g_digest, failures <- g_failures, calls <- g_calls,
    window <- g_window, perPeer <- g_perPeer

ASSUME ConnConstants == Conns!ConnAssumption
ASSUME DvConstants == Dv!ConstantsAssumption
ASSUME ExtConstants == Ext!ExternalDeliveryAssumption

sendVars == <<result, buckets, draining, writing, outcome, alive>>
connVars == <<c_end, c_hello, c_promise, c_sockets, c_stopped, c_broken, c_peers,
    c_count, c_registered, c_online>>
routeVars == <<r_link, r_due, r_up, r_chan, r_routes, r_events, r_renewed>>
roleVars == <<m_role, m_roleStarted, m_roleSession, m_attempt, m_cycle, m_timer,
    m_waiting, m_starts>>
extVars == <<e_queue, e_expired, e_batch, e_inFlight, e_posting, e_reported, e_answer,
    e_late, e_handlers, e_remembered, e_sends, e_doubt>>
relayVars == <<b_session, b_active, b_slots, b_attempts, b_native, b_inits, b_rescans,
    b_scan, b_deact>>
serialVars == <<s_up, s_peer, s_connecting, s_helloSent, s_todo, s_cur, s_outcome,
    s_turns, s_asked, s_answers, s_mode, s_fifo, s_rxFlag, s_txFlag,
    s_frames, s_faults>>
chipVars == <<x_up, x_peer, x_connecting, x_helloSent, x_todo, x_cur, x_outcome,
    x_turns, x_asked, x_answers, x_mode, x_fifo, x_rxFlag, x_txFlag,
    x_frames, x_faults, x_boot, x_busy, x_loaded, x_aired>>
launchVars == <<l_proc, l_config, l_priv, l_pub, l_fresh, l_overlapping, l_launches,
    l_kills, l_failures>>
gateVars == <<g_edition, g_syncs, g_published, g_emergencies, g_announced, g_headlines,
    g_digests, g_digest, g_failures, g_calls, g_window, g_perPeer>>

mcVars == <<which, sendVars, connVars, routeVars, roleVars, extVars, relayVars, serialVars, chipVars, launchVars, gateVars>>

MCInit ==
  /\ which \in Chosen
  /\ Init
  /\ Conns!Init
  /\ Dv!Init
  /\ Role!Init
  /\ Ext!Init
  /\ Relay!Init
  /\ Serial!Init
  /\ Chip!ChipInit
  /\ Install!Init /\ (which # "launch" => l_config.st = "absent" /\ ~l_overlapping)
  /\ Gate!Init

MCNext ==
  \/ which = "send" /\ Next /\ UNCHANGED <<which, connVars, routeVars, roleVars, extVars, relayVars, serialVars, chipVars, launchVars, gateVars>>
  \/ which = "conn" /\ Conns!Next /\ UNCHANGED <<which, sendVars, routeVars, roleVars, extVars, relayVars, serialVars, chipVars, launchVars, gateVars>>
  \/ which = "route" /\ Dv!Next /\ UNCHANGED <<which, sendVars, connVars, roleVars, extVars, relayVars, serialVars, chipVars, launchVars, gateVars>>
  \/ which = "role" /\ Role!Next /\ UNCHANGED <<which, sendVars, connVars, routeVars, extVars, relayVars, serialVars, chipVars, launchVars, gateVars>>
  \/ which = "ext" /\ Ext!Next /\ UNCHANGED <<which, sendVars, connVars, routeVars, roleVars, relayVars, serialVars, chipVars, launchVars, gateVars>>
  \/ which = "relay" /\ Relay!Next /\ UNCHANGED <<which, sendVars, connVars, routeVars, roleVars, extVars, serialVars, chipVars, launchVars, gateVars>>
  \/ which = "serial" /\ Serial!Next /\ UNCHANGED <<which, sendVars, connVars, routeVars, roleVars, extVars, relayVars, chipVars, launchVars, gateVars>>
  \/ which = "chip" /\ Chip!ChipNext /\ UNCHANGED <<which, sendVars, connVars, routeVars, roleVars, extVars, relayVars, serialVars, launchVars, gateVars>>
  \/ which = "launch" /\ Install!Next /\ UNCHANGED <<which, sendVars, connVars, routeVars, roleVars, extVars, relayVars, serialVars, chipVars, gateVars>>
  \/ which = "news" /\ Gate!NewsNext /\ UNCHANGED <<which, sendVars, connVars, routeVars, roleVars, extVars, relayVars, serialVars, chipVars, launchVars>>
  \/ which = "calls" /\ Gate!CallsNext /\ UNCHANGED <<which, sendVars, connVars, routeVars, roleVars, extVars, relayVars, serialVars, chipVars, launchVars>>

MCFairness == Fairness

MCSpec == MCInit /\ [][MCNext]_mcVars /\ MCFairness

\* Connections never leave the two ends apart: no socket is left that no map
\* owns, the node's peers are the transport's sockets, both ends agree when
\* nothing is under way, and the relay behind a connected peer is online; stop()
\* returns, and every connect() is settled.
ConnectionsAgree ==
  /\ [](/\ Conns!NoOrphanSocket /\ Conns!PeersAreSockets
        /\ Conns!EndsAgreeWhenQuiet /\ Conns!ConnectedRelayOnline)
  /\ Conns!Fairness => Conns!StopCompletes /\ Conns!ConnectSettles

\* Routes lead through connected neighbours, a neighbour is always routed, and no two
\* nodes hold each other as next hop once what they announced is read, but through a
\* connection that was replaced unnoticed; after the last link change the announcements
\* die out.
RoutesSound ==
  /\ [](Dv!NextHopConnected /\ Dv!NeighbourRouted /\ Dv!NoTwoNodeLoop)
  /\ Dv!AnnouncementsDieOut

\* A central cycle of the phone always has the one timer that ends its phase,
\* and who asked to send is told in the end.
RoleCycleEnds ==
  /\ [](/\ Role!RoleCycleTimed)
  /\ Role!Fairness => Role!RoleAnswers

\* A message goes out a second time only after a fault that hid the first send, and
\* the queue keeps both of its limits.
SentOnceUnlessInDoubt == Ext!SentOnceUnlessInDoubt /\ Ext!QueueFits

\* No message stays in the Box's queue for ever: it is delivered, given up or expires.
QueueDrains == Ext!Fairness => Ext!QueueDrains

\* The phone's relay links: the scan that runs reports to the active session, an
\* identified peer keeps its entry, and no entry is held for ever by an attempt
\* that gets nowhere.
RelaySettles ==
  /\ [](Relay!ScanIsCurrent /\ Relay!IdentifiedKeepsSlot)
  /\ Relay!Fairness => Relay!SlotSettles

\* The LoRa drivers: a radio whose turn is over listens, what resolved was on the
\* air whole, and every send() settles, the chip late, BUSY or deaf.
LoraDelivers ==
  /\ [](Serial!LoraListens /\ Chip!ResolvedWasAired)
  /\ Serial!Fairness => Serial!LoraSendSettles
  /\ Chip!ChipFairness => Chip!ChipSendSettles

\* Killed anywhere and launched again, a node keeps its identity and its password,
\* and one that is asked to end ends.
InstallAndShutdown ==
  /\ [](/\ Install!InstallSurvives)
  /\ Install!KeyNeverReplaced
  /\ Install!Fairness => Install!ShutdownCompletes

\* The news gateway never goes back to an earlier edition and announces each version
\* of a bulletin exactly once, in the end; only the calls that reach a backend spend
\* the mesh's budget.
GatewaysServe ==
  /\ [](Gate!AnnouncedOnce /\ Gate!BudgetIsSpentOnWork)
  /\ Gate!NewsNotRegressed
  /\ Gate!Fairness => Gate!BulletinsAnnounced
=============================================================================
