--------------------------- MODULE TcpConnections ---------------------------
(***************************************************************************)
(* Connection management between two or more nodes that dial each other    *)
(* over TCP: dialing, the HELLO exchange, the replacement of a duplicate   *)
(* connection, teardown, stop(), and what the node above keeps per peer.   *)
(*                                                                         *)
(*   node/src/transports/tcp.ts  connect(), handleInboundSocket(),         *)
(*                               wireSocket() with its cleanup(), stop()   *)
(*   node/src/node.ts            the addTransport() callbacks,             *)
(*                               registerRelay()                           *)
(*   node/src/relay-registry.ts  markOnline(), markOffline()               *)
(*                                                                         *)
(* A connection has two ends; each is a Socket object of one node's        *)
(* process.  Node.js runs one event at a time, so an event handler is one  *)
(* action; destroy() takes effect at once, the "close" event comes later.  *)
(***************************************************************************)
EXTENDS Naturals, FiniteSets, TLAPS

CONSTANTS
  Node,
  Conn,         \* connections: records with fields from (dialer) and to
  MaxFailures,  \* bound on the connections the network breaks
  MaxStops,     \* bound on the nodes that are stopped
  Relays,       \* the nodes an operator may register as a relay
  None

\* What the constants are assumed to be.
ConnAssumption ==
  /\ \A c \in Conn : c.from \in Node /\ c.to \in Node /\ c.from # c.to
  /\ None \notin Conn

VARIABLES
  end,         \* [Conn -> [Node -> state of that node's Socket object]]
  hello,       \* {<<c, n>>}: the other end's HELLO is readable by n
  promise,     \* [Conn -> state of the promise connect() returned]
  sockets,     \* [Node -> [Node -> Conn or None]]   TcpTransport.sockets
  stopped,     \* nodes whose transport was stopped
  broken,      \* connections the network no longer carries
  peers,       \* [Node -> SUBSET Node]              NomadNode.peers, peerTransport
  count,       \* [Node -> [Node -> Nat]]            peerConnectionCounts
  registered,  \* [Node -> SUBSET Node]              keys of the relay registry
  online       \* [Node -> SUBSET Node]              entries with online = true

nodeVars == <<peers, count, registered, online>>
vars == <<end, hello, promise, sockets, stopped, broken, nodeVars>>

\* "dialing": createConnection() called;  "pending": wired, in pendingSockets;
\* "known": the peer is identified;  "dying": destroyed, "close" not emitted.
EndState == {"none", "dialing", "pending", "known", "dying", "closed"}

Ends(c) == {c.from, c.to}
Other(c, n) == IF n = c.from THEN c.to ELSE c.from

\* TCP reports to n that its connection is gone: the other end was destroyed,
\* the listener never accepted it, or the network broke it.
Lost(c, n) ==
  \/ end[c][Other(c, n)] \in {"dying", "closed"}
  \/ n = c.from /\ end[c][c.to] = "none" /\ c.to \in stopped
  \/ c \in broken

-----------------------------------------------------------------------------
\* Mutant of OnPeerConnected: any peer is entered as an online relay.
OnPeerConnectedAnyRelay(n, p) ==
  /\ peers' = [peers EXCEPT ![n] = @ \cup {p}]
  /\ count' = [count EXCEPT ![n][p] = @ + 1]
  /\ online' = [online EXCEPT ![n] = @ \cup {p}]
  /\ UNCHANGED registered

\* What the node does when the transport reports a peer.
OnPeerConnected(n, p) ==
  /\ peers' = [peers EXCEPT ![n] = @ \cup {p}]
  /\ count' = [count EXCEPT ![n][p] = @ + 1]
  /\ online' = [online EXCEPT ![n] = @ \cup ({p} \cap registered[n])]
  /\ UNCHANGED registered

\* ... and when it reports that a peer left.
OnPeerDisconnected(n, p) ==
  LET remaining == IF count[n][p] = 0 THEN 0 ELSE count[n][p] - 1 IN
  /\ peers' = [peers EXCEPT ![n] = @ \ {p}]
  /\ count' = [count EXCEPT ![n][p] = remaining]
  /\ online' = [online EXCEPT ![n] = IF remaining = 0 THEN @ \ {p} ELSE @]
  /\ UNCHANGED registered

\* Mutant of Cleanup: the disconnect is reported whichever socket closed.
CleanupAnySocket(c, n) ==
  /\ sockets' = [sockets EXCEPT ![n][Other(c, n)] = IF @ = c THEN None ELSE @]
  /\ OnPeerDisconnected(n, Other(c, n))

\* cleanup(), on "close": only the socket that is tracked takes the peer along.
Cleanup(c, n) ==
  IF sockets[n][Other(c, n)] = c
  THEN /\ sockets' = [sockets EXCEPT ![n][Other(c, n)] = None]
       /\ OnPeerDisconnected(n, Other(c, n))
  ELSE UNCHANGED <<sockets, nodeVars>>

-----------------------------------------------------------------------------
\* connect(): createConnection() and the 5 s timer.
Dial(c) ==
  /\ c.from \notin stopped
  /\ end[c][c.from] = "none"
  /\ end' = [end EXCEPT ![c][c.from] = "dialing"]
  /\ promise' = [promise EXCEPT ![c] = "waiting"]
  /\ UNCHANGED <<hello, sockets, stopped, broken, nodeVars>>

\* The "connect" event: the socket is wired and the HELLO written.
Connected(c) ==
  /\ end[c][c.from] = "dialing"
  /\ c.to \notin stopped \/ end[c][c.to] # "none"
  /\ end' = [end EXCEPT ![c][c.from] = "pending"]
  /\ hello' = hello \cup {<<c, c.to>>}
  /\ UNCHANGED <<promise, sockets, stopped, broken, nodeVars>>

\* handleInboundSocket() at the listener.
Accept(c) ==
  /\ end[c][c.from] # "none"
  /\ end[c][c.to] = "none"
  /\ c.to \notin stopped
  /\ end' = [end EXCEPT ![c][c.to] = "pending"]
  /\ hello' = hello \cup {<<c, c.from>>}
  /\ UNCHANGED <<promise, sockets, stopped, broken, nodeVars>>

\* Mutant of Destroyed: the connection that lost its slot is left open.
DestroyedNever(n, old) == end

\* existing.socket.destroy()
Destroyed(n, old) ==
  IF old = None THEN end ELSE [end EXCEPT ![old][n] = "dying"]

\* The first line on a socket identifies the peer.  A connection that is
\* already tracked for it is destroyed; the new one takes its place.
ReadHello(c, n) ==
  LET p == Other(c, n) IN
  /\ end[c][n] = "pending"
  /\ <<c, n>> \in hello
  /\ hello' = hello \ {<<c, n>>}
  /\ end' = [Destroyed(n, sockets[n][p]) EXCEPT ![c][n] = "known"]
  /\ sockets' = [sockets EXCEPT ![n][p] = c]
  /\ promise' = [promise EXCEPT ![c] =
                   IF n = c.from /\ @ = "waiting" THEN "resolved" ELSE @]
  /\ OnPeerConnected(n, p)
  /\ UNCHANGED <<stopped, broken>>

\* Mutant of ConnectTimeout: the timer only guards the TCP handshake.
ConnectTimeoutDialing(c) ==
  /\ promise[c] = "waiting"
  /\ end[c][c.from] = "dialing"
  /\ promise' = [promise EXCEPT ![c] = "rejected"]
  /\ end' = [end EXCEPT ![c][c.from] = "dying"]
  /\ UNCHANGED <<hello, sockets, stopped, broken, nodeVars>>

\* The 5 s timer of connect(): no HELLO came back in time.
ConnectTimeout(c) ==
  /\ promise[c] = "waiting"
  /\ promise' = [promise EXCEPT ![c] = "rejected"]
  /\ end' = [end EXCEPT ![c][c.from] =
               IF @ \in {"dialing", "pending"} THEN "dying" ELSE @]
  /\ UNCHANGED <<hello, sockets, stopped, broken, nodeVars>>

\* "error" while dialing: nobody listens, or the network is down.
ConnectRefused(c) ==
  /\ end[c][c.from] = "dialing"
  /\ Lost(c, c.from)
  /\ end' = [end EXCEPT ![c][c.from] = "closed"]
  /\ promise' = [promise EXCEPT ![c] = "rejected"]
  /\ UNCHANGED <<hello, sockets, stopped, broken, nodeVars>>

\* The connection ends under a live socket: "close", with an "error" before it
\* (which rejects a connect() still waiting) or without one.  A reset may
\* overtake a HELLO that was not read yet.
ConnectionLost(c, n) ==
  /\ end[c][n] \in {"pending", "known"}
  /\ Lost(c, n)
  /\ end' = [end EXCEPT ![c][n] = "closed"]
  /\ hello' = hello \ {<<c, n>>}
  /\ \/ UNCHANGED promise
     \/ /\ n = c.from /\ promise[c] = "waiting"
        /\ promise' = [promise EXCEPT ![c] = "rejected"]
  /\ Cleanup(c, n)
  /\ UNCHANGED <<stopped, broken>>

\* The "close" event of a socket this node destroyed.
CloseEvent(c, n) ==
  /\ end[c][n] = "dying"
  /\ end' = [end EXCEPT ![c][n] = "closed"]
  /\ hello' = hello \ {<<c, n>>}
  /\ Cleanup(c, n)
  /\ UNCHANGED <<promise, stopped, broken>>

NetworkFails(c) ==
  /\ Cardinality(broken) < MaxFailures
  /\ c \notin broken
  /\ end[c][c.from] # "none"
  /\ broken' = broken \cup {c}
  /\ UNCHANGED <<end, hello, promise, sockets, stopped, nodeVars>>

\* Mutant of Stoppable: connections that did not identify themselves yet are
\* forgotten.
StoppableKnown(n) == {c \in Conn : \E p \in Node : sockets[n][p] = c}

\* What stop() destroys: the tracked and the pending sockets.
Stoppable(n) ==
  {c \in Conn : \/ \E p \in Node : sockets[n][p] = c
                \/ n \in Ends(c) /\ end[c][n] = "pending"}

\* stop(): the maps are cleared, so no disconnect is reported to the node;
\* a socket that is still dialing is in neither of them.
Stop(n) ==
  /\ n \notin stopped
  /\ Cardinality(stopped) < MaxStops
  /\ stopped' = stopped \cup {n}
  /\ end' = [c \in Conn |->
               IF c \in Stoppable(n) THEN [end[c] EXCEPT ![n] = "dying"] ELSE end[c]]
  /\ sockets' = [sockets EXCEPT ![n] = [p \in Node |-> None]]
  /\ UNCHANGED <<hello, promise, broken, nodeVars>>

\* Mutant of RegisterRelay: the peer's current connection is not looked at.
RegisterRelayBlind(n, p) ==
  /\ p \in Relays \ registered[n]
  /\ registered' = [registered EXCEPT ![n] = @ \cup {p}]
  /\ UNCHANGED <<end, hello, promise, sockets, stopped, broken, peers, count, online>>

\* registerRelay() by an operator of n.
RegisterRelay(n, p) ==
  /\ n # p
  /\ p \in Relays \ registered[n]
  /\ registered' = [registered EXCEPT ![n] = @ \cup {p}]
  /\ online' = [online EXCEPT ![n] = @ \cup ({p} \cap peers[n])]
  /\ UNCHANGED <<end, hello, promise, sockets, stopped, broken, peers, count>>

-----------------------------------------------------------------------------
Init ==
  /\ end = [c \in Conn |-> [n \in Ends(c) |-> "none"]]
  /\ hello = {}
  /\ promise = [c \in Conn |-> "none"]
  /\ sockets = [n \in Node |-> [p \in Node |-> None]]
  /\ stopped = {}
  /\ broken = {}
  /\ peers = [n \in Node |-> {}]
  /\ count = [n \in Node |-> [p \in Node |-> 0]]
  /\ registered = [n \in Node |-> {}]
  /\ online = [n \in Node |-> {}]

Next ==
  \/ \E c \in Conn :
       \/ Dial(c) \/ Connected(c) \/ Accept(c) \/ NetworkFails(c)
       \/ ConnectTimeout(c) \/ ConnectRefused(c)
       \/ \E n \in Ends(c) :
            ReadHello(c, n) \/ ConnectionLost(c, n) \/ CloseEvent(c, n)
  \/ \E n \in Node : Stop(n) \/ \E p \in Node : RegisterRelay(n, p)

\* The event loop gets round to every event, and timers fire.
Fairness ==
  \A c \in Conn :
    /\ WF_vars(ConnectTimeout(c))
    /\ \A n \in Ends(c) : WF_vars(ConnectionLost(c, n)) /\ WF_vars(CloseEvent(c, n))

Spec == Init /\ [][Next]_vars /\ Fairness

-----------------------------------------------------------------------------
TypeOK ==
  /\ \A c \in Conn : end[c] \in [Ends(c) -> EndState]
  /\ hello \subseteq {x \in Conn \X Node : x[2] \in Ends(x[1])}
  /\ promise \in [Conn -> {"none", "waiting", "resolved", "rejected"}]
  /\ \A n, p \in Node :
       sockets[n][p] # None => Ends(sockets[n][p]) = {n, p}
  /\ stopped \subseteq Node
  /\ broken \subseteq Conn
  /\ \A n \in Node : online[n] \subseteq registered[n]

\* Every socket that identified its peer and was not destroyed is the one the
\* transport tracks for that peer: stop() finds it, however many connections
\* the same two nodes made (wireSocket()'s replacement of a duplicate).
NoOrphanSocket ==
  \A c \in Conn : \A n \in Ends(c) :
    end[c][n] = "known" => sockets[n][Other(c, n)] = c

\* A running node lists a peer exactly when its transport tracks a connection
\* to it: the late "close" of a replaced socket takes nothing along, and a
\* tracked socket that died is reported.
PeersAreSockets ==
  \A n \in Node \ stopped : peers[n] = {p \in Node : sockets[n][p] # None}

Quiet ==
  \A c \in Conn : \A n \in Ends(c) :
    /\ end[c][n] \in {"none", "known", "closed"}
    /\ end[c][n] = "known" => ~Lost(c, n)

\* Once all events have been handled the two ends of a link agree on which
\* connection it is, also after both tore down duplicates in different orders.
EndsAgreeWhenQuiet ==
  Quiet => \A n, p \in Node \ stopped : sockets[n][p] = sockets[p][n]

\* A relay that is connected is shown online, whether it was registered before
\* or after it connected, and whichever of its connections closed since.
ConnectedRelayOnline ==
  \A n \in Node \ stopped : peers[n] \cap registered[n] \subseteq online[n]

\* stop() completes: every inbound socket of a stopped node gets closed, so
\* server.close() calls back.
StopCompletes ==
  \A n \in Node : n \in stopped ~>
    \A c \in Conn : c.to = n => end[c][n] \in {"none", "closed"}

\* The promise of connect() settles, whatever happened to the connection.
ConnectSettles ==
  \A c \in Conn : promise[c] = "waiting" ~> promise[c] # "waiting"

\* Stated by the comment on peerConnectionCounts: the count gates the online
\* flag, so a relay no transport is connected to is not shown online.
OnlineRelayConnected ==
  \A n \in Node \ stopped : online[n] \subseteq peers[n]

\* Stated by the test on duplicate connections: when two connections between
\* the same pair come up and nothing fails, the pair stays connected.
DuplicateKeepsLink ==
  Quiet /\ broken = {} /\ (\A c \in Conn : promise[c] = "resolved")
    => \A c \in Conn : peers[c.from] # {}
-----------------------------------------------------------------------------
(***************************************************************************)
(* For any nodes and connections, however many: no socket is left that the *)
(* transport does not track, the peers of a running node are its tracked   *)
(* connections, a connected relay is online, and with nothing left to      *)
(* handle two running nodes agree on their connection.                     *)
(***************************************************************************)

\* A state for either end of every connection.
EndTypes(f) ==
  /\ f = [c \in Conn |-> f[c]]
  /\ \A c \in Conn : f[c] = [n \in Ends(c) |-> f[c][n]]
  /\ \A c \in Conn : \A n \in Ends(c) : f[c][n] \in EndState

ConnTypes ==
  /\ EndTypes(end)
  /\ sockets \in [Node -> [Node -> Conn \cup {None}]]
  /\ \A n, p \in Node : sockets[n][p] # None => Ends(sockets[n][p]) = {n, p}
  /\ peers \in [Node -> SUBSET Node]
  /\ registered \in [Node -> SUBSET Node]
  /\ online \in [Node -> SUBSET Node]

\* What the transport tracks was identified and has not been closed yet.
TrackedIsLive ==
  \A n, p \in Node : sockets[n][p] # None => end[sockets[n][p]][n] \in {"known", "dying"}

\* A HELLO comes from a socket that was wired.
HelloIsSent ==
  \A c \in Conn : \A n \in Ends(c) :
    <<c, n>> \in hello \/ end[c][n] = "known" => end[c][Other(c, n)] \notin {"none", "dialing"}

ConnInv ==
  /\ ConnTypes
  /\ TrackedIsLive
  /\ HelloIsSent
  /\ NoOrphanSocket
  /\ PeersAreSockets
  /\ ConnectedRelayOnline

\* A connection has two ends, at two nodes.
LEMMA TwoEnds ==
  ASSUME ConnAssumption, NEW c \in Conn, NEW n \in Ends(c)
  PROVE  /\ n \in Node /\ Other(c, n) \in Node /\ Other(c, n) # n
         /\ Other(c, n) \in Ends(c) /\ Other(c, Other(c, n)) = n
         /\ Ends(c) = {n, Other(c, n)}
         /\ c # None
         /\ \A m : Ends(c) = {n, m} => m = Other(c, n)
BY DEF ConnAssumption, Ends, Other

\* What the transport tracks for a peer is a connection to that peer.
LEMMA Tracked ==
  ASSUME ConnAssumption, ConnTypes, NEW q \in Node, NEW p \in Node, sockets[q][p] # None
  PROVE  /\ sockets[q][p] \in Conn /\ q \in Ends(sockets[q][p])
         /\ Other(sockets[q][p], q) = p
<1>1. sockets[q][p] \in Conn
  BY DEF ConnTypes
<1>2. Ends(sockets[q][p]) = {q, p}
  BY DEF ConnTypes
<1>3. q \in Ends(sockets[q][p])
  BY <1>2
<1> QED BY <1>1, <1>2, <1>3, TwoEnds

\* One end of a connection changes its state, and nothing else does.
OneEndMoves(f, g, c, n, v) == g = [f EXCEPT ![c][n] = v]

LEMMA SetEnd ==
  ASSUME NEW f, EndTypes(f), NEW c \in Conn, NEW n \in Ends(c), NEW v \in EndState,
         NEW g, OneEndMoves(f, g, c, n, v)
  PROVE  /\ EndTypes(g)
         /\ \A d \in Conn : \A m \in Ends(d) : d # c \/ m # n => g[d][m] = f[d][m]
<1>1. /\ g = [d \in Conn |-> g[d]]
      /\ g[c] = [f[c] EXCEPT ![n] = v]
      /\ \A d \in Conn : d # c => g[d] = f[d]
  BY DEF EndTypes, OneEndMoves
<1>2. /\ g[c] = [m \in Ends(c) |-> g[c][m]]
      /\ g[c][n] = v
      /\ \A m \in Ends(c) : m # n => g[c][m] = f[c][m]
  BY <1>1 DEF EndTypes
<1> QED BY <1>1, <1>2 DEF EndTypes

\* Before a socket is identified the transport does not track it: it may be
\* wired, refused or destroyed without anybody else noticing.
LEMMA UntrackedMove ==
  ASSUME ConnAssumption, ConnInv, NEW c \in Conn, NEW n \in Ends(c),
         end[c][n] \in {"none", "dialing", "pending"},
         NEW v \in EndState \ {"none", "known"},
         v = "dialing" => end[c][n] = "none",
         end' = [end EXCEPT ![c][n] = v],
         \A d \in Conn : \A m \in Ends(d) :
           <<d, m>> \in hello' => <<d, m>> \in hello \/ (d = c /\ m = Other(c, n) /\ v # "dialing"),
         UNCHANGED <<sockets, stopped, nodeVars>>
  PROVE  ConnInv'
<1> USE DEF ConnInv
<1>1. /\ EndTypes(end') /\ end'[c][n] = v
      /\ \A d \in Conn : \A m \in Ends(d) : d # c \/ m # n => end'[d][m] = end[d][m]
  <2>1. EndTypes(end) /\ v \in EndState
    BY DEF ConnTypes
  <2>2. OneEndMoves(end, end', c, n, v)
    BY DEF OneEndMoves
  <2>3. EndTypes(end') /\ \A d \in Conn : \A m \in Ends(d) : d # c \/ m # n => end'[d][m] = end[d][m]
    BY <2>1, <2>2, SetEnd
  <2>4. end'[c][n] = v
    BY <2>1 DEF EndTypes
  <2> QED BY <2>3, <2>4
<1>2. ConnTypes'
  BY <1>1 DEF ConnTypes, EndTypes, nodeVars
<1>3. TrackedIsLive'
  <2> SUFFICES ASSUME NEW q \in Node, NEW p \in Node, sockets[q][p] # None
               PROVE  end'[sockets[q][p]][q] \in {"known", "dying"}
    BY DEF TrackedIsLive
  <2>1. sockets[q][p] \in Conn /\ q \in Ends(sockets[q][p])
    BY Tracked
  <2>2. end[sockets[q][p]][q] \in {"known", "dying"}
    BY DEF TrackedIsLive
  <2>3. sockets[q][p] # c \/ q # n
    BY <2>2
  <2> QED BY <1>1, <2>1, <2>2, <2>3
<1>4. HelloIsSent'
  <2> SUFFICES ASSUME NEW d \in Conn, NEW m \in Ends(d), <<d, m>> \in hello' \/ end'[d][m] = "known"
               PROVE  end'[d][Other(d, m)] \notin {"none", "dialing"}
    BY DEF HelloIsSent
  <2>1. Other(d, m) \in Ends(d) /\ Other(d, Other(d, m)) = m
    BY TwoEnds
  <2>2. CASE d = c /\ Other(d, m) = n
    <3>1. m = Other(c, n) /\ m # n
      BY <2>1, <2>2, TwoEnds
    <3>2. v # "dialing" \/ <<d, m>> \in hello \/ end[d][m] = "known"
      BY <1>1, <2>2, <3>1
    <3>3. v # "dialing"
      BY <2>2, <3>2 DEF HelloIsSent
    <3> QED BY <1>1, <2>2, <3>3
  <2>3. CASE d # c \/ Other(d, m) # n
    <3>1. end'[d][Other(d, m)] = end[d][Other(d, m)]
      BY <1>1, <2>1, <2>3
    <3>2. <<d, m>> \in hello \/ end[d][m] = "known"
      BY <1>1, <2>1, <2>3, TwoEnds
    <3> QED BY <3>1, <3>2 DEF HelloIsSent
  <2> QED BY <2>2, <2>3
<1>5. NoOrphanSocket'
  <2> SUFFICES ASSUME NEW d \in Conn, NEW m \in Ends(d), end'[d][m] = "known"
               PROVE  sockets[m][Other(d, m)] = d
    BY DEF NoOrphanSocket
  <2>1. end[d][m] = "known"
    BY <1>1
  <2> QED BY <2>1 DEF NoOrphanSocket
<1>6. PeersAreSockets' /\ ConnectedRelayOnline'
  BY DEF PeersAreSockets, ConnectedRelayOnline, nodeVars
<1> QED BY <1>2, <1>3, <1>4, <1>5, <1>6

\* cleanup() takes the peer along exactly when the transport tracked the socket
\* for it; then nothing is tracked for it any more.
LEMMA CleanupEffect ==
  ASSUME ConnAssumption, ConnTypes, NEW c \in Conn, NEW n \in Ends(c), Cleanup(c, n)
  PROVE  /\ sockets' \in [Node -> [Node -> Conn \cup {None}]]
         /\ peers' \in [Node -> SUBSET Node] /\ online' \in [Node -> SUBSET Node]
         /\ registered' = registered
         /\ sockets'[n][Other(c, n)] # c
         /\ \A q, p \in Node : q # n \/ p # Other(c, n) => sockets'[q][p] = sockets[q][p]
         /\ sockets[n][Other(c, n)] # c => sockets' = sockets /\ peers' = peers /\ online' = online
         /\ sockets[n][Other(c, n)] = c =>
              /\ sockets'[n][Other(c, n)] = None /\ peers'[n] = peers[n] \ {Other(c, n)}
              /\ \A q \in Node : q # n => peers'[q] = peers[q]
         /\ \A q \in Node : online[q] \ {Other(c, n)} \subseteq online'[q]
         /\ \A q \in Node : q # n => online'[q] = online[q]
<1>1. n \in Node /\ Other(c, n) \in Node /\ c # None
  BY TwoEnds
<1>2. CASE sockets[n][Other(c, n)] # c
  <2>1. sockets' = sockets /\ peers' = peers /\ online' = online /\ registered' = registered
    BY <1>2 DEF Cleanup, nodeVars
  <2> QED BY <1>1, <1>2, <2>1 DEF ConnTypes
<1>3. CASE sockets[n][Other(c, n)] = c
  <2> DEFINE p == Other(c, n)
  <2> HIDE DEF p
  <2>1. /\ sockets' = [sockets EXCEPT ![n][p] = None]
        /\ peers' = [peers EXCEPT ![n] = @ \ {p}]
        /\ registered' = registered
    BY <1>3 DEF Cleanup, OnPeerDisconnected, p
  <2>2. online' = [online EXCEPT ![n] = online[n] \ {p}] \/ online' = [online EXCEPT ![n] = online[n]]
    BY <1>3 DEF Cleanup, OnPeerDisconnected, p
  <2>3. p \in Node
    BY <1>1 DEF p
  <2>4. /\ sockets' \in [Node -> [Node -> Conn \cup {None}]] /\ sockets'[n][p] = None
        /\ \A q, r \in Node : q # n \/ r # p => sockets'[q][r] = sockets[q][r]
    BY <1>1, <2>1, <2>3 DEF ConnTypes
  <2>5. /\ peers' \in [Node -> SUBSET Node] /\ peers'[n] = peers[n] \ {p}
        /\ \A q \in Node : q # n => peers'[q] = peers[q]
    BY <1>1, <2>1, <2>3 DEF ConnTypes
  <2>6. /\ online' \in [Node -> SUBSET Node] /\ \A q \in Node : q # n => online'[q] = online[q]
        /\ online[n] \ {p} \subseteq online'[n]
    BY <1>1, <2>2, <2>3 DEF ConnTypes
  <2> QED BY <1>1, <1>3, <2>1, <2>4, <2>5, <2>6 DEF p
<1> QED BY <1>2, <1>3

\* A wired socket closes, for whatever reason, with its cleanup().
LEMMA CloseMove ==
  ASSUME ConnAssumption, ConnInv, NEW c \in Conn, NEW n \in Ends(c),
         end[c][n] \in {"pending", "known", "dying"},
         end' = [end EXCEPT ![c][n] = "closed"], hello' = hello \ {<<c, n>>},
         Cleanup(c, n), UNCHANGED stopped
  PROVE  ConnInv'
<1> USE DEF ConnInv
<1> DEFINE p == Other(c, n)
<1>1. /\ n \in Node /\ p \in Node /\ p # n /\ c # None
      /\ \A d \in Conn : \A m \in Ends(d) : m \in Node /\ Other(d, m) \in Node /\ d # None
  BY TwoEnds
<1>2. /\ EndTypes(end') /\ end'[c][n] = "closed"
      /\ \A d \in Conn : \A m \in Ends(d) : d # c \/ m # n => end'[d][m] = end[d][m]
  <2>1. EndTypes(end) /\ "closed" \in EndState
    BY DEF ConnTypes, EndState
  <2>2. OneEndMoves(end, end', c, n, "closed")
    BY DEF OneEndMoves
  <2>3. EndTypes(end') /\ \A d \in Conn : \A m \in Ends(d) : d # c \/ m # n => end'[d][m] = end[d][m]
    BY <2>1, <2>2, SetEnd
  <2>4. end'[c][n] = "closed"
    BY <2>1 DEF EndTypes
  <2> QED BY <2>3, <2>4
<1>3. /\ sockets' \in [Node -> [Node -> Conn \cup {None}]]
      /\ peers' \in [Node -> SUBSET Node] /\ online' \in [Node -> SUBSET Node]
      /\ registered' = registered
      /\ sockets'[n][p] # c
      /\ \A q, r \in Node : q # n \/ r # p => sockets'[q][r] = sockets[q][r]
      /\ sockets[n][p] # c => sockets' = sockets /\ peers' = peers /\ online' = online
      /\ sockets[n][p] = c =>
           /\ sockets'[n][p] = None /\ peers'[n] = peers[n] \ {p}
           /\ \A q \in Node : q # n => peers'[q] = peers[q]
      /\ \A q \in Node : online[q] \ {p} \subseteq online'[q]
      /\ \A q \in Node : q # n => online'[q] = online[q]
  BY CleanupEffect
<1>4. \A q, r \in Node : sockets'[q][r] # None => sockets'[q][r] = sockets[q][r] /\ (sockets[q][r] # c \/ q # n)
  <2> SUFFICES ASSUME NEW q \in Node, NEW r \in Node, sockets'[q][r] # None
               PROVE  sockets'[q][r] = sockets[q][r] /\ (sockets[q][r] # c \/ q # n)
    OBVIOUS
  <2>1. CASE q = n /\ r = p
    BY <1>1, <1>3, <2>1
  <2>2. CASE q # n \/ r # p
    <3>1. sockets'[q][r] = sockets[q][r]
      BY <1>3, <2>2
    <3>2. CASE q = n /\ sockets[q][r] = c
      <4>1. Ends(c) = {n, r}
        BY <1>1, <3>1, <3>2 DEF ConnTypes
      <4> QED BY <2>2, <3>2, <4>1, TwoEnds
    <3> QED BY <3>1, <3>2
  <2> QED BY <2>1, <2>2
<1> HIDE DEF p
<1>5. ConnTypes'
  <2>1. EndTypes(end)'
    BY <1>2 DEF EndTypes
  <2>2. \A q, r \in Node : sockets'[q][r] # None => Ends(sockets'[q][r]) = {q, r}
    BY <1>4 DEF ConnTypes
  <2>3. registered' \in [Node -> SUBSET Node]
    BY <1>3 DEF ConnTypes
  <2> QED BY <1>3, <2>1, <2>2, <2>3 DEF ConnTypes
<1>6. TrackedIsLive'
  <2> SUFFICES ASSUME NEW q \in Node, NEW r \in Node, sockets'[q][r] # None
               PROVE  end'[sockets'[q][r]][q] \in {"known", "dying"}
    BY DEF TrackedIsLive
  <2>1. sockets'[q][r] = sockets[q][r] /\ (sockets[q][r] # c \/ q # n)
    BY <1>4
  <2>2. sockets[q][r] \in Conn /\ q \in Ends(sockets[q][r])
    BY <2>1, Tracked
  <2> QED BY <1>2, <2>1, <2>2 DEF TrackedIsLive
<1>7. HelloIsSent'
  <2> SUFFICES ASSUME NEW d \in Conn, NEW m \in Ends(d), <<d, m>> \in hello' \/ end'[d][m] = "known"
               PROVE  end'[d][Other(d, m)] \notin {"none", "dialing"}
    BY DEF HelloIsSent
  <2>1. Other(d, m) \in Ends(d)
    BY TwoEnds
  <2>2. end[d][Other(d, m)] \notin {"none", "dialing"}
    BY <1>2 DEF HelloIsSent
  <2> QED BY <1>2, <2>1, <2>2
<1>8. NoOrphanSocket'
  <2> SUFFICES ASSUME NEW d \in Conn, NEW m \in Ends(d), end'[d][m] = "known"
               PROVE  sockets'[m][Other(d, m)] = d
    BY DEF NoOrphanSocket
  <2>1. (d # c \/ m # n) /\ end[d][m] = "known"
    BY <1>2
  <2>2. sockets[m][Other(d, m)] = d
    BY <2>1 DEF NoOrphanSocket
  <2>3. CASE m = n /\ Other(d, m) = p
    BY <1>3, <2>1, <2>2, <2>3
  <2>4. CASE m # n \/ Other(d, m) # p
    BY <1>1, <1>3, <2>2, <2>4
  <2> QED BY <2>3, <2>4
<1>9. PeersAreSockets'
  <2> SUFFICES ASSUME NEW q \in Node, q \notin stopped
               PROVE  peers'[q] = {r \in Node : sockets'[q][r] # None}
    BY DEF PeersAreSockets
  <2>0. peers[q] = {r \in Node : sockets[q][r] # None}
    BY DEF PeersAreSockets
  <2>1. CASE q = n /\ sockets[n][p] = c
    BY <1>1, <1>3, <2>0, <2>1
  <2>2. CASE ~(q = n /\ sockets[n][p] = c)
    BY <1>1, <1>3, <2>0, <2>2
  <2> QED BY <2>1, <2>2
<1>10. ConnectedRelayOnline'
  <2> SUFFICES ASSUME NEW q \in Node, q \notin stopped
               PROVE  peers'[q] \cap registered'[q] \subseteq online'[q]
    BY DEF ConnectedRelayOnline
  <2>0. peers[q] \cap registered[q] \subseteq online[q] /\ registered' = registered
    BY <1>3 DEF ConnectedRelayOnline
  <2>1. CASE sockets[n][p] # c
    BY <1>3, <2>0, <2>1
  <2>2. CASE sockets[n][p] = c /\ q = n
    BY <1>3, <2>0, <2>2
  <2>3. CASE sockets[n][p] = c /\ q # n
    BY <1>3, <2>0, <2>3
  <2> QED BY <2>1, <2>2, <2>3
<1> QED BY <1>5, <1>6, <1>7, <1>8, <1>9, <1>10
\* The HELLO of a wired socket is read: whatever was tracked for the peer is
\* destroyed, and the new connection takes its place.
LEMMA HelloMove ==
  ASSUME ConnAssumption, ConnInv, NEW c \in Conn, NEW n \in Ends(c), ReadHello(c, n)
  PROVE  ConnInv'
<1> USE DEF ConnInv
<1> DEFINE p == Other(c, n)
           old == sockets[n][p]
<1>1. /\ n \in Node /\ p \in Node /\ p # n /\ c # None /\ Ends(c) = {n, p}
      /\ \A d \in Conn : \A m \in Ends(d) : m \in Node /\ Other(d, m) \in Node /\ d # None
  BY TwoEnds
<1>2. end[c][n] = "pending" /\ <<c, n>> \in hello /\ hello' = hello \ {<<c, n>>} /\ stopped' = stopped
  BY DEF ReadHello
<1>3. old # c
  BY <1>1, <1>2 DEF TrackedIsLive
<1>4. old # None => old \in Conn /\ n \in Ends(old)
  BY <1>1, Tracked
<1>5. /\ sockets' = [sockets EXCEPT ![n][p] = c]
      /\ peers' = [peers EXCEPT ![n] = peers[n] \cup {p}]
      /\ online' = [online EXCEPT ![n] = online[n] \cup ({p} \cap registered[n])]
      /\ registered' = registered
  BY DEF ReadHello, OnPeerConnected
<1>6. /\ EndTypes(end') /\ end'[c][n] = "known"
      /\ old # None => end'[old][n] = "dying"
      /\ \A d \in Conn : \A m \in Ends(d) :
           (d # c /\ d # old) \/ m # n => end'[d][m] = end[d][m]
  <2> HIDE DEF old, p
  <2>1. EndTypes(end) /\ "known" \in EndState /\ "dying" \in EndState
    BY DEF ConnTypes, EndState
  <2>2. CASE old = None
    <3>1. end' = [end EXCEPT ![c][n] = "known"]
      BY <2>2 DEF ReadHello, Destroyed, old, p
    <3>2. OneEndMoves(end, end', c, n, "known")
      BY <3>1 DEF OneEndMoves
    <3>3. EndTypes(end') /\ \A d \in Conn : \A m \in Ends(d) : d # c \/ m # n => end'[d][m] = end[d][m]
      BY <2>1, <3>2, SetEnd
    <3>4. end'[c][n] = "known"
      BY <2>1, <3>1 DEF EndTypes
    <3> QED BY <2>2, <3>3, <3>4
  <2>3. CASE old # None
    <3> DEFINE mid == [end EXCEPT ![old][n] = "dying"]
    <3>1. end' = [mid EXCEPT ![c][n] = "known"]
      BY <2>3 DEF ReadHello, Destroyed, old, p
    <3>2. OneEndMoves(end, mid, old, n, "dying") /\ mid[old][n] = "dying"
      BY <1>4, <2>1, <2>3 DEF OneEndMoves, EndTypes
    <3> HIDE DEF mid
    <3>3. EndTypes(mid) /\ \A d \in Conn : \A m \in Ends(d) : d # old \/ m # n => mid[d][m] = end[d][m]
      BY <1>4, <2>1, <2>3, <3>2, SetEnd
    <3>4. OneEndMoves(mid, end', c, n, "known")
      BY <3>1 DEF OneEndMoves
    <3>5. EndTypes(end') /\ \A d \in Conn : \A m \in Ends(d) : d # c \/ m # n => end'[d][m] = mid[d][m]
      BY <2>1, <3>3, <3>4, SetEnd
    <3>6. end'[c][n] = "known"
      BY <3>1, <3>3 DEF EndTypes
    <3>7. end'[old][n] = "dying"
      BY <1>3, <1>4, <2>3, <3>2, <3>5
    <3>8. \A d \in Conn : \A m \in Ends(d) : (d # c /\ d # old) \/ m # n => end'[d][m] = end[d][m]
      BY <3>3, <3>5
    <3> QED BY <3>5, <3>6, <3>7, <3>8
  <2> QED BY <2>2, <2>3
<1>7. /\ sockets' \in [Node -> [Node -> Conn \cup {None}]] /\ sockets'[n][p] = c
      /\ \A q, r \in Node : q # n \/ r # p => sockets'[q][r] = sockets[q][r]
  BY <1>1, <1>5 DEF ConnTypes
<1>8. /\ peers' \in [Node -> SUBSET Node] /\ peers'[n] = peers[n] \cup {p}
      /\ \A q \in Node : q # n => peers'[q] = peers[q]
  BY <1>1, <1>5 DEF ConnTypes
<1>9. /\ online' \in [Node -> SUBSET Node] /\ online'[n] = online[n] \cup ({p} \cap registered[n])
      /\ \A q \in Node : q # n => online'[q] = online[q]
  BY <1>1, <1>5 DEF ConnTypes
<1> HIDE DEF p
<1>10. ConnTypes'
  <2>1. EndTypes(end)'
    BY <1>6 DEF EndTypes
  <2>2. \A q, r \in Node : sockets'[q][r] # None => Ends(sockets'[q][r]) = {q, r}
    BY <1>1, <1>7 DEF ConnTypes
  <2>3. registered' \in [Node -> SUBSET Node]
    BY <1>5 DEF ConnTypes
  <2> QED BY <1>7, <1>8, <1>9, <2>1, <2>2, <2>3 DEF ConnTypes
<1>11. TrackedIsLive'
  <2> SUFFICES ASSUME NEW q \in Node, NEW r \in Node, sockets'[q][r] # None
               PROVE  end'[sockets'[q][r]][q] \in {"known", "dying"}
    BY DEF TrackedIsLive
  <2>1. CASE q = n /\ r = p
    BY <1>6, <1>7, <2>1
  <2>2. CASE q # n \/ r # p
    <3>1. sockets'[q][r] = sockets[q][r]
      BY <1>7, <2>2
    <3>2. sockets[q][r] \in Conn /\ q \in Ends(sockets[q][r])
      BY <3>1, Tracked
    <3>3. end[sockets[q][r]][q] \in {"known", "dying"}
      BY <3>1 DEF TrackedIsLive
    <3>4. sockets[q][r] # c \/ q # n
      BY <1>2, <3>3
    <3>5. CASE sockets[q][r] = old /\ q = n
      BY <1>6, <3>1, <3>5
    <3>6. CASE sockets[q][r] # old \/ q # n
      BY <1>6, <3>1, <3>2, <3>3, <3>4, <3>6
    <3> QED BY <3>5, <3>6
  <2> QED BY <2>1, <2>2
<1>12. HelloIsSent'
  <2> SUFFICES ASSUME NEW d \in Conn, NEW m \in Ends(d), <<d, m>> \in hello' \/ end'[d][m] = "known"
               PROVE  end'[d][Other(d, m)] \notin {"none", "dialing"}
    BY DEF HelloIsSent
  <2>1. Other(d, m) \in Ends(d)
    BY TwoEnds
  <2>2. <<d, m>> \in hello \/ end[d][m] = "known"
    BY <1>1, <1>2, <1>6
  <2>3. end[d][Other(d, m)] \notin {"none", "dialing"}
    BY <2>2 DEF HelloIsSent
  <2>4. CASE (d # c /\ d # old) \/ Other(d, m) # n
    BY <1>6, <2>1, <2>3, <2>4
  <2>5. CASE d = c /\ Other(d, m) = n
    BY <1>6, <2>5
  <2>6. CASE d = old /\ Other(d, m) = n
    BY <1>1, <1>6, <2>6
  <2> QED BY <2>4, <2>5, <2>6
<1>13. NoOrphanSocket'
  <2> SUFFICES ASSUME NEW d \in Conn, NEW m \in Ends(d), end'[d][m] = "known"
               PROVE  sockets'[m][Other(d, m)] = d
    BY DEF NoOrphanSocket
  <2>1. CASE d = c /\ m = n
    BY <1>7, <2>1 DEF p
  <2>2. CASE d # c \/ m # n
    <3>1. d # old \/ m # n
      BY <1>1, <1>6
    <3>2. end[d][m] = "known"
      BY <1>6, <2>2, <3>1
    <3>3. sockets[m][Other(d, m)] = d
      BY <3>2 DEF NoOrphanSocket
    <3>4. m # n \/ Other(d, m) # p
      BY <3>1, <3>3
    <3> QED BY <1>1, <1>7, <3>3, <3>4
  <2> QED BY <2>1, <2>2
<1>14. PeersAreSockets'
  <2> SUFFICES ASSUME NEW q \in Node, q \notin stopped
               PROVE  peers'[q] = {r \in Node : sockets'[q][r] # None}
    BY <1>2 DEF PeersAreSockets
  <2>1. peers[q] = {r \in Node : sockets[q][r] # None}
    BY DEF PeersAreSockets
  <2> QED BY <1>1, <1>7, <1>8, <2>1
<1>15. ConnectedRelayOnline'
  <2> SUFFICES ASSUME NEW q \in Node, q \notin stopped
               PROVE  peers'[q] \cap registered[q] \subseteq online'[q]
    BY <1>2, <1>5 DEF ConnectedRelayOnline
  <2>1. peers[q] \cap registered[q] \subseteq online[q]
    BY DEF ConnectedRelayOnline
  <2> QED BY <1>8, <1>9, <2>1
<1> QED BY <1>10, <1>11, <1>12, <1>13, <1>14, <1>15

\* stop() destroys every socket it knows and clears the map.
LEMMA StopMove ==
  ASSUME ConnAssumption, ConnInv, NEW n \in Node, Stop(n)
  PROVE  ConnInv'
<1> USE DEF ConnInv
<1>1. /\ stopped' = stopped \cup {n} /\ hello' = hello
      /\ peers' = peers /\ registered' = registered /\ online' = online
  BY DEF Stop, nodeVars
<1>2. /\ sockets' \in [Node -> [Node -> Conn \cup {None}]]
      /\ \A r \in Node : sockets'[n][r] = None
      /\ \A q, r \in Node : q # n => sockets'[q][r] = sockets[q][r]
  <2>1. sockets' = [sockets EXCEPT ![n] = [r \in Node |-> None]]
    BY DEF Stop
  <2> QED BY <2>1 DEF ConnTypes
<1>3. \A d \in Stoppable(n) : d \in Conn /\ n \in Ends(d)
  <2> SUFFICES ASSUME NEW d \in Conn, d \in Stoppable(n), n \notin Ends(d)
               PROVE  FALSE
    BY DEF Stoppable
  <2>1. PICK r \in Node : sockets[n][r] = d
    BY DEF Stoppable
  <2>2. d # None
    BY DEF ConnAssumption
  <2> QED BY <2>1, <2>2, Tracked
<1>4. /\ \A d \in Conn : d \in Stoppable(n) => end'[d] = [end[d] EXCEPT ![n] = "dying"]
      /\ \A d \in Conn : d \notin Stoppable(n) => end'[d] = end[d]
      /\ end' = [d \in Conn |-> end'[d]]
  BY DEF Stop
<1>5. /\ EndTypes(end')
      /\ \A d \in Conn : \A m \in Ends(d) : d \notin Stoppable(n) \/ m # n => end'[d][m] = end[d][m]
      /\ \A d \in Stoppable(n) : end'[d][n] = "dying"
  <2>1. \A d \in Conn : /\ end[d] = [m \in Ends(d) |-> end[d][m]]
                        /\ \A m \in Ends(d) : end[d][m] \in EndState
    BY DEF ConnTypes, EndTypes
  <2>2. \A d \in Stoppable(n) : end'[d][n] = "dying"
    BY <1>3, <1>4, <2>1
  <2>3. \A d \in Conn : \A m \in Ends(d) : d \notin Stoppable(n) \/ m # n => end'[d][m] = end[d][m]
    BY <1>3, <1>4, <2>1
  <2>4. \A d \in Conn : end'[d] = [m \in Ends(d) |-> end'[d][m]]
    BY <1>4, <2>1
  <2>5. \A d \in Conn : \A m \in Ends(d) : end'[d][m] \in EndState
    BY <2>1, <2>2, <2>3 DEF EndState
  <2> QED BY <1>4, <2>2, <2>3, <2>4, <2>5 DEF EndTypes
<1>6. ConnTypes'
  <2>1. EndTypes(end)'
    BY <1>5 DEF EndTypes
  <2>2. \A q, r \in Node : sockets'[q][r] # None => Ends(sockets'[q][r]) = {q, r}
    BY <1>2 DEF ConnTypes
  <2> QED BY <1>1, <1>2, <2>1, <2>2 DEF ConnTypes
<1>7. TrackedIsLive'
  <2> SUFFICES ASSUME NEW q \in Node, NEW r \in Node, sockets'[q][r] # None
               PROVE  end'[sockets'[q][r]][q] \in {"known", "dying"}
    BY DEF TrackedIsLive
  <2>1. q # n /\ sockets'[q][r] = sockets[q][r]
    BY <1>2
  <2>2. sockets[q][r] \in Conn /\ q \in Ends(sockets[q][r])
    BY <2>1, Tracked
  <2> QED BY <1>5, <2>1, <2>2 DEF TrackedIsLive
<1>8. HelloIsSent'
  <2> SUFFICES ASSUME NEW d \in Conn, NEW m \in Ends(d), <<d, m>> \in hello \/ end'[d][m] = "known"
               PROVE  end'[d][Other(d, m)] \notin {"none", "dialing"}
    BY <1>1 DEF HelloIsSent
  <2>1. Other(d, m) \in Ends(d)
    BY TwoEnds
  <2>2. <<d, m>> \in hello \/ end[d][m] = "known"
    BY <1>5
  <2>3. end[d][Other(d, m)] \notin {"none", "dialing"}
    BY <2>2 DEF HelloIsSent
  <2> QED BY <1>5, <2>1, <2>3
<1>9. NoOrphanSocket'
  <2> SUFFICES ASSUME NEW d \in Conn, NEW m \in Ends(d), end'[d][m] = "known"
               PROVE  sockets'[m][Other(d, m)] = d
    BY DEF NoOrphanSocket
  <2>1. m \in Node /\ Other(d, m) \in Node
    BY TwoEnds
  <2>2. end[d][m] = "known"
    BY <1>5
  <2>3. sockets[m][Other(d, m)] = d
    BY <2>2 DEF NoOrphanSocket
  <2>4. m # n
    BY <1>5, <2>1, <2>3 DEF Stoppable
  <2> QED BY <1>2, <2>1, <2>3, <2>4
<1>10. PeersAreSockets' /\ ConnectedRelayOnline'
  <2>1. \A q \in Node \ stopped' : q \in Node \ stopped /\ q # n
    BY <1>1
  <2>2. PeersAreSockets'
    BY <1>1, <1>2, <2>1 DEF PeersAreSockets
  <2>3. ConnectedRelayOnline'
    BY <1>1, <2>1 DEF ConnectedRelayOnline
  <2> QED BY <2>2, <2>3
<1> QED BY <1>6, <1>7, <1>8, <1>9, <1>10

\* A relay is registered: if it is connected at that moment it is online.
LEMMA RegisterMove ==
  ASSUME ConnAssumption, ConnInv, NEW n \in Node, NEW p \in Node, RegisterRelay(n, p)
  PROVE  ConnInv'
<1> USE DEF ConnInv
<1>1. end' = end /\ hello' = hello /\ sockets' = sockets /\ stopped' = stopped /\ peers' = peers
  BY DEF RegisterRelay
<1>2. /\ registered' \in [Node -> SUBSET Node] /\ registered'[n] = registered[n] \cup {p}
      /\ \A q \in Node : q # n => registered'[q] = registered[q]
  <2>1. registered' = [registered EXCEPT ![n] = registered[n] \cup {p}]
    BY DEF RegisterRelay
  <2> QED BY <2>1 DEF ConnTypes
<1>3. /\ online' \in [Node -> SUBSET Node] /\ online'[n] = online[n] \cup ({p} \cap peers[n])
      /\ \A q \in Node : q # n => online'[q] = online[q]
  <2>1. online' = [online EXCEPT ![n] = online[n] \cup ({p} \cap peers[n])]
    BY DEF RegisterRelay
  <2> QED BY <2>1 DEF ConnTypes
<1>4. ConnTypes'
  BY <1>1, <1>2, <1>3 DEF ConnTypes, EndTypes
<1>5. TrackedIsLive' /\ HelloIsSent' /\ NoOrphanSocket' /\ PeersAreSockets'
  BY <1>1 DEF TrackedIsLive, HelloIsSent, NoOrphanSocket, PeersAreSockets
<1>6. ConnectedRelayOnline'
  BY <1>1, <1>2, <1>3 DEF ConnectedRelayOnline
<1> QED BY <1>4, <1>5, <1>6

\* A step that touches no end, no HELLO and nothing of a node keeps it all.
LEMMA BystanderMove ==
  ASSUME ConnInv, UNCHANGED <<end, hello, sockets, stopped, nodeVars>>
  PROVE  ConnInv'
<1>1. /\ end' = end /\ hello' = hello /\ sockets' = sockets /\ stopped' = stopped
      /\ peers' = peers /\ registered' = registered /\ online' = online
  BY DEF nodeVars
<1>2. ConnTypes'
  BY <1>1 DEF ConnInv, ConnTypes, EndTypes
<1>3. TrackedIsLive' /\ HelloIsSent' /\ NoOrphanSocket'
  BY <1>1 DEF ConnInv, TrackedIsLive, HelloIsSent, NoOrphanSocket
<1>4. PeersAreSockets' /\ ConnectedRelayOnline'
  BY <1>1 DEF ConnInv, PeersAreSockets, ConnectedRelayOnline
<1> QED BY <1>2, <1>3, <1>4 DEF ConnInv
LEMMA ConnInit ==
  ASSUME ConnAssumption, Init
  PROVE  ConnInv
<1>1. EndTypes(end)
  BY DEF Init, EndTypes, EndState
<1>2. /\ sockets \in [Node -> [Node -> Conn \cup {None}]] /\ \A n, p \in Node : sockets[n][p] = None
      /\ \A n \in Node : peers[n] = {}
  BY DEF Init
<1>3. ConnTypes
  <2>1. peers \in [Node -> SUBSET Node] /\ registered \in [Node -> SUBSET Node] /\ online \in [Node -> SUBSET Node]
    BY DEF Init
  <2> QED BY <1>1, <1>2, <2>1 DEF ConnTypes
<1>4. \A c \in Conn : \A n \in Ends(c) : end[c][n] = "none" /\ <<c, n>> \notin hello
  BY DEF Init
<1>5. TrackedIsLive /\ HelloIsSent /\ NoOrphanSocket
  BY <1>2, <1>4 DEF TrackedIsLive, HelloIsSent, NoOrphanSocket
<1>6. PeersAreSockets /\ ConnectedRelayOnline
  BY <1>2 DEF PeersAreSockets, ConnectedRelayOnline
<1> QED BY <1>3, <1>5, <1>6 DEF ConnInv

LEMMA ConnStep ==
  ASSUME ConnAssumption, ConnInv, [Next]_vars
  PROVE  ConnInv'
<1>1. ASSUME NEW c \in Conn, Dial(c) PROVE ConnInv'
  BY <1>1, UntrackedMove, TwoEnds DEF Dial, Ends, EndState
<1>2. ASSUME NEW c \in Conn, Connected(c) PROVE ConnInv'
  <2>1. c.from \in Ends(c) /\ Other(c, c.from) = c.to /\ "pending" \in EndState \ {"none", "known"}
    BY DEF Ends, EndState, Other
  <2>2. \A d \in Conn : \A m \in Ends(d) :
          <<d, m>> \in hello' => <<d, m>> \in hello \/ (d = c /\ m = Other(c, c.from) /\ "pending" # "dialing")
    BY <1>2, <2>1 DEF Connected
  <2>3. /\ end' = [end EXCEPT ![c][c.from] = "pending"] /\ end[c][c.from] = "dialing"
        /\ UNCHANGED <<sockets, stopped, nodeVars>>
    BY <1>2 DEF Connected
  <2> QED BY <2>1, <2>2, <2>3, UntrackedMove
<1>3. ASSUME NEW c \in Conn, Accept(c) PROVE ConnInv'
  <2>1. c.to \in Ends(c) /\ Other(c, c.to) = c.from /\ "pending" \in EndState \ {"none", "known"}
    BY DEF Ends, EndState, Other, ConnAssumption
  <2>2. \A d \in Conn : \A m \in Ends(d) :
          <<d, m>> \in hello' => <<d, m>> \in hello \/ (d = c /\ m = Other(c, c.to) /\ "pending" # "dialing")
    BY <1>3, <2>1 DEF Accept
  <2>3. /\ end' = [end EXCEPT ![c][c.to] = "pending"] /\ end[c][c.to] = "none"
        /\ UNCHANGED <<sockets, stopped, nodeVars>>
    BY <1>3 DEF Accept
  <2> QED BY <2>1, <2>2, <2>3, UntrackedMove
<1>4. ASSUME NEW c \in Conn, NetworkFails(c) PROVE ConnInv'
  BY <1>4, BystanderMove DEF NetworkFails
<1>5. ASSUME NEW c \in Conn, ConnectTimeout(c) PROVE ConnInv'
  <2>1. CASE end[c][c.from] \in {"dialing", "pending"}
    <3>1. c.from \in Ends(c) /\ "dying" \in EndState \ {"none", "known"}
      BY DEF Ends, EndState
    <3>2. /\ end' = [end EXCEPT ![c][c.from] = "dying"] /\ hello' = hello
          /\ UNCHANGED <<sockets, stopped, nodeVars>>
      BY <1>5, <2>1 DEF ConnectTimeout
    <3> QED BY <2>1, <3>1, <3>2, UntrackedMove
  <2>2. CASE end[c][c.from] \notin {"dialing", "pending"}
    <3>1. end' = [end EXCEPT ![c][c.from] = end[c][c.from]]
      BY <1>5, <2>2 DEF ConnectTimeout
    <3>2. end = [d \in Conn |-> end[d]] /\ end[c] = [m \in Ends(c) |-> end[c][m]]
      BY DEF ConnInv, ConnTypes, EndTypes
    <3>3. [end[c] EXCEPT ![c.from] = end[c][c.from]] = end[c]
      BY <3>2
    <3>4. end' = [end EXCEPT ![c] = end[c]]
      BY <3>1, <3>3
    <3>5. end' = end
      BY <3>2, <3>4
    <3> QED BY <1>5, <3>5, BystanderMove DEF ConnectTimeout
  <2> QED BY <2>1, <2>2
<1>6. ASSUME NEW c \in Conn, ConnectRefused(c) PROVE ConnInv'
  BY <1>6, UntrackedMove DEF ConnectRefused, Ends, EndState
<1>7. ASSUME NEW c \in Conn, NEW n \in Ends(c), ReadHello(c, n) PROVE ConnInv'
  BY <1>7, HelloMove
<1>8. ASSUME NEW c \in Conn, NEW n \in Ends(c), ConnectionLost(c, n) PROVE ConnInv'
  BY <1>8, CloseMove DEF ConnectionLost
<1>9. ASSUME NEW c \in Conn, NEW n \in Ends(c), CloseEvent(c, n) PROVE ConnInv'
  BY <1>9, CloseMove DEF CloseEvent
<1>10. ASSUME NEW n \in Node, Stop(n) PROVE ConnInv'
  BY <1>10, StopMove
<1>11. ASSUME NEW n \in Node, NEW p \in Node, RegisterRelay(n, p) PROVE ConnInv'
  BY <1>11, RegisterMove
<1>12. CASE UNCHANGED vars
  BY <1>12, BystanderMove DEF vars
<1> QED BY <1>1, <1>2, <1>3, <1>4, <1>5, <1>6, <1>7, <1>8, <1>9, <1>10, <1>11, <1>12 DEF Next

\* With nothing left to handle, what one end tracks the other end tracks: it was
\* identified, nobody closed it, so the other end identified it as well.
LEMMA QuietAgreement ==
  ASSUME ConnAssumption, ConnInv
  PROVE  EndsAgreeWhenQuiet
<1> USE DEF ConnInv
<1> SUFFICES ASSUME Quiet
             PROVE  \A n, p \in Node \ stopped : sockets[n][p] = sockets[p][n]
  BY DEF EndsAgreeWhenQuiet
<1>1. ASSUME NEW n \in Node, NEW p \in Node, sockets[n][p] # None
      PROVE  sockets[p][n] = sockets[n][p]
  <2> DEFINE c == sockets[n][p]
  <2>1. c \in Conn /\ n \in Ends(c) /\ Other(c, n) = p
    BY <1>1, Tracked
  <2>2. end[c][n] \in {"known", "dying"}
    BY <1>1 DEF TrackedIsLive
  <2> HIDE DEF c
  <2>3. end[c][n] = "known" /\ ~Lost(c, n)
    BY <2>1, <2>2 DEF Quiet
  <2>4. p \in Ends(c) /\ Other(c, p) = n
    BY <2>1, TwoEnds
  <2>5. end[c][p] \notin {"none", "dialing", "dying", "closed"}
    BY <2>1, <2>3 DEF HelloIsSent, Lost
  <2>6. end[c][p] = "known"
    BY <2>1, <2>4, <2>5 DEF Quiet
  <2>7. sockets[p][n] = c
    BY <2>1, <2>4, <2>6 DEF NoOrphanSocket
  <2> QED BY <2>7 DEF c
<1> QED BY <1>1

\* For any nodes and connections, whatever the order of dials, HELLOs, closes,
\* time-outs, failures and stops: wireSocket() and cleanup() leave no identified
\* socket behind, the node's peers are the tracked connections, a connected relay
\* is online, and two running nodes with nothing left to handle agree on the
\* connection between them.
THEOREM SocketsTracked ==
  ASSUME ConnAssumption
  PROVE  Spec => [](NoOrphanSocket /\ PeersAreSockets /\ ConnectedRelayOnline /\ EndsAgreeWhenQuiet)
<1>1. Init => ConnInv
  BY ConnInit
<1>2. ConnInv /\ [Next]_vars => ConnInv'
  BY ConnStep
<1>3. ConnInv => NoOrphanSocket /\ PeersAreSockets /\ ConnectedRelayOnline /\ EndsAgreeWhenQuiet
  BY QuietAgreement DEF ConnInv
<1> QED BY <1>1, <1>2, <1>3, PTL DEF Spec
=============================================================================
