--------------------------- MODULE DistanceVector ---------------------------
(***************************************************************************)
(* The distance-vector routing of the mesh: every node's RoutingTable and  *)
(* the ROUTE_ANNOUNCE packets neighbours exchange when a connection comes  *)
(* up, goes down, or a received announcement changes a table.              *)
(*                                                                         *)
(*   node/src/routing-table.ts  RoutingTable                               *)
(*   node/src/node.ts           addTransport() callbacks, announceRoutes(),*)
(*                              broadcastWithdrawal(), handleRouteAnnounce *)
(*                                                                         *)
(* A connection is seen by its two ends at different times; announcements  *)
(* between two connected nodes arrive in order (one TCP stream, all at     *)
(* Priority.CONTROL).  Tables are far below their bound of 4096 here.      *)
(***************************************************************************)
EXTENDS Integers, Sequences, FiniteSets

CONSTANTS
  Node,
  Edge,        \* the pairs <<n, m>> that may connect, both directions
  MaxCost,     \* DEFAULT_MAX_COST
  MaxEvents,   \* bound on the number of connections made or broken
  InitLinks,   \* links up in the initial, converged state
  InitRoutes,  \* the tables of that state
  NoRoute      \* bestRoute() = undefined

\* What the constants are assumed to be.
ConstantsAssumption ==
  /\ Edge \subseteq {e \in Node \X Node : e[1] # e[2]}
  /\ \A e \in Edge : <<e[2], e[1]>> \in Edge
  /\ MaxCost \in Nat \ {0}
  /\ MaxEvents \in Nat
  /\ NoRoute \notin [nextHop : Node, cost : 1..MaxCost]

VARIABLES
  link,    \* edges (both directions) with a working connection under them
  due,     \* <<n, m>>: n has not read the HELLO of that connection yet
  up,      \* <<n, m>>: n's node has had onPeerConnected(m), no disconnect yet
  chan,    \* [Edge -> Seq of announcements], in transit
  routes,  \* [Node -> [Node -> route or NoRoute]]
  events,
  renewed  \* <<n, m>>: n had onPeerConnected(m) again while it listed m; history

vars == <<link, due, up, chan, routes, events, renewed>>

Withdrawn == -1   \* cost: null

Peers(n) == {m \in Node : <<n, m>> \in up}

Route == [nextHop : Node, cost : 1..MaxCost]

\* Mutant of Offer: the latest offer wins, better or not.
OfferLatest(r, d, via, cost) ==
  IF \/ d = via /\ cost # 1
     \/ cost <= 0 \/ cost > MaxCost
     \/ r # NoRoute /\ r.nextHop = d
  THEN r
  ELSE [nextHop |-> via, cost |-> cost]

\* RoutingTable.offer(): the entry for d after via offered it at cost.
Offer(r, d, via, cost) ==
  IF \/ d = via /\ cost # 1
     \/ cost <= 0 \/ cost > MaxCost
     \/ r # NoRoute /\ r.nextHop = via /\ r.cost = cost
     \/ r # NoRoute /\ r.nextHop # via /\ r.cost <= cost
  THEN r
  ELSE [nextHop |-> via, cost |-> cost]

\* RoutingTable.withdraw(): the entry after via withdrew its destination.
Withdraw(r, via) == IF r # NoRoute /\ r.nextHop = via THEN NoRoute ELSE r

\* The destinations of dests a table may advertise to peer.
SplitHorizon(table, peer, dests) ==
  {d \in dests \ {peer} : table[d] # NoRoute /\ table[d].nextHop # peer}

\* The payload of announceRoutes(): known destinations with their cost.
Announcement(table, peer, dests) ==
  [d \in SplitHorizon(table, peer, dests) |-> table[d].cost]

\* The same, for a full announcement: this node itself is advertised at 0.
FullAnnouncement(n, table, peer) ==
  [d \in SplitHorizon(table, peer, Node \ {n}) \cup {n} |->
     IF d = n THEN 0 ELSE table[d].cost]

\* An empty payload is not sent.
Packet(payload) == IF DOMAIN payload = {} THEN <<>> ELSE <<payload>>

\* sendToPeer(): n sends the packets msgs[p] to every peer p of the domain; a
\* broken connection loses what is sent on it, and so does one that is being
\* replaced: n uses the new one of open once it has read its HELLO.
SendAll(c, n, open, msgs) ==
  [e \in Edge |-> IF e[1] = n /\ e \in open /\ e[2] \in DOMAIN msgs
                  THEN c[e] \o msgs[e[2]]
                  ELSE c[e]]

\* broadcastWithdrawal(): dests are no longer reachable via this node.
Withdrawal(dests) == [d \in dests |-> Withdrawn]

-----------------------------------------------------------------------------
Ends(n, m) == {<<n, m>>, <<m, n>>}

\* A connection is made: the first one, one after a break that an end may not have
\* noticed yet, or a second one that replaces the first. What was not read of the old
\* one is lost.
LinkUp(n, m) ==
  /\ events < MaxEvents
  /\ <<n, m>> \in Edge
  /\ Ends(n, m) \cap due = {}
  /\ link' = link \cup Ends(n, m)
  /\ due' = due \cup Ends(n, m)
  /\ chan' = [chan EXCEPT ![<<n, m>>] = <<>>, ![<<m, n>>] = <<>>]
  /\ events' = events + 1
  /\ UNCHANGED <<up, routes, renewed>>

\* The connection breaks; neither end has noticed yet.
LinkDown(n, m) ==
  /\ events < MaxEvents
  /\ <<n, m>> \in link
  /\ link' = link \ Ends(n, m)
  /\ due' = due \ Ends(n, m)
  /\ events' = events + 1
  /\ UNCHANGED <<up, chan, routes, renewed>>

\* onPeerConnected at n: the direct route, the full table to the new peer, and
\* the new neighbour to everybody else if it changed the table. A peer that is still
\* listed is connected anew like any other: the routes via it stay.
PeerConnected(n, m) ==
  LET r     == Offer(routes[n][m], m, m, 1)
      table == [routes[n] EXCEPT ![m] = r]
      news  == IF r = routes[n][m] THEN {} ELSE {m}
  IN
  /\ <<n, m>> \in due
  /\ due' = due \ {<<n, m>>}
  /\ up' = up \cup {<<n, m>>}
  /\ renewed' = renewed \cup ({<<n, m>>} \cap up)
  /\ routes' = [routes EXCEPT ![n] = table]
  /\ chan' = SendAll(chan, n, link \ due',
               [p \in Peers(n) \cup {m} |->
                  IF p = m THEN Packet(FullAnnouncement(n, table, m))
                  ELSE Packet(Announcement(table, p, news))])
  /\ UNCHANGED <<link, events>>

\* n finds the connection to m it had dead: broken, or replaced and not read yet.
LosesPeer(n, m) ==
  /\ <<n, m>> \in up
  /\ <<n, m>> \notin link \ due

\* What n had not read of a dead connection is gone.
Unread(n, m) == IF <<n, m>> \in link THEN chan ELSE [chan EXCEPT ![<<m, n>>] = <<>>]

\* onPeerDisconnected at n: removeRoutesVia() and the withdrawal of what it
\* removed.
PeerDisconnected(n, m) ==
  LET removed == {d \in Node : routes[n][d] # NoRoute /\ routes[n][d].nextHop = m} IN
  /\ LosesPeer(n, m)
  /\ up' = up \ {<<n, m>>}
  /\ renewed' = renewed \ {<<n, m>>}
  /\ routes' = [routes EXCEPT ![n] = [d \in Node |-> Withdraw(@[d], m)]]
  /\ chan' = SendAll(Unread(n, m), n, link \ due,
               [p \in Peers(n) \ {m} |-> Packet(Withdrawal(removed))])
  /\ UNCHANGED <<link, due, events>>

\* The destinations whose entry an announcement changed (changed, withdrawn).
Touched(old, table, routed) == {d \in DOMAIN routed : table[d] # old[d]}

\* handleRouteAnnounce at n: apply every entry, then re-advertise what changed
\* and withdraw what was withdrawn, to everybody but the announcer.
HandleRouteAnnounce(n, m) ==
  LET routed    == Head(chan[<<m, n>>])
      old       == routes[n]
      table     == [d \in Node |->
                      IF d = n \/ d \notin DOMAIN routed THEN old[d]
                      ELSE IF routed[d] = Withdrawn THEN Withdraw(old[d], m)
                      ELSE Offer(old[d], d, m, routed[d] + 1)]
      touched   == Touched(old, table, routed)
      withdrawn == {d \in touched : routed[d] = Withdrawn}
  IN
  /\ <<n, m>> \in up \ due
  /\ chan[<<m, n>>] # <<>>
  /\ routes' = [routes EXCEPT ![n] = table]
  /\ chan' = SendAll([chan EXCEPT ![<<m, n>>] = Tail(@)], n, link \ due,
               [p \in Peers(n) \ {m} |->
                  Packet(Announcement(table, p, touched \ withdrawn))
                    \o Packet(Withdrawal(withdrawn))])
  /\ UNCHANGED <<link, due, up, events, renewed>>

-----------------------------------------------------------------------------
Init ==
  /\ link = InitLinks
  /\ up = InitLinks
  /\ due = {}
  /\ renewed = {}
  /\ chan = [e \in Edge |-> <<>>]
  /\ routes = InitRoutes
  /\ events = 0

Next == \E n, m \in Node :
  \/ LinkUp(n, m)
  \/ LinkDown(n, m)
  \/ PeerConnected(n, m)
  \/ PeerDisconnected(n, m)
  \/ HandleRouteAnnounce(n, m)

Spec == Init /\ [][Next]_vars

-----------------------------------------------------------------------------
\* Every route is a neighbour and a cost within maxCost; an announcement never
\* costs more than that.
TypeOK ==
  /\ link \subseteq Edge /\ due \subseteq link
  /\ up \subseteq Edge /\ renewed \subseteq Edge
  /\ routes \in [Node -> [Node -> Route \cup {NoRoute}]]
  /\ \A e \in Edge : \A i \in DOMAIN chan[e] :
       \A d \in DOMAIN chan[e][i] :
         d \in Node /\ chan[e][i][d] \in {Withdrawn} \cup 0..MaxCost

\* The next hop of every route is a peer the node is connected to: a routed
\* send has a transport to go to.
NextHopConnected ==
  \A n, d \in Node : routes[n][d] # NoRoute => routes[n][d].nextHop \in Peers(n)

\* A node that is connected to a peer has the direct route to it: no
\* announcement, however late, replaces or removes it.
NeighbourRouted ==
  \A e \in up : routes[e[1]][e[2]] = [nextHop |-> e[2], cost |-> 1]

\* The route of n for d, if it does not go through a peer that was connected anew
\* while n still listed it: what that peer said before is not forgotten then.
Routed(n, d) ==
  routes[n][d] # NoRoute /\ <<n, routes[n][d].nextHop>> \notin renewed

\* Two directly connected nodes do not route through each other once the
\* announcements between them have been read (split horizon), with the same
\* exception.
NoTwoNodeLoop ==
  \A e \in up \cap link :
    LET n == e[1]
        m == e[2]
    IN
    chan[<<n, m>>] = <<>> /\ chan[<<m, n>>] = <<>> /\ <<m, n>> \in up /\ Ends(n, m) \cap due = {}
      => \A d \in Node : ~ /\ Routed(n, d) /\ routes[n][d].nextHop = m
                           /\ Routed(m, d) /\ routes[m][d].nextHop = n

\* Once the topology stops changing, the announcements die out: triggered
\* updates do not chase each other round a ring for ever, whoever is slow.
AnnouncementsDieOut == <>[][FALSE]_vars
=============================================================================
