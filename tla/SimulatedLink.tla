--------------------------- MODULE SimulatedLink ---------------------------
(***************************************************************************)
(* SimulatedLinkTransport, the link under the BLE and LoRa transports: an  *)
(* entry per connection at each end, identified by the first packet that   *)
(* arrives over it, a cap on identified peers, a cap on handshakes, and    *)
(* closes that reach both ends at once.  Packets take time, stop() and     *)
(* connects from both sides cross them.                                    *)
(***************************************************************************)
EXTENDS Naturals, SequenceTheorems, FiniteSets, TLAPS

CONSTANTS
  Nodes,
  MaxConnections,   \* maxConnections
  MaxPending,       \* MAX_PENDING_CONNECTIONS
  MaxConns,         \* bound: calls of connect()
  MaxStops          \* bound: calls of stop()

VARIABLES
  started,    \* per node
  conns,      \* connections so far: [from, to], by connectionId
  byId,       \* connectionsById: per node, the connections it has an entry for
  byPeer,     \* connectionsByPeerId: per node and peer, a connection or 0
  promise,    \* per connection, the promise of its connect()
  greeted,    \* helloSent: <<connection, node>>
  air,        \* packets under way: [conn, to]
  told,       \* per node, the peers its handlers believe connected
  stops

vars == <<started, conns, byId, byPeer, promise, greeted, air, told, stops>>

Other(c, n) == IF conns[c].from = n THEN conns[c].to ELSE conns[c].from
Identified(n) == {p \in Nodes : byPeer[n][p] # 0}
PendingCount(n) == Cardinality(byId[n]) - Cardinality(Identified(n))

Init ==
  /\ started = [n \in Nodes |-> TRUE] /\ conns = <<>> /\ promise = <<>>
  /\ byId = [n \in Nodes |-> {}] /\ byPeer = [n \in Nodes |-> [p \in Nodes |-> 0]]
  /\ greeted = {} /\ air = {} /\ told = [n \in Nodes |-> {}] /\ stops = 0

-----------------------------------------------------------------------------
(* closeConnection() and handleRemoteClose(): both ends at once. *)

ByIdWithout(C)   == [n \in Nodes |-> byId[n] \ C]
ByPeerWithout(C) == [n \in Nodes |-> [p \in Nodes |-> IF byPeer[n][p] \in C THEN 0 ELSE byPeer[n][p]]]
\* As if only the side that closes told its handlers.
ToldSilent(C) == told
ToldWithout(C)   == [n \in Nodes |-> {p \in told[n] : byPeer[n][p] \notin C}]
Rejected(C)      == [c \in DOMAIN promise |->
                       IF c \in C /\ promise[c] = "pending" THEN "rejected" ELSE promise[c]]

Close(C) ==
  /\ byId' = ByIdWithout(C) /\ byPeer' = ByPeerWithout(C)
  /\ told' = ToldWithout(C) /\ promise' = Rejected(C)

-----------------------------------------------------------------------------
(* Operations. *)

\* connect() and the other side's acceptConnection(); a refused call changes
\* nothing.
Connect(n, p) ==
  /\ n # p /\ started[n] /\ started[p] /\ Len(conns) < MaxConns
  /\ PendingCount(n) < MaxPending /\ PendingCount(p) < MaxPending
  /\ LET c == Len(conns) + 1 IN
     /\ conns' = Append(conns, [from |-> n, to |-> p])
     /\ byId' = [byId EXCEPT ![n] = @ \cup {c}, ![p] = @ \cup {c}]
     /\ promise' = Append(promise, "pending")
     /\ greeted' = greeted \cup {<<c, n>>} /\ air' = air \cup {[conn |-> c, to |-> p]}
  /\ UNCHANGED <<started, byPeer, told, stops>>

\* send() to an identified peer.
Send(n, p) ==
  /\ byPeer[n][p] # 0
  /\ air' = air \cup {[conn |-> byPeer[n][p], to |-> p]}
  /\ UNCHANGED <<started, conns, byId, byPeer, promise, greeted, told, stops>>

\* handleIdentified() for a peer that has no room: the connection is closed,
\* and receiveFragment() still hands the packet up, with entry.peerId unset.
Refuse(n, c) == Close({c}) /\ UNCHANGED greeted

\* As if the connection the peer had before were only forgotten.
AdmitForgetting(n, c) ==
  LET p == Other(c, n) IN
  /\ byPeer' = [byPeer EXCEPT ![n][p] = c] /\ told' = [told EXCEPT ![n] = @ \cup {p}]
  /\ promise' = IF conns[c].from = n THEN [promise EXCEPT ![c] = "resolved"] ELSE promise
  /\ greeted' = greeted \cup {<<c, n>>}
  /\ UNCHANGED byId

\* handleIdentified(): the peer's earlier connection goes, at both ends.
Admit(n, c) ==
  LET p == Other(c, n)
      C == {byPeer[n][p]} \ {0}
  IN
  /\ byId' = ByIdWithout(C)
  /\ byPeer' = [ByPeerWithout(C) EXCEPT ![n][p] = c]
  /\ told' = [ToldWithout(C) EXCEPT ![n] = @ \cup {p}]
  /\ promise' = IF conns[c].from = n THEN [Rejected(C) EXCEPT ![c] = "resolved"] ELSE Rejected(C)
  /\ greeted' = greeted \cup {<<c, n>>}

HasRoom(n, p) == byPeer[n][p] # 0 \/ Cardinality(Identified(n)) < MaxConnections

\* receiveFragment() of the last fragment; the accepting side greets once the
\* packet has identified its peer.
Arrive(m) ==
  LET c == m.conn
      n == m.to
      p == Other(c, n)
  IN
  /\ air' = (air \ {m}) \cup
       (IF c \in byId[n] /\ byPeer[n][p] # c /\ HasRoom(n, p) /\ <<c, n>> \notin greeted
        THEN {[conn |-> c, to |-> p]} ELSE {})
  /\ IF c \notin byId[n] \/ byPeer[n][p] = c
     THEN UNCHANGED <<byId, byPeer, told, promise, greeted>>
     ELSE IF HasRoom(n, p) THEN Admit(n, c) ELSE Refuse(n, c)
  /\ UNCHANGED <<started, conns, stops>>

\* CONNECT_TIMEOUT_MS of a connect() that is still pending.
Timeout(c) ==
  /\ promise[c] = "pending"
  /\ Close({c})
  /\ UNCHANGED <<started, conns, greeted, air, stops>>

Stop(n) ==
  /\ started[n] /\ stops < MaxStops
  /\ started' = [started EXCEPT ![n] = FALSE] /\ stops' = stops + 1
  /\ Close(byId[n])
  /\ UNCHANGED <<conns, greeted, air>>

Start(n) ==
  /\ ~started[n] /\ started' = [started EXCEPT ![n] = TRUE]
  /\ UNCHANGED <<conns, byId, byPeer, promise, greeted, air, told, stops>>

Next ==
  \/ \E n \in Nodes : Stop(n) \/ Start(n) \/ \E p \in Nodes : Connect(n, p) \/ Send(n, p)
  \/ \E m \in air : Arrive(m)
  \/ \E c \in DOMAIN conns : Timeout(c)

Spec == Init /\ [][Next]_vars

-----------------------------------------------------------------------------
\* With nothing on the air, two nodes that call each other connected do so over
\* the same connection, and neither is alone in it: connects that cross, a
\* reconnect over a stale link, a refusal and a stop leave no half-open link.
LinkEndsAgree ==
  air = {} => \A n, p \in Nodes : byPeer[n][p] = byPeer[p][n]

\* What the handlers were told is what send() can use, through displacement and
\* refusal alike.
LinkToldIsTrue == \A n \in Nodes : told[n] = Identified(n)

\* "entry.peerId!": a packet that is handed up comes with the id of its peer.
LinkNamesThePeer ==
  [][\A m \in air : (Arrive(m) /\ m.conn \in byId[m.to])
       => byPeer'[m.to][Other(m.conn, m.to)] = m.conn]_vars

-----------------------------------------------------------------------------
(***************************************************************************)
(* For any nodes, caps, connects and stops: with nothing on the air the    *)
(* two ends of a link agree, and the handlers know what send() can use.    *)
(***************************************************************************)

Ends(c) == {conns[c].from, conns[c].to}
PacketTo(c, n) == [conn |-> c, to |-> n]

LinkTypes ==
  /\ conns \in Seq([from : Nodes, to : Nodes])
  /\ \A c \in DOMAIN conns : conns[c].from # conns[c].to
  /\ byId \in [Nodes -> SUBSET DOMAIN conns]
  /\ byPeer \in [Nodes -> [Nodes -> Nat]]
  /\ told \in [Nodes -> SUBSET Nodes]
  /\ \A m \in air : m.conn \in DOMAIN conns /\ m.to \in Ends(m.conn) /\ m = PacketTo(m.conn, m.to)
  /\ \A c, n : <<c, n>> \in greeted => c \in DOMAIN conns

\* An entry is at both ends of its connection or at neither.
TwoEnded == \A n \in Nodes : \A c \in byId[n] : n \in Ends(c) /\ c \in byId[Other(c, n)]

\* A peer is identified over a connection to it that is still there and was greeted.
PeersHaveEntries ==
  \A n, p \in Nodes : byPeer[n][p] # 0 =>
    /\ byPeer[n][p] \in byId[n] /\ Other(byPeer[n][p], n) = p
    /\ <<byPeer[n][p], n>> \in greeted

\* Who has greeted over an open connection is known at the other end, or its
\* packet is on the way.
GreetingArrives ==
  \A n \in Nodes : \A c \in byId[n] : <<c, n>> \in greeted =>
    PacketTo(c, Other(c, n)) \in air \/ byPeer[Other(c, n)][n] = c

LinkInv == LinkTypes /\ TwoEnded /\ PeersHaveEntries /\ GreetingArrives /\ LinkToldIsTrue

LEMMA OtherEnd ==
  ASSUME LinkTypes, NEW c \in DOMAIN conns, NEW n \in Ends(c)
  PROVE  /\ n \in Nodes /\ Other(c, n) \in Nodes /\ Other(c, n) \in Ends(c) /\ Other(c, n) # n
         /\ Other(c, Other(c, n)) = n /\ Ends(c) = {n, Other(c, n)}
         /\ c \in Nat \ {0}
<1>1. c \in 1..Len(conns) /\ conns[c] \in [from : Nodes, to : Nodes] /\ conns[c].from # conns[c].to
  <2>1. conns \in Seq([from : Nodes, to : Nodes]) /\ conns[c].from # conns[c].to
    BY DEF LinkTypes
  <2>2. DOMAIN conns = 1..Len(conns)
    BY <2>1
  <2> QED BY <2>1, <2>2, ElementOfSeq
<1>2. conns[c].from \in Nodes /\ conns[c].to \in Nodes
  BY <1>1
<1>3. Len(conns) \in Nat
  BY DEF LinkTypes
<1> QED BY <1>1, <1>2, <1>3 DEF Ends, Other

\* Connections closed at both ends at once.
LEMMA CloseKeeps ==
  ASSUME LinkInv, NEW C \in SUBSET DOMAIN conns, Close(C), UNCHANGED <<conns, greeted>>,
         NEW m, air' = air \/ (m \in air /\ air' = air \ {m} /\ m.conn \in C)
  PROVE  LinkInv'
<1> USE DEF LinkInv
<1>1. /\ \A n \in Nodes : byId'[n] = byId[n] \ C
      /\ \A n, p \in Nodes : byPeer'[n][p] = IF byPeer[n][p] \in C THEN 0 ELSE byPeer[n][p]
      /\ \A n \in Nodes : told'[n] = {p \in told[n] : byPeer[n][p] \notin C}
  BY DEF Close, ByIdWithout, ByPeerWithout, ToldWithout
<1>2. \A c, n : Other(c, n)' = Other(c, n) /\ Ends(c)' = Ends(c)
  BY DEF Other, Ends
<1>3. LinkTypes'
  <2>1. byId' \in [Nodes -> SUBSET DOMAIN conns]
    BY DEF Close, ByIdWithout, LinkTypes
  <2>2. byPeer' \in [Nodes -> [Nodes -> Nat]]
    BY DEF Close, ByPeerWithout, LinkTypes
  <2>3. told' \in [Nodes -> SUBSET Nodes]
    BY DEF Close, ToldWithout, LinkTypes
  <2> QED BY <1>2, <2>1, <2>2, <2>3 DEF LinkTypes, PacketTo
<1>4. \A n \in Nodes : \A c \in byId[n] : Other(c, n) \in Nodes /\ n \in Ends(c) /\ c \in byId[Other(c, n)]
  BY OtherEnd DEF TwoEnded, LinkTypes
<1>5. TwoEnded'
  BY <1>1, <1>2, <1>4 DEF TwoEnded
<1>6. PeersHaveEntries'
  BY <1>1, <1>2 DEF PeersHaveEntries
<1>7. GreetingArrives'
  <2> SUFFICES ASSUME NEW n \in Nodes, NEW c \in byId[n], c \notin C, <<c, n>> \in greeted
               PROVE  PacketTo(c, Other(c, n)) \in air' \/ byPeer'[Other(c, n)][n] = c
    BY <1>1, <1>2 DEF GreetingArrives, PacketTo
  <2>1. CASE PacketTo(c, Other(c, n)) \in air
    BY <2>1 DEF PacketTo
  <2>2. CASE byPeer[Other(c, n)][n] = c
    BY <1>1, <1>4, <2>2
  <2> QED BY <2>1, <2>2 DEF GreetingArrives
<1>8. LinkToldIsTrue'
  <2>1. 0 \notin C
    BY DEF LinkTypes
  <2> QED BY <1>1, <2>1 DEF LinkToldIsTrue, Identified, LinkTypes
<1> QED BY <1>3, <1>5, <1>6, <1>7, <1>8

\* A connection appears at both ends, and one of them greets.
LEMMA ConnectKeeps ==
  ASSUME LinkInv, NEW n \in Nodes, NEW p \in Nodes, Connect(n, p)
  PROVE  LinkInv'
<1> USE DEF LinkInv
<1> DEFINE r == [from |-> n, to |-> p]
<1>0. PICK d : d = Len(conns) + 1
  OBVIOUS
<1>1. /\ n # p /\ conns' = Append(conns, r)
      /\ byId' = [byId EXCEPT ![n] = @ \cup {d}, ![p] = @ \cup {d}]
      /\ greeted' = greeted \cup {<<d, n>>} /\ air' = air \cup {PacketTo(d, p)}
      /\ UNCHANGED <<byPeer, told>>
  BY <1>0 DEF Connect, PacketTo
<1>2. /\ r \in [from : Nodes, to : Nodes] /\ r.from = n /\ r.to = p
      /\ conns \in Seq([from : Nodes, to : Nodes]) /\ Len(conns) \in Nat /\ DOMAIN conns = 1..Len(conns)
  BY DEF LinkTypes
<1> HIDE DEF r
<1>3. /\ conns' \in Seq([from : Nodes, to : Nodes]) /\ DOMAIN conns' = DOMAIN conns \cup {d}
      /\ d \notin DOMAIN conns /\ conns'[d] = r /\ \A c \in DOMAIN conns : conns'[c] = conns[c]
  BY <1>0, <1>1, <1>2, AppendProperties
<1>4. /\ \A c \in DOMAIN conns : Ends(c)' = Ends(c) /\ \A q : Other(c, q)' = Other(c, q)
      /\ Ends(d)' = {n, p} /\ Other(d, n)' = p /\ Other(d, p)' = n
  BY <1>1, <1>2, <1>3 DEF Ends, Other
<1>5. /\ byId' \in [Nodes -> SUBSET DOMAIN conns']
      /\ \A q \in Nodes : byId'[q] = IF q \in {n, p} THEN byId[q] \cup {d} ELSE byId[q]
      /\ \A q \in Nodes : byId[q] \subseteq DOMAIN conns
  BY <1>1, <1>3 DEF LinkTypes
<1>6. LinkTypes'
  <2>1. \A m \in air' : m.conn \in DOMAIN conns' /\ m.to \in Ends(m.conn)' /\ m = PacketTo(m.conn, m.to)
    BY <1>1, <1>3, <1>4 DEF LinkTypes, PacketTo
  <2>2. \A c \in DOMAIN conns' : conns'[c].from # conns'[c].to
    BY <1>1, <1>2, <1>3 DEF LinkTypes
  <2>3. \A c, q : <<c, q>> \in greeted' => c \in DOMAIN conns'
    BY <1>1, <1>3 DEF LinkTypes
  <2> QED BY <1>1, <1>3, <1>5, <2>1, <2>2, <2>3 DEF LinkTypes, PacketTo
<1>7. \A q \in Nodes : \A c \in byId[q] : Other(c, q) \in Nodes /\ q \in Ends(c) /\ c \in byId[Other(c, q)]
  BY OtherEnd DEF TwoEnded, LinkTypes
<1>8. TwoEnded'
  <2> SUFFICES ASSUME NEW q \in Nodes, NEW c \in byId'[q]
               PROVE  q \in Ends(c)' /\ c \in byId'[Other(c, q)']
    BY DEF TwoEnded
  <2>1. CASE c = d
    BY <1>1, <1>3, <1>4, <1>5, <2>1
  <2>2. CASE c # d
    <3>1. c \in byId[q] /\ c \in DOMAIN conns
      BY <1>5, <2>2
    <3> QED BY <1>4, <1>5, <1>7, <3>1
  <2> QED BY <2>1, <2>2
<1>9. PeersHaveEntries'
  BY <1>1, <1>4, <1>5 DEF PeersHaveEntries
<1>10. GreetingArrives'
  <2> SUFFICES ASSUME NEW q \in Nodes, NEW c \in byId'[q], <<c, q>> \in greeted'
               PROVE  PacketTo(c, Other(c, q)') \in air' \/ byPeer'[Other(c, q)'][q] = c
    BY DEF GreetingArrives, PacketTo
  <2>1. CASE c = d /\ q = n
    BY <1>1, <1>4, <2>1
  <2>2. CASE c = d /\ q # n
    BY <1>1, <1>3, <2>2 DEF LinkTypes
  <2>3. CASE c # d
    <3>1. c \in byId[q] /\ c \in DOMAIN conns /\ <<c, q>> \in greeted
      BY <1>1, <1>5, <2>3
    <3> QED BY <1>1, <1>4, <3>1 DEF GreetingArrives
  <2> QED BY <2>1, <2>2, <2>3
<1>11. LinkToldIsTrue'
  BY <1>1 DEF LinkToldIsTrue, Identified
<1> QED BY <1>6, <1>8, <1>9, <1>10, <1>11

\* A packet identifies its connection, in the place of the one the peer had.
LEMMA AdmitKeeps ==
  ASSUME LinkInv, NEW n \in Nodes, NEW c \in byId[n], PacketTo(c, n) \in air,
         byPeer[n][Other(c, n)] # c, Admit(n, c), UNCHANGED conns,
         air' = (air \ {PacketTo(c, n)}) \cup
                  (IF <<c, n>> \notin greeted THEN {PacketTo(c, Other(c, n))} ELSE {})
  PROVE  LinkInv'
<1> USE DEF LinkInv
<1> DEFINE p == Other(c, n)
           C == {byPeer[n][p]} \ {0}
<1>1. /\ byId' = ByIdWithout(C)
      /\ byPeer' = [ByPeerWithout(C) EXCEPT ![n][p] = c]
      /\ told' = [ToldWithout(C) EXCEPT ![n] = @ \cup {p}]
      /\ greeted' = greeted \cup {<<c, n>>}
  BY DEF Admit
<1>2. ASSUME NEW q \in Nodes, NEW x \in byId[q]
      PROVE  /\ Other(x, q) \in Nodes /\ q \in Ends(x) /\ x \in byId[Other(x, q)]
             /\ Other(x, q) # q /\ Other(x, Other(x, q)) = q /\ Other(x, q) \in Ends(x)
             /\ x \in DOMAIN conns /\ x \in Nat /\ x # 0
  <2>1. x \in DOMAIN conns /\ q \in Ends(x) /\ x \in byId[Other(x, q)]
    BY DEF TwoEnded, LinkTypes
  <2> QED BY <2>1, OtherEnd
<1>3. p \in Nodes /\ p # n /\ c \in DOMAIN conns /\ c # 0 /\ c \notin C /\ c \in byId[p] /\ Other(c, p) = n
  BY <1>2
<1>4. C \subseteq DOMAIN conns /\ 0 \notin C
  <2>1. byPeer[n][p] # 0 => byPeer[n][p] \in byId[n]
    BY <1>3 DEF PeersHaveEntries
  <2> QED BY <1>2, <2>1
<1> HIDE DEF p, C
<1>5. \A q \in Nodes : byId'[q] = byId[q] \ C
  BY <1>1 DEF ByIdWithout
<1>6. /\ byPeer' \in [Nodes -> [Nodes -> Nat]]
      /\ \A q, s \in Nodes : byPeer'[q][s] = IF q = n /\ s = p THEN c
                                             ELSE IF byPeer[q][s] \in C THEN 0 ELSE byPeer[q][s]
  <2>1. ByPeerWithout(C) \in [Nodes -> [Nodes -> Nat]]
    BY DEF ByPeerWithout, LinkTypes
  <2>2. \A q, s \in Nodes : ByPeerWithout(C)[q][s] = IF byPeer[q][s] \in C THEN 0 ELSE byPeer[q][s]
    BY DEF ByPeerWithout
  <2> QED BY <1>1, <1>2, <1>3, <2>1, <2>2
<1>7. /\ told' \in [Nodes -> SUBSET Nodes]
      /\ \A q \in Nodes : told'[q] = {s \in told[q] : byPeer[q][s] \notin C} \cup (IF q = n THEN {p} ELSE {})
  BY <1>1, <1>3 DEF ToldWithout, LinkTypes
<1>8. \A x, q : Other(x, q)' = Other(x, q) /\ Ends(x)' = Ends(x)
  BY DEF Other, Ends
<1>9. LinkTypes'
  <2>1. byId' \in [Nodes -> SUBSET DOMAIN conns]
    BY <1>1 DEF ByIdWithout, LinkTypes
  <2>2. \A m \in air' : m.conn \in DOMAIN conns /\ m.to \in Ends(m.conn) /\ m = PacketTo(m.conn, m.to)
    <3>1. p \in Ends(c)
      BY <1>2 DEF p
    <3>2. ASSUME NEW m \in air'
          PROVE  m \in air \/ m = PacketTo(c, p)
      BY <3>2 DEF p
    <3>3. /\ PacketTo(c, p) = PacketTo(PacketTo(c, p).conn, PacketTo(c, p).to)
          /\ PacketTo(c, p).conn = c /\ PacketTo(c, p).to = p
      BY DEF PacketTo
    <3>4. \A m \in air : m.conn \in DOMAIN conns /\ m.to \in Ends(m.conn) /\ m = PacketTo(m.conn, m.to)
      BY DEF LinkTypes
    <3> QED BY <1>3, <3>1, <3>2, <3>3, <3>4
  <2>3. \A x, q : <<x, q>> \in greeted' => x \in DOMAIN conns
    BY <1>1, <1>3 DEF LinkTypes
  <2>4. \A m \in air' : m.conn \in DOMAIN conns /\ m.to \in Ends(m.conn)' /\ m = PacketTo(m.conn, m.to)
    BY <1>8, <2>2
  <2> QED BY <1>6, <1>7, <1>8, <2>1, <2>3, <2>4 DEF LinkTypes, PacketTo
<1>10. TwoEnded'
  BY <1>2, <1>5, <1>8 DEF TwoEnded
<1>11. PeersHaveEntries'
  <2> SUFFICES ASSUME NEW q \in Nodes, NEW s \in Nodes, NEW x, x = byPeer'[q][s], x # 0
               PROVE  x \in byId'[q] /\ Other(x, q) = s /\ <<x, q>> \in greeted'
    BY <1>8 DEF PeersHaveEntries
  <2>1. CASE q = n /\ s = p
    <3>1. x = c
      BY <1>6, <2>1
    <3> QED BY <1>1, <1>3, <1>5, <2>1, <3>1 DEF p
  <2>2. CASE ~(q = n /\ s = p)
    <3>1. byPeer[q][s] = x /\ x \notin C
      BY <1>6, <2>2
    <3> QED BY <1>1, <1>5, <3>1 DEF PeersHaveEntries
  <2> QED BY <2>1, <2>2
<1>12. GreetingArrives'
  <2> SUFFICES ASSUME NEW q \in Nodes, NEW x \in byId'[q], <<x, q>> \in greeted'
               PROVE  PacketTo(x, Other(x, q)) \in air' \/ byPeer'[Other(x, q)][q] = x
    BY <1>8 DEF GreetingArrives, PacketTo
  <2>1. x \in byId[q] /\ x \notin C
    BY <1>5
  <2>2. CASE x = c /\ q = p
    BY <1>3, <1>6, <2>2
  <2>3. CASE x = c /\ q = n /\ <<c, n>> \notin greeted
    BY <2>3
  <2>4. CASE ~(x = c /\ q = p) /\ <<x, q>> \in greeted
    <3>1. PacketTo(x, Other(x, q)) \in air \/ byPeer[Other(x, q)][q] = x
      BY <2>1, <2>4 DEF GreetingArrives
    <3>2. CASE PacketTo(x, Other(x, q)) \in air
      <4>1. PacketTo(x, Other(x, q)) # PacketTo(c, n)
        <5>1. x = c => Other(x, q) # n
          BY <1>2, <1>3, <2>1, <2>4 DEF p
        <5> QED BY <5>1 DEF PacketTo
      <4> QED BY <3>2, <4>1
    <3>3. CASE byPeer[Other(x, q)][q] = x
      <4>1. CASE Other(x, q) = n /\ q = p
        BY <1>2, <2>1, <3>3, <4>1 DEF C
      <4>2. CASE ~(Other(x, q) = n /\ q = p)
        BY <1>2, <1>6, <2>1, <3>3, <4>2
      <4> QED BY <4>1, <4>2
    <3> QED BY <3>1, <3>2, <3>3
  <2> QED BY <1>1, <2>2, <2>3, <2>4
<1>13. LinkToldIsTrue'
  <2>1. ASSUME NEW q \in Nodes
        PROVE  told'[q] = {s \in Nodes : byPeer'[q][s] # 0}
    <3>1. told[q] = {s \in Nodes : byPeer[q][s] # 0}
      BY DEF LinkToldIsTrue, Identified
    <3>2. told'[q] = {s \in told[q] : byPeer[q][s] \notin C} \cup (IF q = n THEN {p} ELSE {})
      BY <1>7
    <3>3. \A s \in Nodes : byPeer'[q][s] # 0 <=> (q = n /\ s = p) \/ (byPeer[q][s] # 0 /\ byPeer[q][s] \notin C)
      BY <1>3, <1>6
    <3> QED BY <1>3, <3>1, <3>2, <3>3
  <2> QED BY <2>1 DEF LinkToldIsTrue, Identified
<1> QED BY <1>9, <1>10, <1>11, <1>12, <1>13

\* A packet arrives: of an end that is gone, of a known peer, of a new one or of
\* one there is no room for.
LEMMA ArriveKeeps ==
  ASSUME LinkInv, NEW m \in air, Arrive(m)
  PROVE  LinkInv'
<1> DEFINE c == m.conn
           n == m.to
           p == Other(c, n)
<1>1. c \in DOMAIN conns /\ n \in Ends(c) /\ m = PacketTo(c, n)
  BY DEF LinkInv, LinkTypes
<1>2. n \in Nodes /\ p \in Nodes /\ p # n /\ Other(c, p) = n
  BY <1>1, OtherEnd DEF LinkInv
<1>3. UNCHANGED <<started, conns, stops>>
  BY DEF Arrive
<1>4. air' = (air \ {m}) \cup
               (IF c \in byId[n] /\ byPeer[n][p] # c /\ HasRoom(n, p) /\ <<c, n>> \notin greeted
                THEN {PacketTo(c, p)} ELSE {})
  BY DEF Arrive, PacketTo
<1>5. CASE c \notin byId[n] \/ byPeer[n][p] = c
  <2>1. UNCHANGED <<byId, byPeer, told, greeted>> /\ air' = air \ {m}
    BY <1>4, <1>5 DEF Arrive
  <2>2. \A x, q : Other(x, q)' = Other(x, q) /\ Ends(x)' = Ends(x)
    BY <1>3 DEF Other, Ends
  <2>3. LinkTypes'
    BY <1>3, <2>1, <2>2 DEF LinkInv, LinkTypes, PacketTo
  <2>5. TwoEnded' /\ PeersHaveEntries' /\ LinkToldIsTrue'
    BY <2>1, <2>2 DEF LinkInv, TwoEnded, PeersHaveEntries, LinkToldIsTrue, Identified
  <2>4. GreetingArrives'
    <3> SUFFICES ASSUME NEW q \in Nodes, NEW x \in byId[q], <<x, q>> \in greeted
                 PROVE  PacketTo(x, Other(x, q)) \in air' \/ byPeer[Other(x, q)][q] = x
      BY <2>1, <2>2 DEF GreetingArrives, PacketTo
    <3>1. PacketTo(x, Other(x, q)) \in air \/ byPeer[Other(x, q)][q] = x
      BY DEF LinkInv, GreetingArrives
    <3>2. CASE PacketTo(x, Other(x, q)) = m
      <4>1. x = c /\ Other(x, q) = n
        BY <1>1, <3>2 DEF PacketTo
      <4>2. q = p /\ c \in byId[n]
        BY <1>1, <4>1, OtherEnd DEF LinkInv, TwoEnded
      <4> QED BY <1>5, <4>1, <4>2
    <3> QED BY <2>1, <3>1, <3>2
  <2> QED BY <2>3, <2>4, <2>5 DEF LinkInv
<1>6. CASE c \in byId[n] /\ byPeer[n][p] # c /\ HasRoom(n, p)
  <2>1. Admit(n, c)
    BY <1>6 DEF Arrive
  <2> QED BY <1>1, <1>2, <1>3, <1>4, <1>6, <2>1, AdmitKeeps
<1>7. CASE c \in byId[n] /\ byPeer[n][p] # c /\ ~HasRoom(n, p)
  <2>1. Close({c}) /\ UNCHANGED greeted
    BY <1>7 DEF Arrive, Refuse
  <2>2. air' = air \ {m}
    BY <1>4, <1>7
  <2>3. {c} \in SUBSET DOMAIN conns
    BY <1>1
  <2> QED BY <1>3, <2>1, <2>2, <2>3, CloseKeeps
<1> QED BY <1>5, <1>6, <1>7

LEMMA LinkSteps ==
  ASSUME LinkInv, [Next]_vars
  PROVE  LinkInv'
<1>1. ASSUME NEW n \in Nodes, Stop(n)
      PROVE  LinkInv'
  <2>1. byId[n] \in SUBSET DOMAIN conns
    BY DEF LinkInv, LinkTypes
  <2>2. Close(byId[n]) /\ UNCHANGED <<conns, greeted, air>>
    BY <1>1 DEF Stop
  <2> QED BY <2>1, <2>2, CloseKeeps
<1>2. ASSUME NEW c \in DOMAIN conns, Timeout(c)
      PROVE  LinkInv'
  <2>1. Close({c}) /\ UNCHANGED <<conns, greeted, air>> /\ {c} \in SUBSET DOMAIN conns
    BY <1>2 DEF Timeout
  <2> QED BY <2>1, CloseKeeps
<1>3. ASSUME UNCHANGED <<conns, byId, byPeer, greeted, told>>, air \subseteq air',
             \A m \in air' \ air : m.conn \in DOMAIN conns /\ m.to \in Ends(m.conn) /\ m = PacketTo(m.conn, m.to)
      PROVE  LinkInv'
  <2>1. \A x, q : Other(x, q)' = Other(x, q) /\ Ends(x)' = Ends(x)
    BY <1>3 DEF Other, Ends
  <2>2. LinkTypes'
    <3>1. \A m \in air' : m.conn \in DOMAIN conns /\ m.to \in Ends(m.conn)' /\ m = PacketTo(m.conn, m.to)
      BY <1>3, <2>1 DEF LinkInv, LinkTypes
    <3> QED BY <1>3, <3>1 DEF LinkInv, LinkTypes, PacketTo
  <2>3. TwoEnded' /\ PeersHaveEntries' /\ LinkToldIsTrue'
    BY <1>3, <2>1 DEF LinkInv, TwoEnded, PeersHaveEntries, LinkToldIsTrue, Identified
  <2>4. GreetingArrives'
    BY <1>3, <2>1 DEF LinkInv, GreetingArrives, PacketTo
  <2> QED BY <2>2, <2>3, <2>4 DEF LinkInv
<1>4. ASSUME NEW n \in Nodes, NEW p \in Nodes, Send(n, p)
      PROVE  LinkInv'
  <2> DEFINE c == byPeer[n][p]
  <2>1. c \in byId[n] /\ Other(c, n) = p
    BY <1>4 DEF Send, LinkInv, PeersHaveEntries
  <2>2. c \in DOMAIN conns /\ p \in Ends(c)
    BY <2>1, OtherEnd DEF LinkInv, LinkTypes, TwoEnded
  <2>3. /\ air' = air \cup {PacketTo(c, p)} /\ UNCHANGED <<conns, byId, byPeer, greeted, told>>
    BY <1>4 DEF Send, PacketTo
  <2>4. PacketTo(c, p).conn = c /\ PacketTo(c, p).to = p
    BY DEF PacketTo
  <2> HIDE DEF c
  <2> QED BY <1>3, <2>2, <2>3, <2>4
<1>5. ASSUME NEW n \in Nodes, Start(n)
      PROVE  LinkInv'
  BY <1>3, <1>5 DEF Start
<1>6. CASE UNCHANGED vars
  BY <1>3, <1>6 DEF vars
<1> QED BY <1>1, <1>2, <1>4, <1>5, <1>6, ConnectKeeps, ArriveKeeps DEF Next

\* No node has a connection at the start.
LEMMA LinkStart == Init => LinkInv
<1> SUFFICES ASSUME Init
             PROVE  LinkInv
  OBVIOUS
<1>1. LinkTypes
  BY DEF Init, LinkTypes
<1> QED BY <1>1 DEF Init, LinkInv, TwoEnded, PeersHaveEntries, GreetingArrives, LinkToldIsTrue, Identified

\* What the invariant says once nothing is on the air.
LEMMA LinkMeans ==
  ASSUME LinkInv
  PROVE  LinkEndsAgree /\ LinkToldIsTrue
<1> SUFFICES ASSUME air = {}
             PROVE  LinkEndsAgree
  BY DEF LinkInv, LinkEndsAgree
<1>1. ASSUME NEW n \in Nodes, NEW p \in Nodes, byPeer[n][p] # 0
      PROVE  byPeer[p][n] = byPeer[n][p]
  BY <1>1 DEF LinkInv, PeersHaveEntries, GreetingArrives
<1> QED BY <1>1 DEF LinkEndsAgree, LinkInv, LinkTypes

\* Whatever connects cross, are displaced, refused, time out or are stopped: no
\* link stays half open, and send() can use what the handlers were told.
THEOREM LinksAgree == Spec => [](LinkEndsAgree /\ LinkToldIsTrue)
<1>1. LinkInv /\ [Next]_vars => LinkInv'
  BY LinkSteps
<1>2. LinkInv => LinkEndsAgree /\ LinkToldIsTrue
  BY LinkMeans
<1> QED BY <1>1, <1>2, LinkStart, PTL DEF Spec
=============================================================================
