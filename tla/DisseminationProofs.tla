------------------------ MODULE DisseminationProofs -------------------------
(***************************************************************************)
(* For any mesh, any number of SOS and any bounds: the first report of an  *)
(* SOS stays as it is, no SOS a node accepted is dropped silently, two     *)
(* nodes that connect reconcile what they list, and an SOS floods the mesh *)
(* connected to its sender.                                                *)
(***************************************************************************)
EXTENDS MCServices, SequenceTheorems, FiniteSetTheorems, WellFoundedInduction, TLAPS

\* The tables a node keeps are functions on Node, which the updates need.
Tables ==
  /\ catalog = [n \in Node |-> catalog[n]]
  /\ fetch = [n \in Node |-> fetch[n]]
  /\ sight = [n \in Node |-> sight[n]]
  /\ gaveUp = [n \in Node |-> gaveUp[n]]

Inv == Tables /\ AcceptedIsShown

-----------------------------------------------------------------------------
\* A table gets the keys put into it and loses none.
LEMMA PutDomain == \A f, S, v : DOMAIN Put(f, S, v) = DOMAIN f \cup S
BY DEF Put

\* A list of sightings only grows.
Keeps(f, g) == \A n \in Node : \A b \in DOMAIN f[n] : b \in DOMAIN g[n] /\ g[n][b] = f[n][b]

\* Reading the bytes of b adds it to the sightings of who can, and changes no
\* record.
LEMMA SightedKeeps ==
  ASSUME Tables, NEW n \in Node, NEW b, NEW from
  PROVE  LET s == Sighted(n, b, from) IN
         /\ s = [m \in Node |-> s[m]]
         /\ Keeps(sight, s)
         /\ n \notin Blind => b \in DOMAIN s[n]
<1>1. CASE n \in Blind
  BY <1>1 DEF Sighted, Keeps, Tables
<1>2. CASE n \notin Blind
  <2> DEFINE g == Recorded(sight[n], b, ReceivedFrom(b, from))
             s == Sighted(n, b, from)
  <2>1. DOMAIN g = DOMAIN sight[n] \cup {b} /\ \A k \in DOMAIN sight[n] : g[k] = sight[n][k]
    BY DEF Recorded, Put
  <2> HIDE DEF g
  <2>2. s = [sight EXCEPT ![n] = g]
    BY <1>2 DEF Sighted, s, g
  <2>3. s = [m \in Node |-> IF m = n THEN g ELSE sight[m]]
    BY <2>2 DEF Tables
  <2> HIDE DEF s
  <2>4. s[n] = g /\ \A m \in Node : m # n => s[m] = sight[m]
    BY <2>3
  <2>5. s = [m \in Node |-> s[m]]
    BY <2>3
  <2>6. Keeps(sight, s)
    BY <2>1, <2>4 DEF Keeps
  <2>7. b \in DOMAIN s[n]
    BY <2>1, <2>4
  <2> QED BY <2>5, <2>6, <2>7 DEF s
<1> QED BY <1>1, <1>2

-----------------------------------------------------------------------------
\* An announcement, by connection or by radio.
LEMMA PacketKeeps ==
  ASSUME Inv, NEW n \in Node, NEW from, NEW b, NEW ttl, NEW c,
         HandlePacket(n, from, b, ttl, c), UNCHANGED fetch
  PROVE  Inv' /\ Keeps(sight, sight')
<1>1. CASE b \in seen[n]
  <2>1. UNCHANGED <<catalog, fetch, sight, gaveUp>>
    BY <1>1 DEF HandlePacket
  <2> QED BY <2>1 DEF Inv, Tables, AcceptedIsShown, Keeps
<1>2. CASE b \notin seen[n]
  <2> DEFINE new == Accepted(n, {b})
             T == CHOOSE T \in Considered(n, new) : TRUE
  <2>1. HandleContentAnnounce(n, from, b)
    BY <1>2 DEF HandlePacket
  <2>2. /\ catalog' = [catalog EXCEPT ![n] = @ \cup new]
        /\ sight' = IF T = {} THEN sight ELSE Sighted(n, b, from)
        /\ gaveUp' = [gaveUp EXCEPT ![n] = @ \cup (new \ (T \cup DOMAIN fetch[n]))]
    BY <2>1 DEF HandleContentAnnounce
  <2>3. new \subseteq {b}
    BY DEF Accepted
  <2> HIDE DEF T, new
  <2>4. /\ catalog' = [m \in Node |-> IF m = n THEN catalog[n] \cup new ELSE catalog[m]]
        /\ gaveUp' = [m \in Node |-> IF m = n THEN gaveUp[n] \cup (new \ (T \cup DOMAIN fetch[n]))
                                     ELSE gaveUp[m]]
    BY <2>2 DEF Inv, Tables
  <2>5. /\ sight' = [m \in Node |-> sight'[m]]
        /\ Keeps(sight, sight')
        /\ T # {} /\ n \notin Blind => b \in DOMAIN sight'[n]
    <3>1. CASE T = {}
      BY <2>2, <3>1 DEF Inv, Tables, Keeps
    <3>2. CASE T # {}
      BY <2>2, <3>2, SightedKeeps DEF Inv
    <3> QED BY <3>1, <3>2
  <2>6. Tables'
    BY <2>4, <2>5 DEF Tables, Inv
  <2>7. AcceptedIsShown'
    <3> SUFFICES ASSUME NEW m \in Node \ Blind, NEW k \in catalog'[m]
                 PROVE  k \in DOMAIN sight'[m] \cup DOMAIN fetch[m] \cup gaveUp'[m]
      BY DEF AcceptedIsShown
    <3>1. CASE k \in catalog[m]
      BY <2>4, <2>5, <3>1 DEF Inv, AcceptedIsShown, Keeps
    <3>2. CASE k \notin catalog[m]
      <4>1. m = n /\ k \in new /\ k = b
        BY <2>3, <2>4, <3>2
      <4>2. CASE T = {}
        BY <2>4, <4>1, <4>2
      <4>3. CASE T # {}
        BY <2>5, <4>1, <4>3
      <4> QED BY <4>2, <4>3
    <3> QED BY <3>1, <3>2
  <2> QED BY <2>5, <2>6, <2>7 DEF Inv
<1> QED BY <1>1, <1>2

\* A fetch of b ends: what was shown, fetched or given up stays so, but for b.
LEMMA FetchEnds ==
  ASSUME Inv, NEW n \in Node, NEW b, UNCHANGED catalog,
         fetch' = [fetch EXCEPT ![n] = [k \in DOMAIN @ \ {b} |-> @[k]]],
         sight' = [m \in Node |-> sight'[m]], gaveUp' = [m \in Node |-> gaveUp'[m]],
         Keeps(sight, sight'), \A m \in Node : gaveUp[m] \subseteq gaveUp'[m],
         n \notin Blind => b \in DOMAIN sight'[n] \cup gaveUp'[n]
  PROVE  Inv'
<1>1. fetch' = [m \in Node |-> IF m = n THEN [k \in DOMAIN fetch[n] \ {b} |-> fetch[n][k]]
                               ELSE fetch[m]]
  BY DEF Inv, Tables
<1>2. /\ DOMAIN fetch'[n] = DOMAIN fetch[n] \ {b}
      /\ \A m \in Node : m # n => fetch'[m] = fetch[m]
  BY <1>1
<1>3. Tables'
  BY <1>1 DEF Inv, Tables
<1>4. AcceptedIsShown'
  <2> SUFFICES ASSUME NEW m \in Node \ Blind, NEW k \in catalog[m]
               PROVE  k \in DOMAIN sight'[m] \cup DOMAIN fetch'[m] \cup gaveUp'[m]
    BY DEF AcceptedIsShown
  <2>1. k \in DOMAIN sight[m] \cup DOMAIN fetch[m] \cup gaveUp[m]
    BY DEF Inv, AcceptedIsShown
  <2> QED BY <1>2, <2>1 DEF Keeps
<1> QED BY <1>3, <1>4 DEF Inv

\* Nothing is accepted at the start.
LEMMA InitInv == Init => Inv
BY DEF Init, Inv, Tables, AcceptedIsShown

\* One step of the mesh, action by action.
LEMMA StepKeeps ==
  ASSUME Inv, [Next]_vars
  PROVE  Inv' /\ Keeps(sight, sight')
<1>0. CASE UNCHANGED <<catalog, fetch, sight, gaveUp>>
  BY <1>0 DEF Inv, Tables, AcceptedIsShown, Keeps
<1>1. ASSUME NEW b \in Beacon, SendEmergencyBeacon(b) PROVE Inv' /\ Keeps(sight, sight')
  <2> DEFINE n == Origin[b]
             g == Recorded(sight[n], b, Direct)
  <2>1. n \in Node
    BY DisseminationAssumption
  <2>2. DOMAIN g = DOMAIN sight[n] \cup {b} /\ \A k \in DOMAIN sight[n] : g[k] = sight[n][k]
    BY DEF Recorded, Put
  <2>3. sight' = [sight EXCEPT ![n] = g] /\ UNCHANGED <<catalog, fetch, gaveUp>>
    BY <1>1 DEF SendEmergencyBeacon
  <2> HIDE DEF g, n
  <2>4. sight' = [m \in Node |-> IF m = n THEN g ELSE sight[m]]
    BY <2>1, <2>3 DEF Inv, Tables
  <2>5. Keeps(sight, sight')
    BY <2>1, <2>2, <2>4 DEF Keeps
  <2>6. Tables'
    BY <2>3, <2>4 DEF Inv, Tables
  <2>7. AcceptedIsShown'
    BY <2>3, <2>5 DEF Inv, AcceptedIsShown, Keeps
  <2> QED BY <2>5, <2>6, <2>7 DEF Inv
<1>2. ASSUME NEW n \in Node, NEW b \in Beacon, Advertise(b, n) PROVE Inv' /\ Keeps(sight, sight')
  BY <1>2, PacketKeeps DEF Advertise
<1>3. ASSUME NEW n \in Node, NEW m \in Node, ReceiveAnnounce(n, m) PROVE Inv' /\ Keeps(sight, sight')
  BY <1>3, PacketKeeps DEF ReceiveAnnounce
<1>4. ASSUME NEW n \in Node, NEW m \in Node, HandleSyncResponse(n, m)
      PROVE  Inv' /\ Keeps(sight, sight')
  <2> DEFINE new == Accepted(n, Head(chan[<<m, n>>]).entries)
  <2>1. PICK T \in Considered(n, new) :
          /\ fetch' = [fetch EXCEPT ![n] = Put(@, T, m)]
          /\ gaveUp' = [gaveUp EXCEPT ![n] = @ \cup (new \ (T \cup DOMAIN fetch[n]))]
    BY <1>4 DEF HandleSyncResponse
  <2>2. catalog' = [catalog EXCEPT ![n] = @ \cup new] /\ UNCHANGED sight
    BY <1>4 DEF HandleSyncResponse
  <2> HIDE DEF new
  <2>3. /\ catalog' = [k \in Node |-> IF k = n THEN catalog[n] \cup new ELSE catalog[k]]
        /\ fetch' = [k \in Node |-> IF k = n THEN Put(fetch[n], T, m) ELSE fetch[k]]
        /\ gaveUp' = [k \in Node |-> IF k = n THEN gaveUp[n] \cup (new \ (T \cup DOMAIN fetch[n]))
                                     ELSE gaveUp[k]]
    BY <2>1, <2>2 DEF Inv, Tables
  <2>4. DOMAIN fetch'[n] = DOMAIN fetch[n] \cup T
    BY <2>3, PutDomain
  <2>5. Tables'
    BY <2>2, <2>3 DEF Inv, Tables
  <2>6. AcceptedIsShown'
    <3> SUFFICES ASSUME NEW k \in Node \ Blind, NEW b \in catalog'[k]
                 PROVE  b \in DOMAIN sight[k] \cup DOMAIN fetch'[k] \cup gaveUp'[k]
      BY <2>2 DEF AcceptedIsShown
    <3>1. CASE k # n
      BY <2>3, <3>1 DEF Inv, AcceptedIsShown
    <3>2. CASE k = n /\ b \in catalog[n]
      BY <2>3, <2>4, <3>2 DEF Inv, AcceptedIsShown
    <3>3. CASE k = n /\ b \in new
      BY <2>3, <2>4, <3>3
    <3> QED BY <2>3, <3>1, <3>2, <3>3
  <2> QED BY <2>2, <2>5, <2>6 DEF Inv, Keeps
<1>5. ASSUME NEW n \in Node, NEW b \in Beacon, FetchServed(n, b) PROVE Inv' /\ Keeps(sight, sight')
  <2>1. /\ fetch' = [fetch EXCEPT ![n] = [k \in DOMAIN @ \ {b} |-> @[k]]]
        /\ sight' = Sighted(n, b, fetch[n][b])
        /\ UNCHANGED <<catalog, gaveUp>>
    BY <1>5 DEF FetchServed
  <2>2. /\ sight' = [m \in Node |-> sight'[m]]
        /\ Keeps(sight, sight')
        /\ n \notin Blind => b \in DOMAIN sight'[n]
    BY <2>1, SightedKeeps DEF Inv
  <2>3. gaveUp' = [m \in Node |-> gaveUp'[m]] /\ \A m \in Node : gaveUp[m] \subseteq gaveUp'[m]
    BY <2>1 DEF Inv, Tables
  <2> QED BY <2>1, <2>2, <2>3, FetchEnds
<1>6. ASSUME NEW n \in Node, NEW b \in Beacon, FetchFailed(n, b) PROVE Inv' /\ Keeps(sight, sight')
  <2>1. /\ fetch' = [fetch EXCEPT ![n] = [k \in DOMAIN @ \ {b} |-> @[k]]]
        /\ gaveUp' = [gaveUp EXCEPT ![n] = @ \cup {b}]
        /\ UNCHANGED <<catalog, sight>>
    BY <1>6 DEF FetchFailed
  <2>2. gaveUp' = [m \in Node |-> IF m = n THEN gaveUp[n] \cup {b} ELSE gaveUp[m]]
    BY <2>1 DEF Inv, Tables
  <2>3. /\ gaveUp' = [m \in Node |-> gaveUp'[m]]
        /\ \A m \in Node : gaveUp[m] \subseteq gaveUp'[m]
        /\ b \in gaveUp'[n]
    BY <2>2
  <2>4. sight' = [m \in Node |-> sight'[m]] /\ Keeps(sight, sight')
    BY <2>1 DEF Inv, Tables, Keeps
  <2> QED BY <2>1, <2>3, <2>4, FetchEnds
<1>7. ASSUME NEW n \in Node, NEW m \in Node,
             HandleSyncRequest(n, m) \/ PeerConnected(n, m) \/ PeerDisconnected(n, m)
      PROVE  UNCHANGED <<catalog, fetch, sight, gaveUp>>
  BY <1>7 DEF HandleSyncRequest, PeerConnected, PeerDisconnected
<1>8. ASSUME NEW n \in Node, NEW b \in Beacon, Evict(n, b)
      PROVE  UNCHANGED <<catalog, fetch, sight, gaveUp>>
  BY <1>8 DEF Evict
<1>9. ASSUME NEW n \in Node, Forget(n) PROVE UNCHANGED <<catalog, fetch, sight, gaveUp>>
  BY <1>9 DEF Forget
<1>10. ASSUME NEW b \in Beacon, Expire(b) PROVE UNCHANGED <<catalog, fetch, sight, gaveUp>>
  BY <1>10 DEF Expire
<1>11. CASE UNCHANGED vars
  BY <1>0, <1>11 DEF vars
<1> QED BY <1>0, <1>1, <1>2, <1>3, <1>4, <1>5, <1>6, <1>7, <1>8, <1>9, <1>10, <1>11 DEF Next

-----------------------------------------------------------------------------
(* The catalog exchange of two nodes that connect. *)

\* What may be in transit.
Packet ==
  [type : {"announce"}, beacon : Beacon, ttl : Nat]
    \cup [type : {"syncRequest"}, known : SUBSET Beacon]
    \cup [type : {"syncResponse"}, entries : SUBSET Beacon]

InTransit(s) == {s[i] : i \in 1..Len(s)}

Requests(s)  == {p \in InTransit(s) : p.type = "syncRequest"}
Responses(s) == {p \in InTransit(s) : p.type = "syncResponse"}

Knows(n) == store[n] \cup catalog[n]

Back(e) == <<e[2], e[1]>>

\* What the second node of e still has to learn from the first.
Missing(e) == owed[e] \ (expired \cup evicted[e[1]] \cup evicted[e[2]] \cup Knows(e[2]))

ExchangeTypes ==
  /\ store \in [Node -> SUBSET Beacon]
  /\ catalog \in [Node -> SUBSET Beacon]
  /\ evicted \in [Node -> SUBSET Beacon]
  /\ owed \in [Edge -> SUBSET Beacon]
  /\ chan \in [Edge -> Seq(Packet)]
  /\ \A e \in link : e \in Edge /\ Back(e) \in link

\* A node keeps all it owes, but for the bytes it gives up.
KeepsOwed == \A e \in link : owed[e] \ evicted[e[1]] \subseteq Knows(e[1])

\* What a SYNC_REQUEST lists, its sender has or had.
ListsTruly ==
  \A e \in link : \A p \in Requests(chan[e]) : p.known \subseteq Knows(e[1]) \cup evicted[e[1]]

\* What is missing at one end will be asked for, or is on its way.
OnItsWay ==
  \A e \in link :
    \/ Missing(e) = {}
    \/ Requests(chan[Back(e)]) # {}
    \/ \E p \in Responses(chan[e]) : Missing(e) \subseteq p.entries

Exchange == ExchangeTypes /\ KeepsOwed /\ ListsTruly /\ OnItsWay

-----------------------------------------------------------------------------
\* A packet sent comes after the others.
LEMMA AppendAdds ==
  ASSUME NEW P, NEW s \in Seq(P), NEW p \in P
  PROVE  Append(s, p) \in Seq(P) /\ InTransit(Append(s, p)) = InTransit(s) \cup {p}
<1>1. /\ Append(s, p) \in Seq(P)
      /\ Len(Append(s, p)) = Len(s) + 1
      /\ Append(s, p)[Len(s) + 1] = p
      /\ \A i \in 1..Len(s) : Append(s, p)[i] = s[i]
      /\ Len(s) \in Nat
  BY AppendProperties, LenProperties
<1>2. \A i \in 1..(Len(s) + 1) : i \in 1..Len(s) \/ i = Len(s) + 1
  BY <1>1
<1>3. \A i \in 1..Len(s) : i \in 1..(Len(s) + 1)
  BY <1>1
<1>4. Len(s) + 1 \in 1..(Len(s) + 1)
  BY <1>1
<1> QED BY <1>1, <1>2, <1>3, <1>4 DEF InTransit

\* A packet read was the first of them.
LEMMA TailDrops ==
  ASSUME NEW P, NEW s \in Seq(P), s # <<>>
  PROVE  Tail(s) \in Seq(P) /\ InTransit(s) = {Head(s)} \cup InTransit(Tail(s))
<1>1. /\ Tail(s) \in Seq(P)
      /\ Len(Tail(s)) = Len(s) - 1
      /\ \A i \in 1..Len(Tail(s)) : Tail(s)[i] = s[i + 1]
      /\ Len(s) \in Nat \ {0}
      /\ Head(s) = s[1]
  BY HeadTailProperties, EmptySeq
<1>2. InTransit(s) \subseteq {Head(s)} \cup InTransit(Tail(s))
  <2> SUFFICES ASSUME NEW i \in 1..Len(s), i # 1
               PROVE  s[i] \in InTransit(Tail(s))
    BY <1>1 DEF InTransit
  <2>1. i - 1 \in 1..Len(Tail(s)) /\ Tail(s)[i - 1] = s[(i - 1) + 1] /\ (i - 1) + 1 = i
    BY <1>1
  <2> QED BY <2>1 DEF InTransit
<1>3. {Head(s)} \cup InTransit(Tail(s)) \subseteq InTransit(s)
  <2>1. 1 \in 1..Len(s)
    BY <1>1
  <2>2. \A i \in 1..Len(Tail(s)) : i + 1 \in 1..Len(s)
    BY <1>1
  <2> QED BY <1>1, <2>1, <2>2 DEF InTransit
<1> QED BY <1>1, <1>2, <1>3

\* Each channel carries on what it carried, and possibly announcements: no
\* exchange is touched.
Carries(c) ==
  /\ c \in [Edge -> Seq(Packet)]
  /\ \A e \in Edge : Requests(c[e]) = Requests(chan[e]) /\ Responses(c[e]) = Responses(chan[e])

\* What nodes know of grows but for evictions, which are recorded.
Learns ==
  /\ UNCHANGED <<link, owed>>
  /\ store' \in [Node -> SUBSET Beacon]
  /\ catalog' \in [Node -> SUBSET Beacon]
  /\ evicted' \in [Node -> SUBSET Beacon]
  /\ \A n \in Node : Knows(n) \subseteq Knows(n)' \cup evicted'[n]
  /\ \A n \in Node : evicted[n] \subseteq evicted'[n]
  /\ expired \subseteq expired'

\* The ends of a connection are nodes.
LEMMA Ends ==
  ASSUME ExchangeTypes, NEW e \in link
  PROVE  e \in Edge /\ e[1] \in Node /\ e[2] \in Node /\ Back(e) \in link /\ Back(e) \in Edge
         /\ Back(e)[1] = e[2] /\ Back(e)[2] = e[1] /\ Back(Back(e)) = e /\ e = <<e[1], e[2]>>
BY DisseminationAssumption DEF ExchangeTypes, Back

\* What a step in which nodes only learn, or evict, does to the exchange.
LEMMA LearnsKeeps ==
  ASSUME Exchange, Learns, Carries(chan')
  PROVE  Exchange'
<1>1. ExchangeTypes'
  BY DEF Exchange, ExchangeTypes, Learns, Carries, Back
<1>2. KeepsOwed'
  <2> SUFFICES ASSUME NEW e \in link PROVE owed[e] \ evicted'[e[1]] \subseteq Knows(e[1])'
    BY DEF KeepsOwed, Learns
  <2>1. e[1] \in Node
    BY Ends DEF Exchange
  <2> QED BY <2>1 DEF Exchange, KeepsOwed, Learns
<1>3. ListsTruly'
  <2> SUFFICES ASSUME NEW e \in link, NEW p \in Requests(chan'[e])
               PROVE  p.known \subseteq Knows(e[1])' \cup evicted'[e[1]]
    BY DEF ListsTruly, Learns
  <2>1. e \in Edge /\ e[1] \in Node
    BY Ends DEF Exchange
  <2>2. p \in Requests(chan[e])
    BY <2>1 DEF Carries
  <2> QED BY <2>1, <2>2 DEF Exchange, ListsTruly, Learns
<1>4. OnItsWay'
  <2> SUFFICES ASSUME NEW e \in link
               PROVE  \/ Missing(e)' = {}
                      \/ Requests(chan'[Back(e)]) # {}
                      \/ \E p \in Responses(chan'[e]) : Missing(e)' \subseteq p.entries
    BY DEF OnItsWay, Learns, Back
  <2>1. e \in Edge /\ Back(e) \in Edge /\ e[1] \in Node /\ e[2] \in Node
    BY Ends DEF Exchange
  <2>2. Missing(e)' \subseteq Missing(e)
    BY <2>1 DEF Missing, Learns
  <2> QED BY <2>1, <2>2 DEF Exchange, OnItsWay, Carries
<1> QED BY <1>1, <1>2, <1>3, <1>4 DEF Exchange

\* The channels d carry what c did, and some of them p.
Gains(c, d, p) ==
  /\ d \in [Edge -> Seq(Packet)]
  /\ \A e \in Edge : \/ InTransit(d[e]) = InTransit(c[e])
                     \/ InTransit(d[e]) = InTransit(c[e]) \cup {p}

\* Packets to peers leave everything else in transit.
LEMMA SendAdds ==
  ASSUME NEW c \in [Edge -> Seq(Packet)], NEW n, NEW ps, NEW p \in Packet
  PROVE  /\ Gains(c, Send(c, n, ps, p), p)
         /\ \A e \in Edge \cap link : e[1] = n /\ e[2] \in ps => p \in InTransit(Send(c, n, ps, p)[e])
<1>1. \A e \in Edge : /\ Append(c[e], p) \in Seq(Packet)
                      /\ InTransit(Append(c[e], p)) = InTransit(c[e]) \cup {p}
  BY AppendAdds
<1> QED BY <1>1 DEF Send, Gains

\* Announcements are no part of an exchange.
LEMMA AnnounceCarries ==
  ASSUME NEW c, Carries(c), NEW n, NEW ps, NEW b \in Beacon, NEW ttl \in Nat
  PROVE  Carries(Send(c, n, ps, Announce(b, ttl)))
<1> DEFINE p == Announce(b, ttl)
           d == Send(c, n, ps, p)
<1>1. p \in Packet /\ p.type = "announce"
  BY DEF Announce, Packet
<1>2. c \in [Edge -> Seq(Packet)]
  BY DEF Carries
<1> HIDE DEF p
<1>3. Gains(c, d, p)
  BY <1>1, <1>2, SendAdds
<1> HIDE DEF d
<1>4. \A e \in Edge : Requests(d[e]) = Requests(c[e]) /\ Responses(d[e]) = Responses(c[e])
  BY <1>1, <1>3 DEF Requests, Responses, Gains
<1> QED BY <1>3, <1>4 DEF Carries, Gains, d, p

\* Reading a packet takes it, and nothing else, from its channel.
LEMMA ReadTakes ==
  ASSUME ExchangeTypes, NEW n \in Node, NEW m \in Node, <<m, n>> \in link, chan[<<m, n>>] # <<>>
  PROVE  /\ Head(chan[<<m, n>>]) \in Packet
         /\ Read(n, m) \in [Edge -> Seq(Packet)]
         /\ InTransit(chan[<<m, n>>]) =
              {Head(chan[<<m, n>>])} \cup InTransit(Read(n, m)[<<m, n>>])
         /\ \A e \in Edge : e # <<m, n>> => Read(n, m)[e] = chan[e]
<1> DEFINE r == <<m, n>>
<1>1. r \in Edge /\ chan \in [Edge -> Seq(Packet)] /\ chan[r] \in Seq(Packet)
  BY DEF ExchangeTypes
<1>2. Tail(chan[r]) \in Seq(Packet) /\ InTransit(chan[r]) = {Head(chan[r])} \cup InTransit(Tail(chan[r]))
  BY <1>1, TailDrops
<1>3. Head(chan[r]) \in Packet
  BY <1>1, HeadTailProperties
<1>4. Read(n, m) = [chan EXCEPT ![r] = Tail(@)]
  BY DEF Read
<1> HIDE DEF r
<1>5. Read(n, m) \in [Edge -> Seq(Packet)] /\ Read(n, m)[r] = Tail(chan[r])
  BY <1>1, <1>2, <1>4
<1>6. \A e \in Edge : e # r => Read(n, m)[e] = chan[e]
  BY <1>1, <1>4
<1> QED BY <1>2, <1>3, <1>5, <1>6 DEF r

\* An announcement handled at a node.
LEMMA PacketLearns ==
  ASSUME Exchange, NEW n \in Node, NEW from, NEW b \in Beacon, NEW ttl \in Nat, NEW c, Carries(c),
         HandlePacket(n, from, b, ttl, c), UNCHANGED <<link, expired, owed, evicted>>
  PROVE  Exchange'
<1>1. Learns
  <2>1. CASE b \in seen[n]
    BY <2>1 DEF HandlePacket, Learns, Exchange, ExchangeTypes, Knows
  <2>2. CASE b \notin seen[n]
    <3>1. /\ catalog' = [catalog EXCEPT ![n] = @ \cup Accepted(n, {b})]
          /\ store' = [store EXCEPT ![n] = @ \cup Accepted(n, {b})]
          /\ Accepted(n, {b}) \subseteq {b}
      BY <2>2 DEF HandlePacket, HandleContentAnnounce, Accepted
    <3> QED BY <3>1 DEF Learns, Exchange, ExchangeTypes, Knows
  <2> QED BY <2>1, <2>2
<1>2. Carries(chan')
  <2>1. CASE b \notin seen[n] /\ Forwards(ttl)
    <3>1. ttl - 1 \in Nat
      BY <2>1 DEF Forwards
    <3>2. chan' = Send(c, n, Peers(n) \ {from}, Announce(b, ttl - 1))
      BY <2>1 DEF HandlePacket
    <3> QED BY <3>1, <3>2, AnnounceCarries
  <2>2. CASE ~(b \notin seen[n] /\ Forwards(ttl))
    BY <2>2 DEF HandlePacket
  <2> QED BY <2>1, <2>2
<1> QED BY <1>1, <1>2, LearnsKeeps

\* A request answered: the answer holds all that was missing.
LEMMA RequestAnswered ==
  ASSUME Exchange, NEW n \in Node, NEW m \in Node, HandleSyncRequest(n, m)
  PROVE  Exchange'
<1> DEFINE r == <<m, n>>
           a == <<n, m>>
           p == Head(chan[r])
           news == ListKnownContent(n) \ p.known
<1> USE DEF Exchange
<1>1. /\ r \in link /\ a \in link /\ r \in Edge /\ a \in Edge /\ Back(r) = a /\ Back(a) = r
      /\ r[1] = m /\ r[2] = n /\ a[1] = n /\ a[2] = m
  BY Ends DEF HandleSyncRequest, Receives, Back
<1>2. chan[r] # <<>> /\ p.type = "syncRequest"
  BY DEF HandleSyncRequest, Receives
<1>3. /\ p \in Packet /\ p \in InTransit(chan[r])
      /\ Read(n, m) \in [Edge -> Seq(Packet)]
      /\ InTransit(chan[r]) = {p} \cup InTransit(Read(n, m)[r])
      /\ \A e \in Edge : e # r => Read(n, m)[e] = chan[e]
  BY <1>1, <1>2, ReadTakes
<1>4. p \in Requests(chan[r])
  BY <1>2, <1>3 DEF Requests
<1>5. p.known \subseteq Knows(m) \cup evicted[m]
  BY <1>1, <1>4 DEF ListsTruly
<1>6. Missing(a) \subseteq news
  BY <1>1, <1>5 DEF Missing, KeepsOwed, ListKnownContent, Knows
<1>7. news \subseteq Beacon
  BY DEF ListKnownContent, ExchangeTypes
<1>8. /\ UNCHANGED <<link, store, catalog, expired, owed, evicted>>
      /\ chan' = IF news = {} THEN Read(n, m)
                 ELSE Send(Read(n, m), n, {m}, SyncResponse(news))
  BY DEF HandleSyncRequest
<1>9. SyncResponse(news) \in Packet /\ SyncResponse(news).type = "syncResponse"
      /\ SyncResponse(news).entries = news
  BY <1>7 DEF SyncResponse, Packet
<1>10. /\ chan' \in [Edge -> Seq(Packet)]
       /\ \A e \in Edge : Requests(chan'[e]) \subseteq Requests(chan[e])
       /\ \A e \in Edge : e # r => Requests(chan'[e]) = Requests(chan[e])
       /\ \A e \in Edge : Responses(chan[e]) \subseteq Responses(chan'[e])
       /\ news # {} => SyncResponse(news) \in Responses(chan'[a])
  <2> HIDE DEF r, a, p, news
  <2> DEFINE c == Read(n, m)
  <2>1. /\ \A e \in Edge : Requests(c[e]) \subseteq Requests(chan[e])
        /\ \A e \in Edge : e # r => Requests(c[e]) = Requests(chan[e])
        /\ \A e \in Edge : Responses(chan[e]) = Responses(c[e])
    BY <1>1, <1>2, <1>3 DEF Requests, Responses
  <2>2. c \in [Edge -> Seq(Packet)]
    BY <1>3
  <2> HIDE DEF c
  <2>3. CASE news = {}
    BY <1>8, <2>1, <2>2, <2>3 DEF c
  <2>4. CASE news # {}
    <3> DEFINE q == SyncResponse(news)
               d == Send(c, n, {m}, q)
    <3>1. Gains(c, d, q) /\ q \in InTransit(d[a])
      <4> HIDE DEF q
      <4>1. q \in Packet
        BY <1>9 DEF q
      <4>2. Gains(c, d, q)
        BY <2>2, <4>1, SendAdds
      <4>3. \A e \in Edge \cap link : e[1] = n /\ e[2] \in {m} => q \in InTransit(d[e])
        BY <2>2, <4>1, SendAdds
      <4> HIDE DEF d
      <4> QED BY <1>1, <4>2, <4>3
    <3>2. chan' = d
      BY <1>8, <2>4 DEF c
    <3> HIDE DEF d
    <3>3. /\ d \in [Edge -> Seq(Packet)]
          /\ \A e \in Edge : Requests(d[e]) = Requests(c[e])
          /\ \A e \in Edge : Responses(c[e]) \subseteq Responses(d[e])
          /\ SyncResponse(news) \in Responses(d[a])
      BY <1>9, <3>1 DEF Requests, Responses, Gains
    <3> QED BY <2>1, <3>2, <3>3
  <2> QED BY <2>3, <2>4
<1> HIDE DEF p, news
<1>11. ExchangeTypes'
  BY <1>8, <1>10 DEF ExchangeTypes, Back
<1>12. KeepsOwed'
  BY <1>8 DEF KeepsOwed, Knows
<1>13. ListsTruly'
  BY <1>8, <1>10 DEF ListsTruly, Knows, ExchangeTypes
<1>14. OnItsWay'
  <2>0. \A e : Missing(e)' = Missing(e)
    BY <1>8 DEF Missing, Knows
  <2> SUFFICES ASSUME NEW e \in link
               PROVE  \/ Missing(e) = {}
                      \/ Requests(chan'[Back(e)]) # {}
                      \/ \E q \in Responses(chan'[e]) : Missing(e) \subseteq q.entries
    <3> HIDE DEF r, a
    <3> QED BY <1>8, <2>0 DEF OnItsWay, Back
  <2>1. e \in Edge /\ Back(e) \in Edge /\ e = Back(Back(e))
    BY Ends
  <2>2. CASE Back(e) = r
    <3>1. e = a
      BY <1>1, <2>1, <2>2
    <3> QED BY <1>6, <1>9, <1>10, <3>1
  <2>3. CASE Back(e) # r
    <3> HIDE DEF r
    <3> QED BY <1>10, <2>1, <2>3 DEF OnItsWay
  <2> QED BY <2>2, <2>3
<1> QED BY <1>11, <1>12, <1>13, <1>14

\* An answer read: what it holds is known from now on.
LEMMA ResponseRead ==
  ASSUME Exchange, NEW n \in Node, NEW m \in Node, HandleSyncResponse(n, m)
  PROVE  Exchange'
<1> DEFINE r == <<m, n>>
           p == Head(chan[r])
<1> USE DEF Exchange
<1>1. r \in link /\ r \in Edge /\ r[1] = m /\ r[2] = n
  BY DEF HandleSyncResponse, Receives, ExchangeTypes
<1>2. chan[r] # <<>> /\ p.type = "syncResponse"
  BY DEF HandleSyncResponse, Receives
<1>3. /\ p \in Packet
      /\ Read(n, m) \in [Edge -> Seq(Packet)]
      /\ InTransit(chan[r]) = {p} \cup InTransit(Read(n, m)[r])
      /\ \A e \in Edge : e # r => Read(n, m)[e] = chan[e]
  BY <1>1, <1>2, ReadTakes
<1>4. p.entries \subseteq Beacon
  BY <1>2, <1>3 DEF Packet
<1>5. /\ UNCHANGED <<link, store, expired, owed, evicted>>
      /\ chan' = Read(n, m)
      /\ catalog' = [catalog EXCEPT ![n] = @ \cup Accepted(n, p.entries)]
  BY DEF HandleSyncResponse
<1> HIDE DEF r, p
<1>6. /\ catalog' \in [Node -> SUBSET Beacon]
      /\ \A k \in Node : catalog[k] \subseteq catalog'[k]
      /\ p.entries \subseteq store[n] \cup expired \cup catalog'[n]
  BY <1>4, <1>5 DEF ExchangeTypes, Accepted
<1>7. /\ \A e \in Edge : Requests(chan'[e]) = Requests(chan[e])
      /\ \A e \in Edge : e # r => Responses(chan'[e]) = Responses(chan[e])
      /\ \A q \in Responses(chan[r]) : q = p \/ q \in Responses(chan'[r])
  BY <1>1, <1>2, <1>3, <1>5 DEF Requests, Responses
<1>8. ExchangeTypes'
  BY <1>3, <1>5, <1>6 DEF ExchangeTypes, Back
<1>9. KeepsOwed'
  <2> SUFFICES ASSUME NEW e \in link PROVE owed[e] \ evicted[e[1]] \subseteq Knows(e[1])'
    BY <1>5 DEF KeepsOwed
  <2> QED BY <1>5, <1>6, Ends DEF KeepsOwed, Knows
<1>10. ListsTruly'
  <2> SUFFICES ASSUME NEW e \in link, NEW q \in Requests(chan'[e])
               PROVE  q.known \subseteq Knows(e[1])' \cup evicted[e[1]]
    BY <1>5 DEF ListsTruly
  <2>1. e \in Edge /\ e[1] \in Node
    BY Ends
  <2> QED BY <1>5, <1>6, <1>7, <2>1 DEF ListsTruly, Knows
<1>11. OnItsWay'
  <2> SUFFICES ASSUME NEW e \in link
               PROVE  \/ Missing(e)' = {}
                      \/ Requests(chan'[Back(e)]) # {}
                      \/ \E q \in Responses(chan'[e]) : Missing(e)' \subseteq q.entries
    BY <1>5 DEF OnItsWay, Back
  <2>1. e \in Edge /\ Back(e) \in Edge /\ e[1] \in Node /\ e[2] \in Node
    BY Ends
  <2>2. Missing(e)' \subseteq Missing(e)
    BY <1>5, <1>6, <2>1 DEF Missing, Knows
  <2>3. CASE Missing(e) = {} \/ Requests(chan[Back(e)]) # {}
    BY <1>7, <2>1, <2>2, <2>3
  <2>4. ASSUME NEW q \in Responses(chan[e]), Missing(e) \subseteq q.entries
        PROVE  Missing(e)' = {} \/ \E s \in Responses(chan'[e]) : Missing(e)' \subseteq s.entries
    <3>1. CASE q \in Responses(chan'[e])
      BY <2>2, <2>4, <3>1
    <3>2. CASE q \notin Responses(chan'[e])
      <4>1. e = r /\ q = p
        BY <1>7, <2>1, <3>2
      <4>2. e[2] = n
        BY <1>1, <4>1
      <4> QED BY <1>5, <1>6, <2>2, <2>4, <4>1, <4>2 DEF Missing, Knows
    <3> QED BY <3>1, <3>2
  <2> QED BY <2>3, <2>4 DEF OnItsWay
<1> QED BY <1>8, <1>9, <1>10, <1>11

\* Two nodes connect: each will be asked for what the other lacks.
LEMMA ConnectKeeps ==
  ASSUME Exchange, NEW n \in Node, NEW m \in Node, PeerConnected(n, m)
  PROVE  Exchange'
<1> DEFINE r == <<m, n>>
           a == <<n, m>>
           both == {a, r}
           Ask(k) == SyncRequest(ListKnownContent(k))
<1> USE DEF Exchange
<1>0. Back(a) = r /\ Back(r) = a
  BY DEF Back
<1>1. /\ a \in Edge /\ r \in Edge /\ a \notin link /\ r \notin link
      /\ link' = link \cup both
  <2>1. a \in Edge \ link /\ link' = link \cup both
    BY DEF PeerConnected
  <2>2. Back(a) \in Edge
    BY <2>1, DisseminationAssumption DEF Back
  <2> HIDE DEF a, r
  <2> QED BY <1>0, <2>1, <2>2 DEF ExchangeTypes
<1>2. \A e \in Edge : e \in link' =>
        /\ e \in both <=> Back(e) \in both
        /\ e \notin both => e \in link /\ Back(e) \in link
        /\ Back(e) \in Edge /\ e[1] \in Node /\ e[2] \in Node /\ Back(e)[1] = e[2]
  BY <1>1, DisseminationAssumption DEF ExchangeTypes, Back
<1>3. \A k \in Node : /\ Ask(k) \in Packet /\ Ask(k).type = "syncRequest"
                      /\ Ask(k).known = ListKnownContent(k)
                      /\ ListKnownContent(k) \subseteq Knows(k)
  BY DEF SyncRequest, Packet, ListKnownContent, ExchangeTypes, Knows
<1>4. /\ UNCHANGED <<store, catalog, expired, evicted>>
      /\ chan' = [e \in Edge |-> IF e \in both THEN <<Ask(e[1])>> ELSE chan[e]]
      /\ owed' = [e \in Edge |-> IF e \in both THEN Knows(e[1]) \ expired ELSE owed[e]]
  BY DEF PeerConnected, Knows
<1> HIDE DEF Ask, both
<1>5. \A e \in Edge : e[1] \in Node /\ e[2] \in Node
  BY DisseminationAssumption
<1>6. \A e \in Edge : e \in both => /\ chan'[e] \in Seq(Packet)
                                    /\ InTransit(chan'[e]) = {Ask(e[1])}
  <2> SUFFICES ASSUME NEW e \in Edge, e \in both
               PROVE  chan'[e] \in Seq(Packet) /\ InTransit(chan'[e]) = {Ask(e[1])}
    OBVIOUS
  <2>1. chan'[e] = <<Ask(e[1])>> /\ Ask(e[1]) \in Packet
    BY <1>3, <1>4, <1>5
  <2> HIDE DEF Ask
  <2>2. Len(<<Ask(e[1])>>) = 1 /\ <<Ask(e[1])>>[1] = Ask(e[1])
    OBVIOUS
  <2>3. 1..1 = {1}
    OBVIOUS
  <2> QED BY <2>1, <2>2, <2>3 DEF InTransit
<1>7. \A e \in Edge : e \notin both => chan'[e] = chan[e] /\ owed'[e] = owed[e]
  BY <1>4
<1>8. \A e \in Edge : e \in both => owed'[e] = Knows(e[1]) \ expired
  BY <1>4
<1>9. ExchangeTypes'
  <2>1. chan' \in [Edge -> Seq(Packet)]
    BY <1>4, <1>6, <1>7 DEF ExchangeTypes
  <2>2. owed' \in [Edge -> SUBSET Beacon]
    BY <1>4, <1>5 DEF ExchangeTypes, Knows
  <2>3. \A e \in link' : e \in Edge /\ Back(e) \in link'
    <3> HIDE DEF a, r
    <3> QED BY <1>0, <1>1 DEF ExchangeTypes, both
  <2> QED BY <1>4, <2>1, <2>2, <2>3 DEF ExchangeTypes, Back
<1>10. link' \subseteq Edge
  BY <1>9 DEF ExchangeTypes
<1>11. KeepsOwed'
  <2> SUFFICES ASSUME NEW e \in link' PROVE owed'[e] \ evicted[e[1]] \subseteq Knows(e[1])
    BY <1>4 DEF KeepsOwed, Knows
  <2> QED BY <1>2, <1>7, <1>8, <1>10 DEF KeepsOwed
<1>12. ListsTruly'
  <2> SUFFICES ASSUME NEW e \in link', NEW p \in Requests(chan'[e])
               PROVE  p.known \subseteq Knows(e[1]) \cup evicted[e[1]]
    BY <1>4 DEF ListsTruly, Knows
  <2>1. CASE e \in both
    BY <1>3, <1>5, <1>6, <1>10, <2>1 DEF Requests
  <2>2. CASE e \notin both
    BY <1>2, <1>7, <1>10, <2>2 DEF ListsTruly
  <2> QED BY <2>1, <2>2
<1>13. OnItsWay'
  <2>0. \A e \in Edge : e \notin both => Missing(e)' = Missing(e)
    BY <1>4, <1>7 DEF Missing, Knows
  <2> SUFFICES ASSUME NEW e \in link'
               PROVE  \/ Missing(e)' = {}
                      \/ Requests(chan'[Back(e)]) # {}
                      \/ \E q \in Responses(chan'[e]) : Missing(e)' \subseteq q.entries
    BY DEF OnItsWay, Back
  <2>1. CASE e \in both
    <3>1. Back(e) \in both /\ Back(e) \in Edge
      BY <1>2, <1>10, <2>1
    <3>2. Ask(Back(e)[1]) \in Requests(chan'[Back(e)])
      BY <1>3, <1>5, <1>6, <3>1 DEF Requests
    <3> QED BY <3>2
  <2>2. CASE e \notin both
    BY <1>2, <1>7, <1>10, <2>0, <2>2 DEF OnItsWay
  <2> QED BY <2>1, <2>2
<1> QED BY <1>9, <1>11, <1>12, <1>13

\* Two nodes part: the exchanges of the others go on.
LEMMA DisconnectKeeps ==
  ASSUME Exchange, NEW n \in Node, NEW m \in Node, PeerDisconnected(n, m)
  PROVE  Exchange'
<1> DEFINE both == {<<n, m>>, <<m, n>>}
<1> USE DEF Exchange
<1>1. /\ UNCHANGED <<store, catalog, expired, evicted>>
      /\ link' = link \ both
      /\ chan' = [e \in Edge |-> IF e \in both THEN <<>> ELSE chan[e]]
      /\ owed' = [e \in Edge |-> IF e \in both THEN {} ELSE owed[e]]
  BY DEF PeerDisconnected
<1>2. \A e \in link' : e \in link /\ e \in Edge /\ e \notin both /\ Back(e) \notin both
                       /\ Back(e) \in Edge /\ Back(e) \in link'
  <2> SUFFICES ASSUME NEW e \in link, e \notin both
               PROVE  e \in Edge /\ Back(e) \notin both /\ Back(e) \in Edge /\ Back(e) \in link
    BY <1>1
  <2>1. e \in Edge /\ Back(e) \in Edge /\ Back(e) \in link /\ Back(Back(e)) = e
    BY Ends
  <2>2. Back(<<n, m>>) = <<m, n>> /\ Back(<<m, n>>) = <<n, m>>
    BY DEF Back
  <2> QED BY <2>1, <2>2
<1> HIDE DEF both
<1>3. \A e \in Edge : e \notin both => chan'[e] = chan[e] /\ owed'[e] = owed[e]
  BY <1>1
<1>4. ExchangeTypes'
  <2>1. <<>> \in Seq(Packet)
    OBVIOUS
  <2> QED BY <1>1, <1>2, <2>1 DEF ExchangeTypes, Back
<1>5. KeepsOwed'
  BY <1>1, <1>2, <1>3 DEF KeepsOwed, Knows
<1>6. ListsTruly'
  BY <1>1, <1>2, <1>3 DEF ListsTruly, Knows
<1>7. OnItsWay'
  <2>1. \A e \in link' : Missing(e)' = Missing(e)
    BY <1>1, <1>2, <1>3 DEF Missing, Knows
  <2> QED BY <1>2, <1>3, <2>1 DEF OnItsWay, Back
<1> QED BY <1>4, <1>5, <1>6, <1>7

\* No exchange is under way at the start.
LEMMA InitExchange == Init => Exchange
<1> SUFFICES ASSUME Init PROVE Exchange
  OBVIOUS
<1>1. <<>> \in Seq(Packet) /\ Requests(<<>>) = {}
  BY DEF Requests, InTransit
<1>2. ExchangeTypes
  BY <1>1, DisseminationAssumption DEF Init, ExchangeTypes, Back
<1>3. \A e \in link : e \in Edge /\ owed[e] = {} /\ chan[e] = <<>>
  BY <1>2 DEF Init, ExchangeTypes
<1>4. KeepsOwed /\ ListsTruly /\ OnItsWay
  BY <1>1, <1>3 DEF KeepsOwed, ListsTruly, OnItsWay, Missing
<1> QED BY <1>2, <1>4 DEF Exchange

\* One step of the mesh, action by action.
LEMMA ExchangeKept ==
  ASSUME Exchange, [Next]_vars
  PROVE  Exchange'
<1> USE DEF Exchange
<1>0. Carries(chan)
  BY DEF Carries, ExchangeTypes
<1>1. ASSUME NEW b \in Beacon, SendEmergencyBeacon(b) PROVE Exchange'
  <2>1. Ttl \in Nat /\ Origin[b] \in Node
    BY DisseminationAssumption
  <2>2. Carries(chan')
    BY <1>0, <1>1, <2>1, AnnounceCarries DEF SendEmergencyBeacon
  <2>3. Learns
    BY <1>1, <2>1 DEF SendEmergencyBeacon, Learns, ExchangeTypes, Knows
  <2> QED BY <2>2, <2>3, LearnsKeeps
<1>2. ASSUME NEW n \in Node, NEW b \in Beacon, Advertise(b, n) PROVE Exchange'
  <2>1. Ttl \in Nat
    BY DisseminationAssumption
  <2> QED BY <1>0, <1>2, <2>1, PacketLearns DEF Advertise
<1>3. ASSUME NEW n \in Node, NEW m \in Node, ReceiveAnnounce(n, m) PROVE Exchange'
  <2> DEFINE r == <<m, n>>
             p == Head(chan[r])
  <2>1. r \in link /\ r \in Edge /\ chan[r] # <<>> /\ p.type = "announce"
    BY <1>3 DEF ReceiveAnnounce, Receives, ExchangeTypes
  <2>2. /\ p \in Packet
        /\ Read(n, m) \in [Edge -> Seq(Packet)]
        /\ InTransit(chan[r]) = {p} \cup InTransit(Read(n, m)[r])
        /\ \A e \in Edge : e # r => Read(n, m)[e] = chan[e]
    BY <2>1, ReadTakes
  <2>3. p.beacon \in Beacon /\ p.ttl \in Nat
    BY <2>1, <2>2 DEF Packet
  <2>4. HandlePacket(n, m, p.beacon, p.ttl, Read(n, m)) /\ UNCHANGED <<link, expired, owed, evicted>>
    BY <1>3 DEF ReceiveAnnounce
  <2> HIDE DEF r, p
  <2>5. Carries(Read(n, m))
    BY <2>1, <2>2 DEF Carries, Requests, Responses
  <2> QED BY <2>3, <2>4, <2>5, PacketLearns
<1>4. ASSUME NEW n \in Node, NEW m \in Node, HandleSyncRequest(n, m) PROVE Exchange'
  BY <1>4, RequestAnswered
<1>5. ASSUME NEW n \in Node, NEW m \in Node, HandleSyncResponse(n, m) PROVE Exchange'
  BY <1>5, ResponseRead
<1>6. ASSUME NEW n \in Node, NEW b \in Beacon, FetchServed(n, b) PROVE Exchange'
  <2>1. PICK relays \in SUBSET Component(n) :
          store' = [m \in Node |->
                     IF m \in relays \cup {n} THEN store[m] \cup {b} ELSE store[m]]
    BY <1>6 DEF FetchServed
  <2>2. UNCHANGED <<link, chan, catalog, expired, owed, evicted>>
    BY <1>6 DEF FetchServed
  <2>3. Learns
    BY <2>1, <2>2 DEF Learns, ExchangeTypes, Knows
  <2> QED BY <1>0, <2>2, <2>3, LearnsKeeps
<1>7. ASSUME NEW n \in Node, NEW b \in Beacon, Evict(n, b) PROVE Exchange'
  <2>1. Learns
    BY <1>7 DEF Evict, Learns, ExchangeTypes, Knows
  <2>2. UNCHANGED chan
    BY <1>7 DEF Evict
  <2> QED BY <1>0, <2>1, <2>2, LearnsKeeps
<1>8. ASSUME NEW b \in Beacon, Expire(b) PROVE Exchange'
  <2>1. Learns
    BY <1>8 DEF Expire, Learns, ExchangeTypes, Knows
  <2>2. UNCHANGED chan
    BY <1>8 DEF Expire
  <2> QED BY <1>0, <2>1, <2>2, LearnsKeeps
<1>9. ASSUME NEW n \in Node, NEW m \in Node, PeerConnected(n, m) PROVE Exchange'
  BY <1>9, ConnectKeeps
<1>10. ASSUME NEW n \in Node, NEW m \in Node, PeerDisconnected(n, m) PROVE Exchange'
  BY <1>10, DisconnectKeeps
<1>11. CASE UNCHANGED <<link, chan, store, catalog, expired, owed, evicted>>
  <2>1. Learns
    BY <1>11 DEF Learns, ExchangeTypes, Knows
  <2> QED BY <1>0, <1>11, <2>1, LearnsKeeps
<1>12. ASSUME NEW n \in Node, NEW b \in Beacon, FetchFailed(n, b)
       PROVE  UNCHANGED <<link, chan, store, catalog, expired, owed, evicted>>
  BY <1>12 DEF FetchFailed
<1>13. ASSUME NEW n \in Node, Forget(n)
       PROVE  UNCHANGED <<link, chan, store, catalog, expired, owed, evicted>>
  BY <1>13 DEF Forget
<1>14. CASE UNCHANGED vars
  BY <1>11, <1>14 DEF vars
<1> QED BY <1>1, <1>2, <1>3, <1>4, <1>5, <1>6, <1>7, <1>8, <1>9, <1>10, <1>11, <1>12, <1>13,
           <1>14 DEF Next

-----------------------------------------------------------------------------
(* The flood of an SOS over the mesh as it was when it was sent. *)

IsAnnounce(p, b) == p.type = "announce" /\ p.beacon = b

\* An announcement of b is among the packets s.
Announces(s, b) == \E i \in 1..Len(s) : IsAnnounce(s[i], b)

\* The first announcement of b among the packets s has hops for all but the first
\* c nodes of a path.
Leads(s, b, c) ==
  \E i \in 1..Len(s) :
    /\ IsAnnounce(s[i], b)
    /\ s[i].ttl + c > Ttl
    /\ \A j \in 1..(i - 1) : ~IsAnnounce(s[j], b)

\* n has neither handled an announcement of b nor passed one on.
Untouched(n, b) == b \notin seen[n] /\ \A e \in Edge : e[1] = n => ~Announces(chan[e], b)

\* The nodes F have handled b: they know of it, and each connection that leads out of
\* them carries it; the other nodes have not.
Spreads(b, F) ==
  /\ Origin[b] \in F
  /\ b \in expired \/ \A n \in F \ {Origin[b]} : b \in Knows(n) \cup evicted[n]
  /\ \A e \in link : e[1] \in F /\ e[2] \notin F => Leads(chan[e], b, Cardinality(F))
  /\ \A n \in Node \ F : Untouched(n, b)

FloodTypes ==
  /\ seen \in [Node -> SUBSET Beacon]
  /\ sent \subseteq Beacon
  /\ calm \subseteq sent

\* What was not sent is nowhere.
Unsent == \A b \in Beacon \ sent : \A n \in Node : Untouched(n, b)

Flood ==
  /\ FloodTypes
  /\ Unsent
  /\ Ttl + 2 >= Cardinality(Node) => \A b \in calm : \E F \in SUBSET Node : Spreads(b, F)

\* A packet sent after others: what leads still does, and an announcement leads when
\* none came before it.
LEMMA AppendLeads ==
  ASSUME NEW P, NEW s \in Seq(P), NEW p \in P, NEW b, NEW c
  PROVE  /\ Leads(s, b, c) => Leads(Append(s, p), b, c)
         /\ Announces(Append(s, p), b) => Announces(s, b) \/ IsAnnounce(p, b)
         /\ ~Announces(s, b) /\ IsAnnounce(p, b) /\ p.ttl + c > Ttl => Leads(Append(s, p), b, c)
<1> DEFINE t == Append(s, p)
<1>1. /\ Len(t) = Len(s) + 1
      /\ t[Len(s) + 1] = p
      /\ \A i \in 1..Len(s) : t[i] = s[i]
      /\ Len(s) \in Nat
  BY AppendProperties, LenProperties
<1> HIDE DEF t
<1>2. /\ \A i \in 1..Len(t) : i \in 1..Len(s) \/ i = Len(s) + 1
      /\ \A i \in 1..Len(s) : i \in 1..Len(t)
      /\ Len(s) + 1 \in 1..Len(t)
      /\ \A i \in 1..Len(s) : \A j \in 1..(i - 1) : j \in 1..Len(s)
      /\ \A j \in 1..((Len(s) + 1) - 1) : j \in 1..Len(s)
  BY <1>1
<1>3. ASSUME Leads(s, b, c) PROVE Leads(t, b, c)
  <2>1. PICK i \in 1..Len(s) : /\ IsAnnounce(s[i], b)
                               /\ s[i].ttl + c > Ttl
                               /\ \A j \in 1..(i - 1) : ~IsAnnounce(s[j], b)
    BY <1>3 DEF Leads
  <2>2. i \in 1..Len(t) /\ t[i] = s[i] /\ \A j \in 1..(i - 1) : t[j] = s[j]
    BY <1>1, <1>2
  <2> QED BY <2>1, <2>2 DEF Leads
<1>4. ASSUME Announces(t, b) PROVE Announces(s, b) \/ IsAnnounce(p, b)
  BY <1>1, <1>2, <1>4 DEF Announces
<1>5. ASSUME ~Announces(s, b), IsAnnounce(p, b), p.ttl + c > Ttl PROVE Leads(t, b, c)
  <2>1. \A j \in 1..((Len(s) + 1) - 1) : ~IsAnnounce(t[j], b)
    BY <1>1, <1>2, <1>5 DEF Announces
  <2> QED BY <1>1, <1>2, <1>5, <2>1 DEF Leads
<1> QED BY <1>3, <1>4, <1>5 DEF t

\* A packet read: what leads still does unless this was it.
LEMMA TailLeads ==
  ASSUME NEW P, NEW s \in Seq(P), s # <<>>, NEW b, NEW c
  PROVE  /\ Announces(Tail(s), b) => Announces(s, b)
         /\ IsAnnounce(Head(s), b) => Announces(s, b)
         /\ Leads(s, b, c) /\ ~IsAnnounce(Head(s), b) => Leads(Tail(s), b, c)
         /\ Leads(s, b, c) /\ IsAnnounce(Head(s), b) => Head(s).ttl + c > Ttl
<1> DEFINE t == Tail(s)
<1>1. /\ Len(t) = Len(s) - 1
      /\ \A i \in 1..Len(t) : t[i] = s[i + 1]
      /\ Len(s) \in Nat \ {0}
      /\ Head(s) = s[1]
  BY HeadTailProperties, EmptySeq
<1> HIDE DEF t
<1>2. /\ \A i \in 1..Len(t) : i + 1 \in 1..Len(s)
      /\ 1 \in 1..Len(s)
  BY <1>1
<1>3. Announces(t, b) => Announces(s, b)
  BY <1>1, <1>2 DEF Announces
<1>4. IsAnnounce(Head(s), b) => Announces(s, b)
  BY <1>1, <1>2 DEF Announces
<1>5. ASSUME Leads(s, b, c)
      PROVE  IF IsAnnounce(Head(s), b) THEN Head(s).ttl + c > Ttl ELSE Leads(t, b, c)
  <2>1. PICK i \in 1..Len(s) : /\ IsAnnounce(s[i], b)
                               /\ s[i].ttl + c > Ttl
                               /\ \A j \in 1..(i - 1) : ~IsAnnounce(s[j], b)
    BY <1>5 DEF Leads
  <2>2. CASE i = 1
    BY <1>1, <2>1, <2>2
  <2>3. CASE i # 1
    <3>1. 1 \in 1..(i - 1) /\ i - 1 \in 1..Len(t) /\ (i - 1) + 1 = i
      BY <1>1, <2>3
    <3>2. \A j \in 1..((i - 1) - 1) : j \in 1..Len(t) /\ j + 1 \in 1..(i - 1)
      BY <1>1, <2>3
    <3>3. t[i - 1] = s[i] /\ \A j \in 1..((i - 1) - 1) : t[j] = s[j + 1]
      BY <1>1, <3>1, <3>2
    <3>4. \A j \in 1..((i - 1) - 1) : ~IsAnnounce(t[j], b)
      BY <2>1, <3>2, <3>3
    <3>5. ~IsAnnounce(Head(s), b)
      BY <1>1, <2>1, <3>1
    <3> QED BY <2>1, <3>1, <3>3, <3>4, <3>5 DEF Leads
  <2> QED BY <2>2, <2>3
<1> QED BY <1>3, <1>4, <1>5 DEF t

\* With more nodes behind it an announcement needs fewer hops.
LEMMA LeadsFurther ==
  ASSUME NEW s \in Seq(Packet), NEW b, NEW c \in Nat, Leads(s, b, c), Ttl \in Nat
  PROVE  Leads(s, b, c + 1)
<1>1. PICK i \in 1..Len(s) : /\ IsAnnounce(s[i], b)
                             /\ s[i].ttl + c > Ttl
                             /\ \A j \in 1..(i - 1) : ~IsAnnounce(s[j], b)
  BY DEF Leads
<1>2. s[i].ttl \in Nat
  <2>1. s[i] \in Packet /\ s[i].type = "announce"
    BY <1>1, ElementOfSeq DEF IsAnnounce
  <2> QED BY <2>1 DEF Packet
<1>3. s[i].ttl + (c + 1) > Ttl
  BY <1>1, <1>2
<1> QED BY <1>1, <1>3 DEF Leads

\* The channels d hold no announcement that c did not.
NoNews(c, d) == \A e \in Edge : \A b \in Beacon : Announces(d[e], b) => Announces(c[e], b)

\* What leads in the channels c leads in d.
StillLeads(c, d, b) ==
  \A e \in Edge : \A k \in Nat : Leads(c[e], b, k) => Leads(d[e], b, k)

\* A step that handles no announcement: the flood goes on, unless connections changed.
LEMMA OthersKeepFlood ==
  ASSUME Exchange, Flood, UNCHANGED sent, NoNews(chan, chan'),
         seen' \in [Node -> SUBSET Beacon], \A n \in Node : seen'[n] \subseteq seen[n],
         \/ calm' = {}
         \/ Learns /\ UNCHANGED calm /\ \A b \in Beacon : StillLeads(chan, chan', b)
  PROVE  Flood'
<1>1. FloodTypes'
  BY DEF Flood, FloodTypes
<1>2. \A n \in Node, b \in Beacon : Untouched(n, b) => Untouched(n, b)'
  BY DEF Untouched, NoNews
<1>3. Unsent'
  BY <1>2 DEF Flood, Unsent
<1>4. ASSUME Ttl + 2 >= Cardinality(Node), NEW b \in calm'
      PROVE  \E F \in SUBSET Node : Spreads(b, F)'
  <2>1. Learns /\ b \in calm /\ b \in Beacon /\ StillLeads(chan, chan', b)
    BY <1>4 DEF Flood, FloodTypes
  <2>2. PICK F \in SUBSET Node : Spreads(b, F)
    BY <1>4, <2>1 DEF Flood
  <2>3. Cardinality(F) \in Nat
    BY DisseminationAssumption, FS_Subset, FS_CardinalityType
  <2>4. (b \in expired \/ \A n \in F \ {Origin[b]} : b \in Knows(n) \cup evicted[n])'
    BY <2>1, <2>2 DEF Spreads, Learns
  <2>5. (\A e \in link : e[1] \in F /\ e[2] \notin F => Leads(chan[e], b, Cardinality(F)))'
    BY <2>1, <2>2, <2>3 DEF Spreads, StillLeads, Learns, Exchange, ExchangeTypes
  <2>6. (\A n \in Node \ F : Untouched(n, b))'
    BY <1>2, <2>1, <2>2 DEF Spreads
  <2>7. Spreads(b, F)'
    BY <2>2, <2>4, <2>5, <2>6 DEF Spreads
  <2> QED BY <2>7
<1> QED BY <1>1, <1>3, <1>4 DEF Flood

\* Announcements of b that a node sends to its peers: all else leads as it did, and they
\* lead where none of b was before.
LEMMA SendLeads ==
  ASSUME NEW c \in [Edge -> Seq(Packet)], NEW n \in Node, NEW ps, NEW b \in Beacon, NEW ttl \in Nat
  PROVE  LET d == Send(c, n, ps, Announce(b, ttl)) IN
         /\ \A e \in Edge : e[1] # n => d[e] = c[e]
         /\ \A e \in Edge, b2 \in Beacon : b2 # b /\ Announces(d[e], b2) => Announces(c[e], b2)
         /\ \A b2 \in Beacon : StillLeads(c, d, b2)
         /\ \A e \in Edge \cap link, k \in Nat :
              e[1] = n /\ e[2] \in ps /\ ~Announces(c[e], b) /\ ttl + k > Ttl => Leads(d[e], b, k)
<1> DEFINE p == Announce(b, ttl)
           d == Send(c, n, ps, p)
<1>1. p \in Packet /\ p.ttl = ttl
  BY DEF Announce, Packet
<1>2. \A b2 \in Beacon : IsAnnounce(p, b2) <=> b2 = b
  BY DEF Announce, IsAnnounce
<1>3. d = [e \in Edge |-> IF e[1] = n /\ e[2] \in ps /\ e \in link THEN Append(c[e], p) ELSE c[e]]
  BY DEF Send
<1> HIDE DEF p, d
<1>4. \A e \in Edge : c[e] \in Seq(Packet)
  OBVIOUS
<1>5. \A e \in Edge, b2 \in Beacon, k \in Nat :
        /\ Leads(c[e], b2, k) => Leads(Append(c[e], p), b2, k)
        /\ Announces(Append(c[e], p), b2) => Announces(c[e], b2) \/ IsAnnounce(p, b2)
        /\ ~Announces(c[e], b2) /\ IsAnnounce(p, b2) /\ p.ttl + k > Ttl => Leads(Append(c[e], p), b2, k)
  BY <1>1, <1>4, AppendLeads
<1>6. \A e \in Edge : d[e] = Append(c[e], p) \/ d[e] = c[e]
  BY <1>3
<1>7. \A e \in Edge : e[1] # n => d[e] = c[e]
  BY <1>3
<1>8. \A e \in Edge \cap link : e[1] = n /\ e[2] \in ps => d[e] = Append(c[e], p)
  BY <1>3
<1>9. \A e \in Edge, b2 \in Beacon : b2 # b /\ Announces(d[e], b2) => Announces(c[e], b2)
  <2>1. 0 \in Nat
    OBVIOUS
  <2> QED BY <1>2, <1>5, <1>6, <2>1
<1>10. \A b2 \in Beacon : StillLeads(c, d, b2)
  BY <1>5, <1>6 DEF StillLeads
<1>11. \A e \in Edge \cap link, k \in Nat :
         e[1] = n /\ e[2] \in ps /\ ~Announces(c[e], b) /\ ttl + k > Ttl => Leads(d[e], b, k)
  BY <1>1, <1>2, <1>5, <1>8
<1> QED BY <1>7, <1>9, <1>10, <1>11 DEF d, p

\* The node n handles an announcement of b, read from c: it joins those who handled it,
\* and passes it on to each peer that may not have.
LEMMA PacketFloods ==
  ASSUME Exchange, Flood, NEW n \in Node, NEW from \in Node, NEW b \in sent, NEW ttl \in Nat,
         NEW c \in [Edge -> Seq(Packet)], NoNews(chan, c),
         \A e \in Edge : e[2] # n => c[e] = chan[e],
         \A b2 \in Beacon : b2 # b => StillLeads(chan, c, b2),
         \A F \in SUBSET Node : Spreads(b, F) /\ n \notin F => from \in F /\ ttl + Cardinality(F) > Ttl,
         HandlePacket(n, from, b, ttl, c), Exchange',
         UNCHANGED <<link, expired, sent, calm, owed, evicted>>
  PROVE  Flood'
<1> DEFINE ps == Peers(n) \ {from}
<1>0. b \in Beacon /\ Ttl \in Nat /\ IsFiniteSet(Node)
  BY DisseminationAssumption DEF Flood, FloodTypes
<1>1. seen' = [seen EXCEPT ![n] = @ \cup {b}]
  BY DEF HandlePacket
<1>2. FloodTypes'
  BY <1>0, <1>1 DEF Flood, FloodTypes
<1>3. /\ \A m \in Node : Knows(m) \subseteq Knows(m)'
      /\ b \notin seen[n] /\ b \notin expired => b \in Knows(n)'
  <2>1. CASE b \in seen[n]
    BY <2>1 DEF HandlePacket, Knows
  <2>2. CASE b \notin seen[n]
    <3>1. /\ catalog' = [catalog EXCEPT ![n] = @ \cup Accepted(n, {b})]
          /\ store' = [store EXCEPT ![n] = @ \cup Accepted(n, {b})]
      BY <2>2 DEF HandlePacket, HandleContentAnnounce
    <3>2. b \in store[n] \/ b \in expired \/ b \in Accepted(n, {b})
      BY DEF Accepted
    <3> QED BY <3>1, <3>2 DEF Knows, Exchange, ExchangeTypes
  <2> QED BY <2>1, <2>2
<1>4. /\ \A e \in Edge : e[1] # n => chan'[e] = c[e]
      /\ \A e \in Edge, b2 \in Beacon : b2 # b /\ Announces(chan'[e], b2) => Announces(chan[e], b2)
      /\ \A e \in Edge : e[1] # n /\ Announces(chan'[e], b) => Announces(chan[e], b)
      /\ \A b2 \in Beacon : StillLeads(c, chan', b2)
      /\ b \notin seen[n] /\ ttl > 0 =>
           \A e \in Edge \cap link, k \in Nat :
             e[1] = n /\ e[2] \in ps /\ ~Announces(c[e], b) /\ (ttl - 1) + k > Ttl => Leads(chan'[e], b, k)
  <2>1. CASE b \notin seen[n] /\ ttl > 0
    <3> DEFINE left == ttl - 1
    <3>1. left \in Nat /\ chan' = Send(c, n, ps, Announce(b, left))
      BY <2>1 DEF HandlePacket, Forwards
    <3> HIDE DEF ps, left
    <3>2. /\ \A e \in Edge : e[1] # n => chan'[e] = c[e]
          /\ \A e \in Edge, b2 \in Beacon : b2 # b /\ Announces(chan'[e], b2) => Announces(c[e], b2)
          /\ \A b2 \in Beacon : StillLeads(c, chan', b2)
          /\ \A e \in Edge \cap link, k \in Nat :
               e[1] = n /\ e[2] \in ps /\ ~Announces(c[e], b) /\ left + k > Ttl
                 => Leads(chan'[e], b, k)
      <4>1. LET d == Send(c, n, ps, Announce(b, left)) IN
            /\ \A e \in Edge : e[1] # n => d[e] = c[e]
            /\ \A e \in Edge, b2 \in Beacon : b2 # b /\ Announces(d[e], b2) => Announces(c[e], b2)
            /\ \A b2 \in Beacon : StillLeads(c, d, b2)
            /\ \A e \in Edge \cap link, k \in Nat :
                 e[1] = n /\ e[2] \in ps /\ ~Announces(c[e], b) /\ left + k > Ttl => Leads(d[e], b, k)
        BY <1>0, <3>1, SendLeads
      <4> QED BY <3>1, <4>1
    <3> QED BY <1>0, <3>2 DEF NoNews, left
  <2>2. CASE ~(b \notin seen[n] /\ ttl > 0)
    <3>1. chan' = c
      BY <2>2 DEF HandlePacket, Forwards
    <3> QED BY <1>0, <2>2, <3>1 DEF NoNews, StillLeads
  <2> QED BY <2>1, <2>2
<1> HIDE DEF ps
<1>5. /\ \A m \in Node, b2 \in Beacon : b2 # b /\ Untouched(m, b2) => Untouched(m, b2)'
      /\ \A m \in Node : m # n /\ Untouched(m, b) => Untouched(m, b)'
  BY <1>0, <1>1, <1>4 DEF Untouched, Flood, FloodTypes
<1>6. Unsent'
  BY <1>5 DEF Flood, Unsent
<1>7. ASSUME Ttl + 2 >= Cardinality(Node), NEW b2 \in calm, b2 # b
      PROVE  \E F \in SUBSET Node : Spreads(b2, F)'
  <2>1. b2 \in Beacon
    BY DEF Flood, FloodTypes
  <2>2. PICK F \in SUBSET Node : Spreads(b2, F)
    BY <1>7 DEF Flood
  <2>3. Cardinality(F) \in Nat
    BY <1>0, FS_Subset, FS_CardinalityType
  <2>4. \A e \in Edge : Leads(chan[e], b2, Cardinality(F)) => Leads(chan'[e], b2, Cardinality(F))
    BY <1>4, <1>7, <2>1, <2>3 DEF StillLeads
  <2>5. (b2 \in expired \/ \A m \in F \ {Origin[b2]} : b2 \in Knows(m) \cup evicted[m])'
    BY <1>3, <2>2 DEF Spreads
  <2>6. (\A e \in link : e[1] \in F /\ e[2] \notin F => Leads(chan[e], b2, Cardinality(F)))'
    BY <2>2, <2>4 DEF Spreads, Exchange, ExchangeTypes
  <2>7. (\A m \in Node \ F : Untouched(m, b2))'
    BY <1>5, <1>7, <2>1, <2>2 DEF Spreads
  <2>8. Spreads(b2, F)'
    BY <2>2, <2>5, <2>6, <2>7 DEF Spreads
  <2> QED BY <2>8
<1>8. ASSUME Ttl + 2 >= Cardinality(Node), b \in calm
      PROVE  \E F \in SUBSET Node : Spreads(b, F)'
  <2>1. PICK F \in SUBSET Node : Spreads(b, F)
    BY <1>8 DEF Flood
  <2>2. IsFiniteSet(F) /\ Cardinality(F) \in Nat /\ Cardinality(F) <= Cardinality(Node)
        /\ Cardinality(Node) \in Nat
    BY <1>0, FS_Subset, FS_CardinalityType
  <2>3. CASE n \in F
    <3>1. (b \in expired \/ \A m \in F \ {Origin[b]} : b \in Knows(m) \cup evicted[m])'
      BY <1>3, <2>1 DEF Spreads
    <3>2. (\A e \in link : e[1] \in F /\ e[2] \notin F => Leads(chan[e], b, Cardinality(F)))'
      <4> SUFFICES ASSUME NEW e \in link, e[1] \in F, e[2] \notin F
                   PROVE  Leads(chan'[e], b, Cardinality(F))
        OBVIOUS
      <4>1. e \in Edge /\ c[e] = chan[e] /\ Leads(chan[e], b, Cardinality(F))
        BY <2>1, <2>3 DEF Spreads, Exchange, ExchangeTypes
      <4> QED BY <1>0, <1>4, <2>2, <4>1 DEF StillLeads
    <3>3. (\A m \in Node \ F : Untouched(m, b))'
      BY <1>5, <2>1, <2>3 DEF Spreads
    <3>4. Spreads(b, F)'
      BY <2>1, <3>1, <3>2, <3>3 DEF Spreads
    <3> QED BY <3>4
  <2>4. CASE n \notin F
    <3> DEFINE G == F \cup {n}
    <3>1. from \in F /\ ttl + Cardinality(F) > Ttl /\ Untouched(n, b)
      BY <2>1, <2>4 DEF Spreads
    <3>0. IsFiniteSet(F) /\ Cardinality(F) \in Nat /\ F \in SUBSET Node
      BY <2>2
    <3>2. Cardinality(G) = Cardinality(F) + 1 /\ Cardinality(G) \in Nat /\ G \in SUBSET Node
      <4>1. Cardinality(G) = Cardinality(F) + 1
        BY <2>4, <3>0, FS_AddElement
      <4> QED BY <3>0, <4>1
    <3>3. b \notin seen[n] /\ \A e \in Edge : e[1] = n => ~Announces(c[e], b)
      BY <1>0, <3>1 DEF Untouched, NoNews
    <3>4. (b \in expired \/ \A m \in G \ {Origin[b]} : b \in Knows(m) \cup evicted[m])'
      BY <1>3, <2>1, <3>3 DEF Spreads
    <3>5. (\A e \in link : e[1] \in G /\ e[2] \notin G => Leads(chan[e], b, Cardinality(G)))'
      <4> SUFFICES ASSUME NEW e \in link, e[1] \in G, e[2] \notin G
                   PROVE  Leads(chan'[e], b, Cardinality(G))
        OBVIOUS
      <4>1. e \in Edge /\ e[1] \in Node /\ e[2] \in Node /\ e = <<e[1], e[2]>>
        BY Ends DEF Exchange
      <4>2. CASE e[1] # n
        <5>1. c[e] = chan[e] /\ Leads(chan[e], b, Cardinality(F))
          BY <2>1, <4>1, <4>2 DEF Spreads
        <5>2. Leads(chan'[e], b, Cardinality(F))
          BY <1>0, <1>4, <2>2, <4>1, <5>1 DEF StillLeads
        <5>3. chan'[e] \in Seq(Packet)
          BY <4>1 DEF ExchangeTypes, Exchange
        <5> QED BY <1>0, <2>2, <3>2, <5>2, <5>3, LeadsFurther
      <4>3. CASE e[1] = n
        <5>1. e[2] \in ps
          BY <3>1, <4>1, <4>3 DEF ps, Peers
        <5>2. Cardinality(G) < Cardinality(Node)
          <6> HIDE DEF G
          <6>1. G # Node
            BY <4>1
          <6> QED BY <1>0, <2>2, <3>2, <6>1, FS_Subset
        <5>3. ttl > 0 /\ (ttl - 1) + Cardinality(G) > Ttl
          BY <1>0, <1>8, <2>2, <3>1, <3>2, <5>2
        <5> QED BY <1>4, <3>2, <3>3, <4>1, <4>3, <5>1, <5>3
      <4> QED BY <4>2, <4>3
    <3>6. (\A m \in Node \ G : Untouched(m, b))'
      BY <1>5, <2>1 DEF Spreads
    <3>7. Spreads(b, G)'
      BY <2>1, <3>4, <3>5, <3>6 DEF Spreads
    <3> QED BY <3>2, <3>7
  <2> QED BY <2>3, <2>4
<1> QED BY <1>2, <1>6, <1>7, <1>8 DEF Flood

\* Nothing was sent at the start.
LEMMA InitFlood == Init => Flood
<1> SUFFICES ASSUME Init PROVE Flood
  OBVIOUS
<1>1. FloodTypes
  BY DEF Init, FloodTypes
<1>2. Unsent
  <2>1. \A b : ~Announces(<<>>, b)
    BY DEF Announces
  <2> QED BY <2>1 DEF Init, Unsent, Untouched
<1>3. calm = {}
  BY DEF Init
<1> QED BY <1>1, <1>2, <1>3 DEF Flood

\* An SOS sent: its origin alone has handled it.
LEMMA SendFloods ==
  ASSUME Exchange, Flood, NEW b \in Beacon, SendEmergencyBeacon(b), Exchange'
  PROVE  Flood'
<1> DEFINE n == Origin[b]
<1>0. n \in Node /\ Ttl \in Nat /\ chan \in [Edge -> Seq(Packet)]
  BY DisseminationAssumption DEF Exchange, ExchangeTypes
<1>1. /\ b \notin sent
      /\ sent' = sent \cup {b}
      /\ calm' = calm \cup {b}
      /\ seen' = [seen EXCEPT ![n] = @ \cup {b}]
      /\ store' = [store EXCEPT ![n] = @ \cup {b}]
      /\ chan' = Send(chan, n, Peers(n), Announce(b, Ttl))
      /\ UNCHANGED <<link, catalog, expired, evicted>>
  BY DEF SendEmergencyBeacon
<1> HIDE DEF n
<1>2. FloodTypes'
  BY <1>0, <1>1 DEF Flood, FloodTypes
<1>3. LET d == Send(chan, n, Peers(n), Announce(b, Ttl)) IN
      /\ \A e \in Edge : e[1] # n => d[e] = chan[e]
      /\ \A e \in Edge, b2 \in Beacon : b2 # b /\ Announces(d[e], b2) => Announces(chan[e], b2)
      /\ \A b2 \in Beacon : StillLeads(chan, d, b2)
      /\ \A e \in Edge \cap link, k \in Nat :
           e[1] = n /\ e[2] \in Peers(n) /\ ~Announces(chan[e], b) /\ Ttl + k > Ttl => Leads(d[e], b, k)
  BY <1>0, SendLeads
<1>4. /\ \A e \in Edge : e[1] # n => chan'[e] = chan[e]
      /\ \A e \in Edge, b2 \in Beacon : b2 # b /\ Announces(chan'[e], b2) => Announces(chan[e], b2)
      /\ \A b2 \in Beacon : StillLeads(chan, chan', b2)
      /\ \A e \in Edge \cap link, k \in Nat :
           e[1] = n /\ e[2] \in Peers(n) /\ ~Announces(chan[e], b) /\ Ttl + k > Ttl
             => Leads(chan'[e], b, k)
  BY <1>1, <1>3
<1>5. /\ \A m \in Node, b2 \in Beacon : b2 # b /\ Untouched(m, b2) => Untouched(m, b2)'
      /\ \A m \in Node : m # n /\ Untouched(m, b) => Untouched(m, b)'
  BY <1>0, <1>1, <1>4 DEF Untouched, Flood, FloodTypes
<1>6. Unsent'
  BY <1>1, <1>5 DEF Flood, Unsent
<1>7. \A m \in Node : Untouched(m, b)
  BY <1>1 DEF Flood, Unsent
<1>8. ASSUME NEW b2 \in calm, Ttl + 2 >= Cardinality(Node) PROVE \E F \in SUBSET Node : Spreads(b2, F)'
  <2>1. b2 \in Beacon /\ b2 # b
    BY <1>1 DEF Flood, FloodTypes
  <2>2. PICK F \in SUBSET Node : Spreads(b2, F)
    BY <1>8 DEF Flood
  <2>3. Cardinality(F) \in Nat
    BY DisseminationAssumption, FS_Subset, FS_CardinalityType
  <2>4. (b2 \in expired \/ \A m \in F \ {Origin[b2]} : b2 \in Knows(m) \cup evicted[m])'
    BY <1>0, <1>1, <2>2 DEF Spreads, Knows, Exchange, ExchangeTypes
  <2>5. (\A e \in link : e[1] \in F /\ e[2] \notin F => Leads(chan[e], b2, Cardinality(F)))'
    BY <1>1, <1>4, <2>1, <2>2, <2>3 DEF Spreads, StillLeads, Exchange, ExchangeTypes
  <2>6. (\A m \in Node \ F : Untouched(m, b2))'
    BY <1>5, <2>1, <2>2 DEF Spreads
  <2>7. Spreads(b2, F)'
    BY <2>2, <2>4, <2>5, <2>6 DEF Spreads
  <2> QED BY <2>7
<1>9. \E F \in SUBSET Node : Spreads(b, F)'
  <2>1. Cardinality({n}) = 1
    BY FS_Singleton
  <2>2. (\A e \in link : e[1] \in {n} /\ e[2] \notin {n} => Leads(chan[e], b, 1))'
    <3> SUFFICES ASSUME NEW e \in link, e[1] = n PROVE Leads(chan'[e], b, 1)
      BY <1>1
    <3>1. e \in Edge /\ e[2] \in Peers(n)
      BY Ends DEF Exchange, Peers
    <3>2. ~Announces(chan[e], b)
      BY <1>0, <1>7, <3>1 DEF Untouched
    <3>3. Ttl + 1 > Ttl
      BY <1>0
    <3> QED BY <1>4, <3>1, <3>2, <3>3
  <2>3. (\A m \in Node \ {n} : Untouched(m, b))'
    BY <1>5, <1>7
  <2>4. Origin[b] \in {n} /\ {n} \ {Origin[b]} = {}
    BY DEF n
  <2>5. Spreads(b, {n})'
    BY <2>1, <2>2, <2>3, <2>4 DEF Spreads
  <2> QED BY <1>0, <2>5
<1> QED BY <1>1, <1>2, <1>6, <1>8, <1>9 DEF Flood

\* An announcement heard by radio has all its hops left.
LEMMA RadioFloods ==
  ASSUME Exchange, Flood, NEW n \in Node, NEW b \in Beacon, Advertise(b, n), Exchange'
  PROVE  Flood'
<1>1. /\ b \in sent /\ HandlePacket(n, Origin[b], b, Ttl, chan)
      /\ UNCHANGED <<link, expired, sent, calm, owed, evicted>>
  BY DEF Advertise
<1>2. Origin[b] \in Node /\ Ttl \in Nat /\ chan \in [Edge -> Seq(Packet)]
  BY DisseminationAssumption DEF Exchange, ExchangeTypes
<1>3. NoNews(chan, chan) /\ \A b2 \in Beacon : StillLeads(chan, chan, b2)
  BY DEF NoNews, StillLeads
<1>4. ASSUME NEW F \in SUBSET Node, Spreads(b, F)
      PROVE  Origin[b] \in F /\ Ttl + Cardinality(F) > Ttl
  <2>1. Origin[b] \in F
    BY <1>4 DEF Spreads
  <2>2. IsFiniteSet(F) /\ Cardinality(F) \in Nat
    BY DisseminationAssumption, FS_Subset, FS_CardinalityType
  <2>3. Cardinality(F) # 0
    BY <2>1, <2>2, FS_EmptySet
  <2> QED BY <1>2, <2>1, <2>2, <2>3
<1> QED BY <1>1, <1>2, <1>3, <1>4, PacketFloods

\* An announcement read from a connection: the first of its SOS there, if its reader has
\* not handled one.
LEMMA AnnounceFloods ==
  ASSUME Exchange, Flood, NEW n \in Node, NEW m \in Node, ReceiveAnnounce(n, m), Exchange'
  PROVE  Flood'
<1> DEFINE r == <<m, n>>
           p == Head(chan[r])
           c == Read(n, m)
<1>1. /\ r \in link /\ r \in Edge /\ chan[r] # <<>> /\ p.type = "announce"
      /\ chan[r] \in Seq(Packet)
  BY DEF ReceiveAnnounce, Receives, Exchange, ExchangeTypes
<1>2. /\ p \in Packet
      /\ c \in [Edge -> Seq(Packet)]
      /\ \A e \in Edge : e # r => c[e] = chan[e]
  BY <1>1, ReadTakes DEF Exchange
<1>3. p.beacon \in Beacon /\ p.ttl \in Nat
  BY <1>1, <1>2 DEF Packet
<1>4. c[r] = Tail(chan[r])
  BY <1>1 DEF Read, Exchange, ExchangeTypes
<1>5. /\ HandlePacket(n, m, p.beacon, p.ttl, c)
      /\ UNCHANGED <<link, expired, sent, calm, owed, evicted>>
  BY DEF ReceiveAnnounce
<1>6. /\ \A b \in Beacon : IsAnnounce(p, b) <=> b = p.beacon
      /\ r[1] = m /\ r[2] = n
  BY <1>1 DEF IsAnnounce
<1> HIDE DEF r, c, p
<1>7. \A b \in Beacon, k \in Nat :
        /\ Announces(c[r], b) => Announces(chan[r], b)
        /\ IsAnnounce(p, b) => Announces(chan[r], b)
        /\ Leads(chan[r], b, k) /\ ~IsAnnounce(p, b) => Leads(c[r], b, k)
        /\ Leads(chan[r], b, k) /\ IsAnnounce(p, b) => p.ttl + k > Ttl
  BY <1>1, <1>4, TailLeads DEF p
<1>8. NoNews(chan, c)
  <2>1. 0 \in Nat
    OBVIOUS
  <2> QED BY <1>2, <1>7, <2>1 DEF NoNews
<1>9. \A b \in Beacon : b # p.beacon => StillLeads(chan, c, b)
  BY <1>2, <1>6, <1>7 DEF StillLeads
<1>10. \A e \in Edge : e[2] # n => c[e] = chan[e]
  BY <1>2, <1>6
<1>11. ~Untouched(m, p.beacon)
  <2>1. Announces(chan[r], p.beacon)
    BY <1>3, <1>6, <1>7
  <2> QED BY <1>1, <1>6, <2>1 DEF Untouched
<1>12. p.beacon \in sent
  BY <1>3, <1>11 DEF Flood, Unsent
<1>13. ASSUME NEW F \in SUBSET Node, Spreads(p.beacon, F), n \notin F
       PROVE  m \in F /\ p.ttl + Cardinality(F) > Ttl
  <2>1. m \in F
    BY <1>11, <1>13 DEF Spreads
  <2>2. Leads(chan[r], p.beacon, Cardinality(F))
    BY <1>1, <1>6, <1>13, <2>1 DEF Spreads
  <2>3. Cardinality(F) \in Nat
    BY DisseminationAssumption, FS_Subset, FS_CardinalityType
  <2> QED BY <1>3, <1>6, <1>7, <2>1, <2>2, <2>3
<1> QED BY <1>2, <1>3, <1>5, <1>8, <1>9, <1>10, <1>12, <1>13, PacketFloods

\* A packet of an exchange read from a connection: what leads still does.
LEMMA SyncReadLeads ==
  ASSUME Exchange, NEW n \in Node, NEW m \in Node,
         <<m, n>> \in link, chan[<<m, n>>] # <<>>, Head(chan[<<m, n>>]).type # "announce"
  PROVE  NoNews(chan, Read(n, m)) /\ \A b \in Beacon : StillLeads(chan, Read(n, m), b)
<1> DEFINE r == <<m, n>>
           p == Head(chan[r])
           c == Read(n, m)
<1>1. r \in link /\ r \in Edge /\ chan[r] # <<>> /\ chan[r] \in Seq(Packet)
  BY DEF Exchange, ExchangeTypes
<1>2. \A e \in Edge : e # r => c[e] = chan[e]
  BY <1>1, ReadTakes DEF Exchange
<1>3. c[r] = Tail(chan[r])
  BY <1>1 DEF Read, Exchange, ExchangeTypes
<1>4. \A b \in Beacon : ~IsAnnounce(p, b)
  BY DEF IsAnnounce
<1> HIDE DEF r, c, p
<1>5. \A b \in Beacon, k \in Nat :
        /\ Announces(c[r], b) => Announces(chan[r], b)
        /\ Leads(chan[r], b, k) /\ ~IsAnnounce(p, b) => Leads(c[r], b, k)
  BY <1>1, <1>3, TailLeads DEF p
<1>6. NoNews(chan, c)
  <2>1. 0 \in Nat
    OBVIOUS
  <2> QED BY <1>2, <1>5, <2>1 DEF NoNews
<1>7. \A b \in Beacon : StillLeads(chan, c, b)
  BY <1>2, <1>4, <1>5 DEF StillLeads
<1> QED BY <1>6, <1>7 DEF c

\* A request handled.
LEMMA RequestFloods ==
  ASSUME Exchange, Flood, NEW n \in Node, NEW m \in Node, HandleSyncRequest(n, m), Exchange'
  PROVE  Flood'
<1> DEFINE c == Read(n, m)
           news == ListKnownContent(n) \ Head(chan[<<m, n>>]).known
           p == SyncResponse(news)
<1>1. /\ <<m, n>> \in link /\ chan[<<m, n>>] # <<>>
      /\ Head(chan[<<m, n>>]).type = "syncRequest"
      /\ chan' = IF news = {} THEN c ELSE Send(c, n, {m}, p)
      /\ UNCHANGED <<link, seen, store, catalog, sent, expired, calm, owed, evicted>>
  BY DEF HandleSyncRequest, Receives
<1>2. NoNews(chan, c) /\ \A b \in Beacon : StillLeads(chan, c, b)
  BY <1>1, SyncReadLeads
<1>3. c \in [Edge -> Seq(Packet)]
  BY <1>1, ReadTakes DEF Exchange
<1>4. p \in Packet /\ \A b \in Beacon : ~IsAnnounce(p, b)
  BY DEF SyncResponse, Packet, IsAnnounce, ListKnownContent, Exchange, ExchangeTypes
<1> HIDE DEF c, news, p
<1>5. \A e \in Edge : chan'[e] = c[e] \/ chan'[e] = Append(c[e], p)
  BY <1>1, <1>3 DEF Send
<1>6. \A e \in Edge, b \in Beacon, k \in Nat :
        /\ Leads(c[e], b, k) => Leads(Append(c[e], p), b, k)
        /\ Announces(Append(c[e], p), b) => Announces(c[e], b) \/ IsAnnounce(p, b)
  BY <1>3, <1>4, AppendLeads
<1>7. NoNews(chan, chan')
  <2>1. 0 \in Nat
    OBVIOUS
  <2> QED BY <1>2, <1>4, <1>5, <1>6, <2>1 DEF NoNews
<1>8. \A b \in Beacon : StillLeads(chan, chan', b)
  BY <1>2, <1>5, <1>6 DEF StillLeads
<1>9. Learns
  BY <1>1 DEF Learns, Exchange, ExchangeTypes, Knows
<1> QED BY <1>1, <1>7, <1>8, <1>9, OthersKeepFlood DEF Flood, FloodTypes

\* An answer handled.
LEMMA ResponseFloods ==
  ASSUME Exchange, Flood, NEW n \in Node, NEW m \in Node, HandleSyncResponse(n, m), Exchange'
  PROVE  Flood'
<1>1. /\ <<m, n>> \in link /\ chan[<<m, n>>] # <<>>
      /\ Head(chan[<<m, n>>]).type = "syncResponse"
      /\ chan' = Read(n, m)
      /\ catalog' = [catalog EXCEPT ![n] = @ \cup Accepted(n, Head(chan[<<m, n>>]).entries)]
      /\ UNCHANGED <<link, seen, store, sent, expired, calm, owed, evicted>>
  BY DEF HandleSyncResponse, Receives
<1>2. NoNews(chan, chan') /\ \A b \in Beacon : StillLeads(chan, chan', b)
  BY <1>1, SyncReadLeads
<1>3. Learns
  <2>1. \A k \in Node : catalog[k] \subseteq catalog'[k]
    BY <1>1 DEF Exchange, ExchangeTypes
  <2> QED BY <1>1, <2>1 DEF Learns, Exchange, ExchangeTypes, Knows
<1> QED BY <1>1, <1>2, <1>3, OthersKeepFlood DEF Flood, FloodTypes

\* A connection opened or closed: no SOS sent before counts any more.
LEMMA ConnectionsFlood ==
  ASSUME Exchange, Flood, NEW n \in Node, NEW m \in Node,
         PeerConnected(n, m) \/ PeerDisconnected(n, m)
  PROVE  Flood'
<1>1. calm' = {} /\ UNCHANGED <<sent, seen>>
  BY DEF PeerConnected, PeerDisconnected
<1>2. NoNews(chan, chan')
  <2>1. \A b \in Beacon : \A S : ~Announces(<<SyncRequest(S)>>, b) /\ ~Announces(<<>>, b)
    BY DEF Announces, IsAnnounce, SyncRequest
  <2>2. CASE PeerConnected(n, m)
    BY <2>1, <2>2 DEF PeerConnected, NoNews
  <2>3. CASE PeerDisconnected(n, m)
    BY <2>1, <2>3 DEF PeerDisconnected, NoNews
  <2> QED BY <2>2, <2>3
<1> QED BY <1>1, <1>2, OthersKeepFlood DEF Flood, FloodTypes

\* One step of the mesh, action by action.
LEMMA FloodKept ==
  ASSUME Exchange, Flood, [Next]_vars
  PROVE  Flood'
<1>0. Exchange'
  BY ExchangeKept
<1> DEFINE Still == NoNews(chan, chan') /\ \A b \in Beacon : StillLeads(chan, chan', b)
<1>1. UNCHANGED chan => Still
  BY DEF NoNews, StillLeads
<1> HIDE DEF Still
<1>2. ASSUME Learns, UNCHANGED <<chan, seen, sent, calm>> PROVE Flood'
  BY <1>1, <1>2, OthersKeepFlood DEF Still, Flood, FloodTypes
<1>3. ASSUME NEW b \in Beacon, SendEmergencyBeacon(b) PROVE Flood'
  BY <1>0, <1>3, SendFloods
<1>4. ASSUME NEW n \in Node, NEW b \in Beacon, Advertise(b, n) PROVE Flood'
  BY <1>0, <1>4, RadioFloods
<1>5. ASSUME NEW n \in Node, NEW m \in Node, ReceiveAnnounce(n, m) PROVE Flood'
  BY <1>0, <1>5, AnnounceFloods
<1>6. ASSUME NEW n \in Node, NEW m \in Node, HandleSyncRequest(n, m) PROVE Flood'
  BY <1>0, <1>6, RequestFloods
<1>7. ASSUME NEW n \in Node, NEW m \in Node, HandleSyncResponse(n, m) PROVE Flood'
  BY <1>0, <1>7, ResponseFloods
<1>8. ASSUME NEW n \in Node, NEW m \in Node, PeerConnected(n, m) \/ PeerDisconnected(n, m)
      PROVE  Flood'
  BY <1>8, ConnectionsFlood
<1>9. ASSUME NEW n \in Node, NEW b \in Beacon, FetchServed(n, b) PROVE Flood'
  <2>1. PICK relays \in SUBSET Component(n) :
          store' = [m \in Node |->
                     IF m \in relays \cup {n} THEN store[m] \cup {b} ELSE store[m]]
    BY <1>9 DEF FetchServed
  <2>2. UNCHANGED <<link, chan, seen, catalog, sent, expired, calm, owed, evicted>>
    BY <1>9 DEF FetchServed
  <2>3. Learns
    BY <2>1, <2>2 DEF Learns, Exchange, ExchangeTypes, Knows
  <2> QED BY <1>2, <2>2, <2>3
<1>10. ASSUME NEW n \in Node, NEW b \in Beacon, Evict(n, b) PROVE Flood'
  <2>1. Learns
    BY <1>10 DEF Evict, Learns, Exchange, ExchangeTypes, Knows
  <2> QED BY <1>2, <1>10, <2>1 DEF Evict
<1>11. ASSUME NEW b \in Beacon, Expire(b) PROVE Flood'
  <2>1. Learns
    BY <1>11 DEF Expire, Learns, Exchange, ExchangeTypes, Knows
  <2> QED BY <1>2, <1>11, <2>1 DEF Expire
<1>12. ASSUME UNCHANGED <<link, chan, seen, store, catalog, sent, expired, calm, owed, evicted>>
       PROVE  Flood'
  <2>1. Learns
    BY <1>12 DEF Learns, Exchange, ExchangeTypes, Knows
  <2> QED BY <1>2, <1>12, <2>1
<1>13. ASSUME NEW n \in Node, NEW b \in Beacon, FetchFailed(n, b) PROVE Flood'
  BY <1>12, <1>13 DEF FetchFailed
<1>14. ASSUME NEW n \in Node, Forget(n) PROVE Flood'
  <2>1. UNCHANGED <<link, chan, store, catalog, sent, expired, calm, owed, evicted>>
        /\ seen' = [seen EXCEPT ![n] = {}]
    BY <1>14 DEF Forget
  <2>2. seen' \in [Node -> SUBSET Beacon] /\ \A m \in Node : seen'[m] \subseteq seen[m]
    BY <2>1 DEF Flood, FloodTypes
  <2>3. Learns
    BY <2>1 DEF Learns, Exchange, ExchangeTypes, Knows
  <2> QED BY <1>1, <2>1, <2>2, <2>3, OthersKeepFlood DEF Still
<1>15. CASE UNCHANGED vars
  BY <1>12, <1>15 DEF vars
<1> QED BY <1>3, <1>4, <1>5, <1>6, <1>7, <1>8, <1>9, <1>10, <1>11, <1>13, <1>14, <1>15 DEF Next

-----------------------------------------------------------------------------
\* The inductive invariant holds in every reachable state.
LEMMA Invariance == Spec => []Inv
<1>1. Inv /\ [Next]_vars => Inv'
  BY StepKeeps
<1> QED BY InitInv, <1>1, PTL DEF Spec

\* An SOS whose metadata a node accepted is shown to who can read it, being
\* fetched, or was given up at the cap or on a rejected fetch.
THEOREM NoneDroppedSilently == Spec => []AcceptedIsShown
<1>1. Inv => AcceptedIsShown
  BY DEF Inv
<1> QED BY <1>1, Invariance, PTL

\* EmergencyBeacons keeps the first report of an SOS, whatever comes later.
THEOREM FirstReportStays == Spec => SightingSticks
<1>1. Inv /\ [Next]_vars =>
        [\A n \in Node : \A b \in DOMAIN sight[n] :
           b \in DOMAIN sight'[n] /\ sight'[n][b] = sight[n][b]]_vars
  BY StepKeeps DEF Keeps
<1> QED BY <1>1, Invariance, PTL DEF Spec, SightingSticks

\* Two nodes that connected know of all that the other knew when they met, once
\* nothing is in transit.
THEOREM CatalogsReconcile == Spec => []Reconciled
<1>1. Exchange => Reconciled
  <2> SUFFICES ASSUME Exchange, Quiet, NEW e \in link
               PROVE  Missing(e) = {}
    BY DEF Reconciled, Missing, Knows
  <2>1. chan[e] = <<>> /\ chan[Back(e)] = <<>>
    BY Ends DEF Quiet, Exchange
  <2>2. Requests(<<>>) = {} /\ Responses(<<>>) = {}
    BY DEF Requests, Responses, InTransit
  <2> QED BY <2>1, <2>2 DEF Exchange, OnItsWay
<1>2. Exchange /\ [Next]_vars => Exchange'
  BY ExchangeKept
<1> QED BY <1>1, <1>2, InitExchange, PTL DEF Spec

\* An SOS floods the whole mesh connected to its sender, when no connection came or went
\* since, although each node forwards only the first copy that it gets.
THEOREM FloodReachesMesh == Spec => []ReachesConnectedMesh
<1>1. Exchange /\ Flood => ReachesConnectedMesh
  <2> SUFFICES ASSUME Exchange, Flood, Quiet, Ttl >= Cardinality(Node) - 2,
                      NEW b \in calm \ expired, NEW n \in Component(Origin[b]) \ {Origin[b]}
               PROVE  b \in Knows(n) \cup evicted[n]
    BY DEF ReachesConnectedMesh, Knows
  <2>1. Ttl + 2 >= Cardinality(Node)
    BY DisseminationAssumption, FS_CardinalityType
  <2>2. PICK F \in SUBSET Node : Spreads(b, F)
    BY <2>1 DEF Flood
  <2>3. \A m \in F : Peers(m) \subseteq F
    <3> SUFFICES ASSUME NEW m \in F, NEW k \in Node, <<m, k>> \in link, k \notin F
                 PROVE  FALSE
      BY DEF Peers
    <3>1. Leads(chan[<<m, k>>], b, Cardinality(F))
      BY <2>2 DEF Spreads
    <3>2. chan[<<m, k>>] = <<>>
      BY DEF Quiet, Exchange, ExchangeTypes
    <3> QED BY <3>1, <3>2 DEF Leads
  <2>4. n \in F
    BY <2>2, <2>3 DEF Component, Spreads
  <2> QED BY <2>2, <2>4 DEF Spreads
<1>2. Exchange /\ Flood /\ [Next]_vars => (Exchange /\ Flood)'
  BY ExchangeKept, FloodKept
<1> QED BY <1>1, <1>2, InitExchange, InitFlood, PTL DEF Spec

-----------------------------------------------------------------------------
(* The portal's command channel, for any rows, any number a tick takes and *)
(* any number of restarts: one lemma for each step that tells the Box, the *)
(* backend or the database something new.                                  *)

LEMMA CommandsStart ==
  ASSUME Cmd!Init, Cmd!CommandChannelAssumption
  PROVE  Cmd!ChannelInv
BY DEF Cmd!Init, Cmd!CommandChannelAssumption, Cmd!ChannelInv, Cmd!OnlyPendingOffered,
    Cmd!AnswerIsTrue, Cmd!ActedOnIsKnown, Cmd!DeliveredWasAccepted

\* The portal writes a row that was not there: it is on nobody's list yet.
LEMMA PortalStep ==
  ASSUME Cmd!ChannelInv, NEW c \in CommandRows, NEW k, NEW id, Cmd!Insert(c, k, id)
  PROVE  Cmd!ChannelInv'
BY DEF Cmd!ChannelInv, Cmd!Insert, Cmd!poller, Cmd!node, Cmd!OnlyPendingOffered, Cmd!Pending,
    Cmd!AnswerIsTrue, Cmd!ActedOnIsKnown, Cmd!Known, Cmd!DeliveredWasAccepted

LEMMA TickStep ==
  ASSUME Cmd!ChannelInv, Cmd!Tick
  PROVE  Cmd!ChannelInv'
BY DEF Cmd!ChannelInv, Cmd!Tick, Cmd!Idle, Cmd!node, Cmd!OnlyPendingOffered, Cmd!Pending,
    Cmd!AnswerIsTrue, Cmd!ActedOnIsKnown, Cmd!Known, Cmd!DeliveredWasAccepted

LEMMA PostStep ==
  ASSUME Cmd!ChannelInv, Cmd!PostCommand, Cmd!CommandChannelAssumption
  PROVE  Cmd!ChannelInv'
BY DEF Cmd!ChannelInv, Cmd!PostCommand, Cmd!db, Cmd!node, Cmd!OnlyPendingOffered, Cmd!Pending,
    Cmd!AnswerIsTrue, Cmd!ActedOnIsKnown, Cmd!Known, Cmd!DeliveredWasAccepted,
    Cmd!CommandChannelAssumption

\* The row is settled by the answer that was given, and leaves the list.
LEMMA ReadStep ==
  ASSUME Cmd!ChannelInv, Cmd!ReadReply, Cmd!CommandChannelAssumption
  PROVE  Cmd!ChannelInv'
BY DEF Cmd!ChannelInv, Cmd!ReadReply, Cmd!Settle, Cmd!Outcome, Cmd!node, Cmd!OnlyPendingOffered,
    Cmd!Pending, Cmd!AnswerIsTrue, Cmd!ActedOnIsKnown, Cmd!Known, Cmd!DeliveredWasAccepted,
    Cmd!CommandChannelAssumption

\* Without an answer nothing is delivered, and the command counts as unheard.
LEMMA NoReplyStep ==
  ASSUME Cmd!ChannelInv, Cmd!NoReply, Cmd!CommandChannelAssumption
  PROVE  Cmd!ChannelInv'
BY DEF Cmd!ChannelInv, Cmd!NoReply, Cmd!Settle, Cmd!Outcome, Cmd!node, Cmd!OnlyPendingOffered,
    Cmd!Pending, Cmd!AnswerIsTrue, Cmd!ActedOnIsKnown, Cmd!Known, Cmd!DeliveredWasAccepted,
    Cmd!CommandChannelAssumption

LEMMA PollerStep ==
  ASSUME Cmd!ChannelInv, Cmd!PollerRestarts, Cmd!CommandChannelAssumption
  PROVE  Cmd!ChannelInv'
BY DEF Cmd!ChannelInv, Cmd!PollerRestarts, Cmd!db, Cmd!node, Cmd!OnlyPendingOffered,
    Cmd!Pending, Cmd!AnswerIsTrue, Cmd!ActedOnIsKnown, Cmd!Known, Cmd!DeliveredWasAccepted,
    Cmd!CommandChannelAssumption

\* The Box acts on the command of the POST under way: the first time, unless an
\* answer about it was lost.
LEMMA HandleStep ==
  ASSUME Cmd!ChannelInv, NEW r, Cmd!Handle(r), Cmd!CommandChannelAssumption
  PROVE  Cmd!ChannelInv'
<1> USE DEF Cmd!ChannelInv, Cmd!OnlyPendingOffered, Cmd!Pending, Cmd!AnswerIsTrue,
      Cmd!ActedOnIsKnown, Cmd!Known, Cmd!DeliveredWasAccepted
<1>1. /\ UNCHANGED <<k_status, k_todo, k_sent, k_strays, k_unheard>>
      /\ k_sent \in CommandRows /\ k_status[k_sent] = "pending"
      /\ k_reply = "none" /\ k_reply' = r
  BY DEF Cmd!Handle, Cmd!db, Cmd!CommandChannelAssumption
<1>2. k_sent \notin k_unheard => k_accepted[k_sent] = 0
  BY <1>1
<1>3. CASE r = "accepted"
  <2>1. k_accepted' = [k_accepted EXCEPT ![k_sent] = IF @ = 2 THEN 2 ELSE @ + 1]
    BY <1>3 DEF Cmd!Handle, Cmd!Ingest, Cmd!Act
  <2>2. /\ k_accepted' \in [CommandRows -> 0 .. 2] /\ k_accepted'[k_sent] \in {1, 2}
        /\ \A c \in CommandRows \ {k_sent} : k_accepted'[c] = k_accepted[c]
        /\ k_sent \notin k_unheard => k_accepted'[k_sent] = 1
    BY <1>1, <1>2, <2>1
  <2> QED BY <1>1, <1>3, <2>2
<1>4. CASE r # "accepted"
  <2>1. k_accepted' = k_accepted
    BY <1>4 DEF Cmd!Handle, Cmd!Ingest, Cmd!node
  <2> QED BY <1>1, <1>4, <2>1
<1> QED BY <1>3, <1>4

\* A request the backend gave up on is always one of an unheard command.
LEMMA StrayStep ==
  ASSUME Cmd!ChannelInv, NEW r, NEW c \in CommandRows, Cmd!HandleStray(c, r)
  PROVE  Cmd!ChannelInv'
<1> USE DEF Cmd!ChannelInv, Cmd!OnlyPendingOffered, Cmd!Pending, Cmd!AnswerIsTrue,
      Cmd!ActedOnIsKnown, Cmd!Known, Cmd!DeliveredWasAccepted
<1>1. /\ UNCHANGED <<k_status, k_todo, k_sent, k_reply, k_unheard>>
      /\ c \in k_unheard /\ k_strays' \subseteq k_strays
  BY DEF Cmd!HandleStray, Cmd!db
<1>2. /\ k_accepted' \in [CommandRows -> 0 .. 2]
      /\ k_accepted'[c] >= k_accepted[c]
      /\ \A d \in CommandRows \ {c} : k_accepted'[d] = k_accepted[d]
  <2>1. CASE r = "accepted"
    <3>1. k_accepted' = [k_accepted EXCEPT ![c] = IF @ = 2 THEN 2 ELSE @ + 1]
      BY <2>1 DEF Cmd!HandleStray, Cmd!Ingest, Cmd!Act
    <3>2. k_accepted \in [CommandRows -> 0 .. 2]
      OBVIOUS
    <3> QED BY <3>1, <3>2
  <2>2. CASE r # "accepted"
    BY <2>2 DEF Cmd!HandleStray, Cmd!Ingest, Cmd!node
  <2> QED BY <2>1, <2>2
<1> QED BY <1>1, <1>2

\* A crash or a start of the Box only takes stray requests away.
LEMMA BoxLifeStep ==
  ASSUME Cmd!ChannelInv, Cmd!NodeCrashes \/ \E id \in 1 .. 1 + MaxSwaps : Cmd!NodeStarts(id)
  PROVE  Cmd!ChannelInv'
BY DEF Cmd!ChannelInv, Cmd!NodeCrashes, Cmd!NodeStarts, Cmd!db, Cmd!OnlyPendingOffered,
    Cmd!Pending, Cmd!AnswerIsTrue, Cmd!ActedOnIsKnown, Cmd!Known, Cmd!DeliveredWasAccepted

LEMMA AgeStep ==
  ASSUME Cmd!ChannelInv, NEW c \in CommandRows, Cmd!RowAges(c)
  PROVE  Cmd!ChannelInv'
BY DEF Cmd!ChannelInv, Cmd!RowAges, Cmd!poller, Cmd!node, Cmd!OnlyPendingOffered, Cmd!Pending,
    Cmd!AnswerIsTrue, Cmd!ActedOnIsKnown, Cmd!Known, Cmd!DeliveredWasAccepted

LEMMA ChannelStep ==
  ASSUME Cmd!ChannelInv, Cmd!Next \/ UNCHANGED cmdVars, Cmd!CommandChannelAssumption
  PROVE  Cmd!ChannelInv'
<1>1. CASE UNCHANGED cmdVars
  BY <1>1 DEF cmdVars, Cmd!ChannelInv, Cmd!OnlyPendingOffered, Cmd!Pending, Cmd!AnswerIsTrue,
    Cmd!ActedOnIsKnown, Cmd!Known, Cmd!DeliveredWasAccepted
<1>2. CASE Cmd!Portal
  BY <1>2, PortalStep DEF Cmd!Portal, Cmd!SubmitDrop, Cmd!SubmitNodeAppend,
    Cmd!SubmitRelayCommand, Cmd!SubmitExternalDelivery
<1>3. CASE Cmd!Backend
  BY <1>3, TickStep, PostStep, ReadStep, NoReplyStep, PollerStep DEF Cmd!Backend
<1>4. CASE Cmd!Box
  <2>1. ASSUME NEW r, Cmd!Handle(r) PROVE Cmd!ChannelInv'
    BY <2>1, HandleStep
  <2>2. ASSUME NEW r, NEW c \in k_strays, Cmd!HandleStray(c, r) PROVE Cmd!ChannelInv'
    BY <2>2, StrayStep DEF Cmd!ChannelInv
  <2> QED BY <1>4, <2>1, <2>2, BoxLifeStep DEF Cmd!Box
<1>5. CASE \E c \in CommandRows : Cmd!RowAges(c)
  BY <1>5, AgeStep
<1> QED BY <1>1, <1>2, <1>3, <1>4, <1>5 DEF Cmd!Next

ChannelSound == which = "cmd" => Cmd!ChannelInv

\* pollAndDeliverCommands() and the ingest endpoints: whatever answers are lost and
\* whoever restarts, a command shown as delivered was acted on, and acted on again
\* only if an answer about it never reached the database.
THEOREM CommandsHold == MCSpec => []CommandsSettled
<1>1. MCInit => ChannelSound
  BY CommandsStart, CmdConstants DEF MCInit, ChannelSound
<1>2. ASSUME ChannelSound, [MCNext]_mcVars
      PROVE  ChannelSound'
  <2>1. which' = which /\ (which = "cmd" => Cmd!Next \/ UNCHANGED cmdVars)
    BY <1>2 DEF MCNext, mcVars
  <2> QED BY <1>2, <2>1, ChannelStep, CmdConstants DEF ChannelSound
<1>3. ChannelSound => CommandsSettled
  BY DEF ChannelSound, CommandsSettled, Cmd!ChannelInv, Cmd!ActedOnIsKnown, Cmd!RepeatsOnlyUnheard
<1> QED BY <1>1, <1>2, <1>3, PTL DEF MCSpec

-----------------------------------------------------------------------------
(* The password throttle of the local API, and what it answers of a message. *)

\* A set of numbers that is not empty has a least one.
LEMMA LeastNat ==
  ASSUME NEW T, T \subseteq Nat, T # {}
  PROVE  \E x \in T : \A y \in T : x <= y
<1> DEFINE R == OpToRel(<, Nat)
<1>1. IsWellFoundedOn(R, Nat)
  BY NatLessThanWellFounded
<1>2. R = {ss \in Nat \X Nat : ss[1] < ss[2]}
  BY DEF OpToRel
<1> HIDE DEF R
<1>3. PICK x \in T : \A y \in T : <<y, x>> \notin R
  BY <1>1, WFMin
<1>4. \A y \in T : ~(y < x)
  BY <1>2, <1>3
<1> QED BY <1>3, <1>4

-----------------------------------------------------------------------------
\* The throttle of the local API: its table, the keys that lock an address, and the
\* entries that lock nobody.
ApiKey == Addrs \cup {Prefix[a] : a \in Addrs}
ApiEntry == [key : ApiKey, count : Nat, since : Nat, limit : Nat]

Tracked(es) ==
  /\ es \in Seq(ApiEntry)
  /\ \A i, j \in DOMAIN es : es[i].key = es[j].key => i = j

Locks(es, k) ==
  \E i \in DOMAIN es : es[i].key = k /\ Api!Full(es[i]) /\ es[i].since + Window > w_now

OneFree(es) == \E i \in DOMAIN es : ~Api!Full(es[i])
TwoFree(es) == \E i, j \in DOMAIN es : i # j /\ ~Api!Full(es[i]) /\ ~Api!Full(es[j])

LEMMA LockedByKey ==
  ASSUME NEW es, NEW a
  PROVE  Api!LockedFor(es, w_now, a) <=> \E n \in DOMAIN Api!Keys(a) : Locks(es, Api!Keys(a)[n].key)
BY DEF Api!LockedFor, Api!Entry, Locks

\* An entry that is taken out moves the later ones up and nothing else.
LEMMA WithoutOne ==
  ASSUME NEW S, NEW es \in Seq(S), NEW i \in DOMAIN es
  PROVE  /\ Api!Without(es, i) \in Seq(S)
         /\ Len(Api!Without(es, i)) = Len(es) - 1
         /\ \A j \in 1 .. Len(es) - 1 : Api!Without(es, i)[j] = IF j < i THEN es[j] ELSE es[j + 1]
<1> DEFINE A == SubSeq(es, 1, i - 1)
           B == SubSeq(es, i + 1, Len(es))
<1>1. i \in 1 .. Len(es) /\ Len(es) \in Nat
  OBVIOUS
<1>2. A \in Seq(S) /\ Len(A) = i - 1 /\ \A j \in 1 .. i - 1 : A[j] = es[j]
  BY <1>1
<1>3. B \in Seq(S) /\ Len(B) = Len(es) - i /\ \A j \in 1 .. Len(es) - i : B[j] = es[i + j]
  BY <1>1
<1>4. Api!Without(es, i) = A \o B
  BY DEF Api!Without
<1> HIDE DEF A, B
<1>5. /\ A \o B \in Seq(S) /\ Len(A \o B) = Len(A) + Len(B)
      /\ \A j \in 1 .. Len(A) + Len(B) : (A \o B)[j] = IF j <= Len(A) THEN A[j] ELSE B[j - Len(A)]
  BY <1>2, <1>3
<1>6. Len(A) + Len(B) = Len(es) - 1
  BY <1>1, <1>2, <1>3
<1>7. ASSUME NEW j \in 1 .. Len(es) - 1
      PROVE  (A \o B)[j] = IF j < i THEN es[j] ELSE es[j + 1]
  <2>1. CASE j < i
    BY <2>1, <1>1, <1>2, <1>5, <1>6
  <2>2. CASE ~(j < i)
    <3>1. (A \o B)[j] = B[j - (i - 1)]
      BY <2>2, <1>1, <1>2, <1>5, <1>6
    <3>2. j - (i - 1) \in 1 .. Len(es) - i /\ i + (j - (i - 1)) = j + 1
      BY <2>2, <1>1
    <3>3. B[j - (i - 1)] = es[i + (j - (i - 1))]
      BY <3>2, <1>3
    <3> QED BY <2>2, <3>1, <3>2, <3>3
  <2> QED BY <2>1, <2>2
<1> QED BY <1>4, <1>5, <1>6, <1>7

\* The table without one entry: the others are there as they were.
LEMMA OthersStay ==
  ASSUME NEW es, Tracked(es), NEW i \in DOMAIN es
  PROVE  /\ Tracked(Api!Without(es, i))
         /\ \A j \in DOMAIN es \ {i} : \E l \in DOMAIN Api!Without(es, i) : Api!Without(es, i)[l] = es[j]
         /\ \A l \in DOMAIN Api!Without(es, i) : \E j \in DOMAIN es \ {i} : Api!Without(es, i)[l] = es[j]
<1> DEFINE w == Api!Without(es, i)
<1>1. es \in Seq(ApiEntry) /\ Len(es) \in Nat /\ DOMAIN es = 1 .. Len(es)
  BY DEF Tracked
<1>2. /\ w \in Seq(ApiEntry) /\ Len(w) = Len(es) - 1
      /\ \A j \in 1 .. Len(es) - 1 : w[j] = IF j < i THEN es[j] ELSE es[j + 1]
  <2> HIDE DEF w
  <2>1. w = Api!Without(es, i)
    BY DEF w
  <2> QED BY <1>1, <2>1, WithoutOne
<1> HIDE DEF w
<1>3. DOMAIN w = 1 .. Len(es) - 1
  BY <1>1, <1>2
<1>4. \A j \in DOMAIN es \ {i} : \E l \in DOMAIN w : w[l] = es[j]
  <2> TAKE j \in DOMAIN es \ {i}
  <2>1. CASE j < i
    BY <2>1, <1>1, <1>2, <1>3
  <2>2. CASE j > i
    <3>1. j - 1 \in 1 .. Len(es) - 1 /\ ~(j - 1 < i) /\ j - 1 + 1 = j
      BY <2>2, <1>1
    <3> QED BY <3>1, <1>2, <1>3
  <2> QED BY <2>1, <2>2, <1>1
<1> DEFINE From(l) == IF l < i THEN l ELSE l + 1
<1>5. \A l \in DOMAIN w : From(l) \in DOMAIN es \ {i} /\ w[l] = es[From(l)]
  BY <1>1, <1>2, <1>3
<1>6. \A l, m \in DOMAIN w : From(l) = From(m) => l = m
  BY <1>1, <1>3
<1> HIDE DEF From
<1>7. Tracked(w)
  BY <1>2, <1>5, <1>6 DEF Tracked
<1> QED BY <1>4, <1>5, <1>7 DEF w

\* The entry that goes from a full table locks nobody, if there is such an entry.
LEMMA VictimIsFree ==
  ASSUME NEW es, Tracked(es), Len(es) > 0
  PROVE  /\ Api!Victim(es) \in DOMAIN es
         /\ OneFree(es) => ~Api!Full(es[Api!Victim(es)])
<1>1. Len(es) \in Nat /\ DOMAIN es = 1 .. Len(es)
  BY DEF Tracked
<1> DEFINE P(i) == /\ Api!Full(es[i]) => \A j \in DOMAIN es : Api!Full(es[j])
                   /\ \A j \in 1 .. (i - 1) : Api!Full(es[j]) /\ ~Api!Full(es[i])
<1>2. \E i \in DOMAIN es : P(i)
  <2>1. CASE OneFree(es)
    <3> DEFINE T == {i \in DOMAIN es : ~Api!Full(es[i])}
    <3>1. T \subseteq Nat /\ T # {}
      BY <2>1, <1>1 DEF OneFree
    <3>2. \A i \in T : i \in DOMAIN es /\ ~Api!Full(es[i])
      OBVIOUS
    <3>3. \A i \in DOMAIN es : i \notin T => Api!Full(es[i])
      OBVIOUS
    <3> HIDE DEF T
    <3>4. PICK x \in T : \A y \in T : x <= y
      BY <3>1, LeastNat
    <3>5. \A j \in 1 .. (x - 1) : j \in DOMAIN es /\ j \notin T
      BY <3>2, <3>4, <1>1
    <3> QED BY <3>2, <3>3, <3>4, <3>5
  <2>2. CASE ~OneFree(es)
    <3>1. 1 \in DOMAIN es /\ 1 .. (1 - 1) = {}
      BY <1>1
    <3> QED BY <2>2, <3>1 DEF OneFree
  <2> QED BY <2>1, <2>2
<1>3. Api!Victim(es) = CHOOSE i \in DOMAIN es : P(i)
  BY DEF Api!Victim
<1> HIDE DEF P
<1>4. Api!Victim(es) \in DOMAIN es /\ P(Api!Victim(es))
  BY <1>2, <1>3
<1> QED BY <1>4 DEF P, OneFree

\* A wrong password is counted under one key: what is locked stays locked, if there is
\* an entry to evict that locks nobody, and one such entry at most is used up.
LEMMA CountedOnce ==
  ASSUME Api!LocalApiAssumption, w_now \in Nat, NEW es, Tracked(es),
         NEW k \in [key : ApiKey, limit : Nat]
  PROVE  /\ Tracked(Api!Count(es, k))
         /\ TwoFree(es) => OneFree(Api!Count(es, k))
         /\ OneFree(es) => \A x : Locks(es, x) => Locks(Api!Count(es, k), x)
<1> DEFINE fresh == [key |-> k.key, count |-> 1, since |-> w_now, limit |-> k.limit]
           I == Api!Entry(es, k.key)
           new == Api!Count(es, k)
<1>1. es \in Seq(ApiEntry) /\ Len(es) \in Nat /\ DOMAIN es = 1 .. Len(es)
  BY DEF Tracked
<1>2. fresh \in ApiEntry /\ fresh.key = k.key
  BY DEF ApiEntry
<1>3. \A i, j \in DOMAIN es : es[i].key = es[j].key => i = j
  BY DEF Tracked
<1>4. CASE I = {}
  <2> DEFINE old == IF Len(es) >= MaxTracked THEN Api!Without(es, Api!Victim(es)) ELSE es
  <2>1. new = Append(old, fresh)
    BY <1>4 DEF Api!Count
  <2>2. /\ Tracked(old)
        /\ \A l \in DOMAIN old : \E j \in DOMAIN es : old[l] = es[j]
        /\ TwoFree(es) => OneFree(old)
        /\ OneFree(es) => \A x : Locks(es, x) => Locks(old, x)
    <3>1. CASE Len(es) >= MaxTracked
      <4>1. Len(es) > 0
        BY <3>1, <1>1 DEF Api!LocalApiAssumption
      <4> DEFINE v == Api!Victim(es)
      <4>2. v \in DOMAIN es /\ (OneFree(es) => ~Api!Full(es[v]))
        BY <4>1, VictimIsFree
      <4>3. old = Api!Without(es, v)
        BY <3>1
      <4> HIDE DEF v, old
      <4>4. /\ Tracked(old)
            /\ \A j \in DOMAIN es \ {v} : \E l \in DOMAIN old : old[l] = es[j]
            /\ \A l \in DOMAIN old : \E j \in DOMAIN es \ {v} : old[l] = es[j]
        BY <4>2, <4>3, OthersStay
      <4>5. TwoFree(es) => OneFree(old)
        <5> SUFFICES ASSUME TwoFree(es) PROVE OneFree(old)
          OBVIOUS
        <5>1. PICK j \in DOMAIN es \ {v} : ~Api!Full(es[j])
          BY DEF TwoFree
        <5> QED BY <5>1, <4>4 DEF OneFree
      <4>6. OneFree(es) => \A x : Locks(es, x) => Locks(old, x)
        <5> SUFFICES ASSUME OneFree(es), NEW x, Locks(es, x) PROVE Locks(old, x)
          OBVIOUS
        <5>1. PICK i \in DOMAIN es : es[i].key = x /\ Api!Full(es[i]) /\ es[i].since + Window > w_now
          BY DEF Locks
        <5>2. i # v
          BY <5>1, <4>2
        <5>3. PICK l \in DOMAIN old : old[l] = es[i]
          BY <5>2, <4>4
        <5> QED BY <5>1, <5>3 DEF Locks
      <4> QED BY <4>4, <4>5, <4>6
    <3>2. CASE ~(Len(es) >= MaxTracked)
      BY <3>2 DEF TwoFree, OneFree
    <3> QED BY <3>1, <3>2
  <2> HIDE DEF fresh, old, new
  <2>3. \A j \in DOMAIN es : es[j].key # k.key
    BY <1>4 DEF Api!Entry
  <2>4. /\ old \in Seq(ApiEntry) /\ Len(old) \in Nat /\ DOMAIN old = 1 .. Len(old)
        /\ \A l \in DOMAIN old : old[l].key # k.key
        /\ \A i, j \in DOMAIN old : old[i].key = old[j].key => i = j
    BY <2>2, <2>3 DEF Tracked
  <2>5. /\ new \in Seq(ApiEntry) /\ DOMAIN new = 1 .. Len(old) + 1
        /\ \A l \in DOMAIN old : l \in DOMAIN new /\ new[l] = old[l]
        /\ new[Len(old) + 1] = fresh
    BY <2>1, <2>4, <1>2
  <2>6. \A i, j \in DOMAIN new : new[i].key = new[j].key => i = j
    BY <2>4, <2>5, <1>2
  <2>7. Tracked(new)
    BY <2>5, <2>6 DEF Tracked
  <2>8. TwoFree(es) => OneFree(new)
    BY <2>2, <2>5 DEF OneFree
  <2>9. \A x : Locks(old, x) => Locks(new, x)
    BY <2>5 DEF Locks
  <2> QED BY <2>2, <2>7, <2>8, <2>9 DEF new
<1>5. CASE I # {}
  <2> DEFINE upd(i) == IF i \notin I THEN es[i]
                       ELSE IF w_now - es[i].since >= Window THEN fresh
                       ELSE [es[i] EXCEPT !.count = @ + 1]
  <2>1. new = [i \in DOMAIN es |-> upd(i)]
    BY <1>5 DEF Api!Count
  <2>2. \A i \in I : i \in DOMAIN es /\ es[i].key = k.key
    BY DEF Api!Entry
  <2>3. \A i, j \in I : i = j
    BY <2>2, <1>3
  <2>4. \A i \in DOMAIN es : es[i] \in ApiEntry
    BY <1>1
  <2>5. \A i \in DOMAIN es : upd(i) \in ApiEntry /\ upd(i).key = es[i].key
    <3> SUFFICES ASSUME NEW i \in DOMAIN es PROVE upd(i) \in ApiEntry /\ upd(i).key = es[i].key
      OBVIOUS
    <3>1. es[i] \in ApiEntry
      BY <2>4
    <3>2. [es[i] EXCEPT !.count = @ + 1] \in ApiEntry /\ [es[i] EXCEPT !.count = @ + 1].key = es[i].key
      BY <3>1 DEF ApiEntry
    <3> HIDE DEF fresh, I
    <3> QED BY <3>1, <3>2, <2>2, <1>2
  <2>6. \A i \in DOMAIN es : i \notin I => upd(i) = es[i]
    OBVIOUS
  <2>7. ASSUME NEW i \in DOMAIN es, Api!Full(es[i]), es[i].since + Window > w_now
        PROVE  Api!Full(upd(i)) /\ upd(i).since + Window > w_now
    <3>1. CASE i \notin I
      BY <2>7, <3>1
    <3>2. CASE i \in I
      <4>1. es[i].since \in Nat /\ es[i].count \in Nat /\ es[i].limit \in Nat
        BY <2>4 DEF ApiEntry
      <4>2. ~(w_now - es[i].since >= Window)
        BY <4>1, <2>7 DEF Api!LocalApiAssumption
      <4>3. upd(i) = [es[i] EXCEPT !.count = @ + 1]
        BY <3>2, <4>2
      <4>4. es[i] \in ApiEntry
        BY <2>4
      <4>5. upd(i).count = es[i].count + 1 /\ upd(i).limit = es[i].limit /\ upd(i).since = es[i].since
        BY <4>3, <4>4 DEF ApiEntry
      <4> QED BY <4>1, <4>5, <2>7 DEF Api!Full
    <3> QED BY <3>1, <3>2
  <2> HIDE DEF upd, I
  <2>8. DOMAIN new = DOMAIN es /\ \A i \in DOMAIN es : new[i] = upd(i)
    BY <2>1
  <2>9. new \in Seq(ApiEntry)
    BY <2>1, <2>5, <1>1
  <2> HIDE DEF new
  <2>10. Tracked(new)
    BY <2>5, <2>8, <2>9, <1>3 DEF Tracked
  <2>11. TwoFree(es) => OneFree(new)
    <3> SUFFICES ASSUME TwoFree(es) PROVE OneFree(new)
      OBVIOUS
    <3>1. PICK i \in DOMAIN es : i \notin I /\ ~Api!Full(es[i])
      BY <2>3 DEF TwoFree
    <3> QED BY <3>1, <2>6, <2>8 DEF OneFree
  <2>12. \A x : Locks(es, x) => Locks(new, x)
    BY <2>5, <2>7, <2>8 DEF Locks
  <2> QED BY <2>10, <2>11, <2>12 DEF new
<1> QED BY <1>4, <1>5

\* recordFailure() counts under one key or two.
LEMMA FailureCounted ==
  ASSUME Api!LocalApiAssumption, Api!OneEntryEach, NEW a \in Addrs
  PROVE  /\ Tracked(Api!RecordFailure(a))
         /\ TwoFree(w_entries) => \A x : Locks(w_entries, x) => Locks(Api!RecordFailure(a), x)
<1>1. w_now \in Nat /\ Tracked(w_entries)
  BY DEF Api!OneEntryEach, Tracked, ApiEntry, ApiKey
<1> DEFINE ks == Api!Keys(a)
           one == Api!Count(w_entries, ks[1])
           two == Api!Count(one, ks[2])
<1>2. /\ Len(ks) \in {1, 2} /\ ks[1] \in [key : ApiKey, limit : Nat]
      /\ Len(ks) = 2 => ks[2] \in [key : ApiKey, limit : Nat]
  BY DEF Api!Keys, ApiKey, Api!LocalApiAssumption
<1>3. Api!RecordFailure(a) = IF a \in Local THEN w_entries ELSE IF Len(ks) = 1 THEN one ELSE two
  BY DEF Api!RecordFailure
<1> HIDE DEF ks
<1>4. /\ Tracked(one) /\ (TwoFree(w_entries) => OneFree(one))
      /\ OneFree(w_entries) => \A x : Locks(w_entries, x) => Locks(one, x)
  BY <1>1, <1>2, CountedOnce
<1> HIDE DEF one
<1>5. Len(ks) = 2 => /\ Tracked(two)
                     /\ OneFree(one) => \A x : Locks(one, x) => Locks(two, x)
  BY <1>1, <1>2, <1>4, CountedOnce
<1>6. TwoFree(w_entries) => OneFree(w_entries)
  BY DEF TwoFree, OneFree
<1> HIDE DEF two
<1> QED BY <1>1, <1>2, <1>3, <1>4, <1>5, <1>6

\* recordSuccess() takes out the entry of the address itself, which locks nobody: the
\* password was compared.
LEMMA SuccessForgets ==
  ASSUME Api!OneEntryEach, NEW a \in Addrs, ~Api!LockedFor(w_entries, w_now, a)
  PROVE  /\ Tracked(Api!RecordSuccess(a))
         /\ \A x : Locks(w_entries, x) => Locks(Api!RecordSuccess(a), x)
<1>1. Tracked(w_entries)
  BY DEF Api!OneEntryEach, Tracked, ApiEntry, ApiKey
<1> DEFINE I == Api!Entry(w_entries, a)
           i == CHOOSE i \in I : TRUE
<1>2. CASE I = {}
  BY <1>1, <1>2 DEF Api!RecordSuccess
<1>3. CASE I # {}
  <2>1. i \in I /\ Api!RecordSuccess(a) = Api!Without(w_entries, i)
    BY <1>3 DEF Api!RecordSuccess
  <2>2. i \in DOMAIN w_entries /\ w_entries[i].key = a
    BY <2>1 DEF Api!Entry
  <2> HIDE DEF i
  <2>3. ~Locks(w_entries, a)
    <3>1. 1 \in DOMAIN Api!Keys(a) /\ Api!Keys(a)[1].key = a
      BY DEF Api!Keys
    <3> QED BY <3>1, LockedByKey
  <2> DEFINE w == Api!Without(w_entries, i)
  <2>4. /\ Tracked(w)
        /\ \A j \in DOMAIN w_entries \ {i} : \E l \in DOMAIN w : w[l] = w_entries[j]
    BY <2>2, <1>1, OthersStay
  <2> HIDE DEF w
  <2>5. ASSUME NEW x, Locks(w_entries, x) PROVE Locks(w, x)
    <3>1. PICK j \in DOMAIN w_entries : /\ w_entries[j].key = x /\ Api!Full(w_entries[j])
                                        /\ w_entries[j].since + Window > w_now
      BY <2>5 DEF Locks
    <3>2. j # i
      BY <3>1, <2>2, <2>3 DEF Locks
    <3>3. PICK l \in DOMAIN w : w[l] = w_entries[j]
      BY <3>2, <2>4
    <3> QED BY <3>1, <3>3 DEF Locks
  <2> QED BY <2>1, <2>4, <2>5 DEF w
<1> QED BY <1>2, <1>3

LEMMA FreeEntries ==
  ASSUME NEW es, Tracked(es), Api!Cardinality({i \in DOMAIN es : ~Api!Full(es[i])}) > 1
  PROVE  TwoFree(es)
<1> DEFINE F == {i \in DOMAIN es : ~Api!Full(es[i])}
<1>1. DOMAIN es = 1 .. Len(es) /\ Len(es) \in Nat
  BY DEF Tracked
<1>2. Api!Cardinality(F) = Cardinality(F)
  BY DEF Api!Cardinality, Cardinality
<1>3. \A i \in F : i \in DOMAIN es /\ ~Api!Full(es[i])
  OBVIOUS
<1>4. Cardinality(F) > 1
  BY <1>2
<1> HIDE DEF F
<1>5. CASE F = {}
  BY <1>4, <1>5, FS_EmptySet
<1>6. CASE \E x : F = {x}
  BY <1>4, <1>6, FS_Singleton
<1>7. CASE \E i, j \in F : i # j
  BY <1>3, <1>7 DEF TwoFree
<1> QED BY <1>5, <1>6, <1>7

\* Every step of the API keeps one entry per key, and what is locked.
LEMMA ThrottleStep ==
  ASSUME Api!LocalApiAssumption, Api!OneEntryEach, Api!Next
  PROVE  Api!OneEntryEach' /\ Api!LockKept
<1>1. w_now \in Nat /\ Tracked(w_entries)
  BY DEF Api!OneEntryEach, Tracked, ApiEntry, ApiKey
<1> DEFINE Good(es) == /\ Tracked(es)
                       /\ TwoFree(w_entries) => \A x : Locks(w_entries, x) => Locks(es, x)
<1>3. Good(w_entries)
  BY <1>1
<1>4. Good(w_entries') /\ (w_now' = w_now \/ w_now' = w_now + 1)
  <2>1. ASSUME NEW a \in Addrs, Api!Refused(a) PROVE Good(w_entries') /\ w_now' = w_now
    <3>0. w_now' = w_now
      BY <2>1 DEF Api!Refused
    <3>1. Good(Api!RecordFailure(a))
      BY FailureCounted
    <3>2. w_entries' = w_entries \/ w_entries' = Api!RecordFailure(a)
      BY <2>1 DEF Api!Refused
    <3> HIDE DEF Good
    <3> QED BY <1>3, <3>0, <3>1, <3>2
  <2>2. ASSUME NEW a \in Addrs, Api!Get(a) \/ \E r \in Reqs, route \in Posts : Api!Post(r, a, route)
        PROVE  Good(w_entries') /\ w_now' = w_now
    <3>1. ~Api!LockedFor(w_entries, w_now, a) /\ w_entries' = Api!RecordSuccess(a) /\ w_now' = w_now
      BY <2>2 DEF Api!Get, Api!Post
    <3>2. Good(Api!RecordSuccess(a))
      BY <3>1, SuccessForgets
    <3> HIDE DEF Good
    <3> QED BY <3>1, <3>2
  <2>3. ASSUME NEW r \in Reqs, \/ Api!BodyFails(r) \/ Api!Handle(r) \/ Api!CallEnds(r) \/ Api!StatusTimesOut(r)
                               \/ Api!Forget(r) \/ \E status \in {"sent", "queued"} : Api!Event(r, status)
        PROVE  w_entries' = w_entries /\ w_now' = w_now
    BY <2>3 DEF Api!BodyFails, Api!Handle, Api!CallEnds, Api!StatusTimesOut,
       Api!Forget, Api!Event, Api!HandleSendChannelMessage, Api!HandleSendNodeAppend, Api!HandleCreateGroup,
       Api!HandleSendGroupMessage, Api!HandleRegisterRelay, Api!HandleSendRelayCommand, Api!HandleCall,
       Api!HandleShareLocation, Api!HandleDiscoverPeer, Api!HandleSendMessage, Api!HandleSendExternalDelivery,
       Api!Immediate, Api!Awaiting, Api!AwaitDeliveryStatus
  <2>4. Api!Tick => w_entries' = w_entries /\ w_now' = w_now + 1
    BY DEF Api!Tick
  <2> HIDE DEF Good
  <2> QED BY <1>3, <2>1, <2>2, <2>3, <2>4 DEF Api!Next
<1>5. Api!OneEntryEach'
  <2>1. w_now' \in Nat
    BY <1>1, <1>4
  <2> QED BY <2>1, <1>4 DEF Api!OneEntryEach, Tracked, ApiEntry, ApiKey
<1>6. ASSUME NEW a \in Addrs, Api!LockedFor(w_entries, w_now, a),
             Api!Cardinality({i \in DOMAIN w_entries : ~Api!Full(w_entries[i])}) > 1
      PROVE  Api!LockedFor(w_entries', w_now, a)
  <2>1. TwoFree(w_entries)
    BY <1>1, <1>6, FreeEntries
  <2>2. PICK n \in DOMAIN Api!Keys(a) : Locks(w_entries, Api!Keys(a)[n].key)
    BY <1>6, LockedByKey
  <2>3. Locks(w_entries', Api!Keys(a)[n].key)
    BY <1>4, <2>1, <2>2
  <2> QED BY <2>3, LockedByKey
<1> QED BY <1>5, <1>6 DEF Api!LockKept

\* A step that answers a request, or sends it on, without a status.
LEMMA StatusStep ==
  ASSUME Api!WaitersUntold, Api!StatusIsEvent, Api!Next
  PROVE  Api!WaitersUntold' /\ Api!StatusIsEvent'
<1> DEFINE Ans == {"none", "200", "4xx", "5xx", "sent", "queued"}
           Req == [st : {"free", "reading", "calling", "status", "done"}, route : Posts \cup {"none"},
                   ans : Ans, first : {"none", "sent", "queued"}, late : BOOLEAN]
           Told(q) == q.st = "done" /\ q.ans \in {"sent", "queued"} /\ ~q.late => q.first \in {"none", q.ans}
           Waits(q) == q.st = "status" /\ q.first = "none"
<1>1. /\ w_req \in [Reqs -> Req] /\ w_waiters \subseteq Reqs
      /\ \A r \in w_waiters : Waits(w_req[r])
      /\ \A r \in Reqs : Told(w_req[r])
  BY DEF Api!WaitersUntold, Api!StatusIsEvent
<1>2. SUFFICES /\ w_req' \in [Reqs -> Req] /\ w_waiters' \subseteq Reqs
               /\ \A r \in w_waiters' : Waits(w_req'[r])
               /\ \A r \in Reqs : Told(w_req'[r])
  BY DEF Api!WaitersUntold, Api!StatusIsEvent
<1>3. CASE UNCHANGED <<w_req, w_waiters>>
  BY <1>1, <1>3
<1>4. ASSUME NEW r \in Reqs, NEW q \in Req, w_req' = [w_req EXCEPT ![r] = q], Told(q),
             w_waiters' \subseteq w_waiters \cup {r}, r \in w_waiters' => Waits(q)
      PROVE  /\ w_req' \in [Reqs -> Req] /\ w_waiters' \subseteq Reqs
             /\ \A s \in w_waiters' : Waits(w_req'[s])
             /\ \A s \in Reqs : Told(w_req'[s])
  <2> HIDE DEF Told, Waits
  <2>0. w_req' \in [Reqs -> Req]
    BY <1>1, <1>4
  <2> HIDE DEF Req
  <2>1. w_req'[r] = q /\ \A s \in Reqs : s # r => w_req'[s] = w_req[s]
    BY <1>1, <1>4
  <2>2. w_waiters' \subseteq Reqs
    BY <1>1, <1>4
  <2> QED BY <1>1, <1>4, <2>0, <2>1, <2>2
<1> DEFINE Move(r) == \E q \in Req : /\ w_req' = [w_req EXCEPT ![r] = q] /\ Told(q)
                                     /\ w_waiters' \subseteq w_waiters \cup {r} /\ (r \in w_waiters' => Waits(q))
<1>5. ASSUME NEW r \in Reqs, NEW a \in Addrs, NEW route \in Posts, Api!Post(r, a, route) PROVE Move(r)
  <2> DEFINE q == [Api!NoReq EXCEPT !.st = "reading", !.route = route]
  <2>1. w_req' = [w_req EXCEPT ![r] = q] /\ w_waiters' = w_waiters /\ w_req[r].st = "free"
    BY <1>5 DEF Api!Post
  <2>2. q \in Req /\ Told(q)
    BY DEF Api!NoReq
  <2>3. r \notin w_waiters
    BY <1>1, <2>1
  <2> HIDE DEF q, Req, Told, Waits
  <2> QED BY <2>1, <2>2, <2>3
<1>6. ASSUME NEW r \in Reqs, NEW ans \in {"200", "4xx", "5xx"}, Api!Answer(r, ans), w_waiters' = w_waiters, w_req[r].st \in {"reading", "calling"}
      PROVE  Move(r)
  <2> DEFINE q == [Api!NoReq EXCEPT !.st = "done", !.ans = ans]
  <2>1. w_req' = [w_req EXCEPT ![r] = q]
    BY <1>6 DEF Api!Answer
  <2>2. q \in Req /\ Told(q)
    BY DEF Api!NoReq
  <2>3. r \notin w_waiters
    BY <1>1, <1>6
  <2> HIDE DEF q, Req, Told, Waits
  <2> QED BY <1>6, <2>1, <2>2, <2>3
<1>7. ASSUME NEW r \in Reqs, NEW route, Api!AwaitDeliveryStatus(r, route) PROVE Move(r)
  <2>0. w_req[r].st = "reading" /\ w_req[r] \in Req /\ r \notin w_waiters
    BY <1>1, <1>7 DEF Api!AwaitDeliveryStatus, Api!Read
  <2>1. CASE Api!Answer(r, "4xx") /\ UNCHANGED <<w_waiters, w_recent>>
    BY <1>6, <2>0, <2>1
  <2>2. ASSUME NEW at \in {"none", "queued"}, at # "none",
               w_req' = [w_req EXCEPT ![r] = [@ EXCEPT !.st = "done", !.ans = at, !.first = at]], w_waiters' = w_waiters
        PROVE  Move(r)
    <3> DEFINE q == [w_req[r] EXCEPT !.st = "done", !.ans = at, !.first = at]
    <3>1. q \in Req /\ Told(q)
      BY <2>0
    <3>2. w_req' = [w_req EXCEPT ![r] = q]
      BY <2>2
    <3> HIDE DEF q, Req, Told, Waits
    <3> QED BY <2>0, <2>2, <3>1, <3>2
  <2>3. ASSUME w_req' = [w_req EXCEPT ![r] = [@ EXCEPT !.st = "status", !.first = "none"]], w_waiters' = w_waiters \cup {r}
        PROVE  Move(r)
    <3> DEFINE q == [w_req[r] EXCEPT !.st = "status", !.first = "none"]
    <3>1. q \in Req /\ Told(q) /\ Waits(q)
      BY <2>0
    <3>2. w_req' = [w_req EXCEPT ![r] = q]
      BY <2>3
    <3> HIDE DEF q, Req, Told, Waits
    <3> QED BY <2>3, <3>1, <3>2
  <2> HIDE DEF Move
  <2> QED BY <1>7, <2>1, <2>2, <2>3 DEF Api!AwaitDeliveryStatus, Api!AlreadySeen
<1>8. ASSUME NEW r \in Reqs, NEW status \in {"sent", "queued"}, Api!Event(r, status) PROVE Move(r)
  <2>0. w_req[r] \in Req /\ Told(w_req[r])
    BY <1>1
  <2>1. CASE r \in w_waiters /\ w_waiters' = w_waiters \ {r}
    <3> DEFINE q == [w_req[r] EXCEPT !.st = "done", !.ans = status, !.first = Api!First(r, status)]
    <3>1. w_req' = [w_req EXCEPT ![r] = q]
      BY <1>8, <2>1 DEF Api!Event
    <3>2. w_req[r].first = "none"
      BY <1>1, <2>1
    <3>3. q \in Req /\ Told(q)
      BY <2>0, <3>2 DEF Api!First
    <3> HIDE DEF q, Req, Told, Waits
    <3> QED BY <2>1, <3>1, <3>3
  <2>2. CASE r \notin w_waiters /\ w_waiters' = w_waiters
    <3> DEFINE q == [w_req[r] EXCEPT !.first = Api!First(r, status),
                                     !.late = w_req[r].late \/ w_req[r].first = "none"]
    <3>1. w_req' = [w_req EXCEPT ![r] = q]
      BY <1>8, <2>2 DEF Api!Event
    <3>3. q \in Req /\ Told(q)
      BY <2>0 DEF Api!First
    <3> HIDE DEF q, Req, Told, Waits
    <3> QED BY <2>2, <3>1, <3>3
  <2> QED BY <1>8, <2>1, <2>2 DEF Api!Event
<1>9. ASSUME NEW r \in Reqs, Api!StatusTimesOut(r) PROVE Move(r)
  <2> DEFINE q == [w_req[r] EXCEPT !.st = "done", !.ans = "sent"]
  <2>1. r \in w_waiters /\ w_waiters' = w_waiters \ {r} /\ w_req' = [w_req EXCEPT ![r] = q]
    BY <1>9 DEF Api!StatusTimesOut, Api!StatusTimer
  <2>2. w_req[r] \in Req /\ w_req[r].first = "none"
    BY <1>1, <2>1
  <2>3. q \in Req /\ Told(q)
    BY <2>2
  <2> HIDE DEF q, Req, Told, Waits
  <2> QED BY <2>1, <2>3
<1>10. ASSUME NEW r \in Reqs, Api!Forget(r) PROVE Move(r)
  <2>1. r \notin w_waiters /\ w_req' = [w_req EXCEPT ![r] = Api!NoReq] /\ w_waiters' = w_waiters
    BY <1>1, <1>10 DEF Api!Forget
  <2>2. Api!NoReq \in Req /\ Told(Api!NoReq)
    BY DEF Api!NoReq
  <2> HIDE DEF Req, Told, Waits
  <2> QED BY <2>1, <2>2
<1>11. ASSUME NEW r \in Reqs, NEW route, Api!Awaiting(r, route) PROVE Move(r)
  <2>0. w_req[r].st = "reading" /\ w_req[r] \in Req /\ r \notin w_waiters /\ w_waiters' = w_waiters
    BY <1>1, <1>11 DEF Api!Awaiting, Api!Read
  <2>1. CASE Api!Answer(r, "4xx")
    BY <1>6, <2>0, <2>1
  <2>2. CASE w_req' = [w_req EXCEPT ![r].st = "calling"]
    <3> DEFINE q == [w_req[r] EXCEPT !.st = "calling"]
    <3>1. q \in Req /\ Told(q)
      BY <2>0
    <3>2. w_req' = [w_req EXCEPT ![r] = q]
      BY <2>2
    <3> HIDE DEF q, Req, Told, Waits
    <3> QED BY <2>0, <3>1, <3>2
  <2> QED BY <1>11, <2>1, <2>2 DEF Api!Awaiting
<1>12. ASSUME NEW r \in Reqs, NEW route, Api!Immediate(r, route) PROVE Move(r)
  <2> HIDE DEF Move
  <2> QED BY <1>6, <1>12 DEF Api!Immediate, Api!Read
<1>13. ASSUME NEW r \in Reqs, Api!BodyFails(r) \/ Api!CallEnds(r) PROVE Move(r)
  <2> HIDE DEF Move
  <2> QED BY <1>6, <1>13 DEF Api!BodyFails, Api!CallEnds
<1>14. ASSUME NEW r \in Reqs, Api!Handle(r) PROVE Move(r)
  <2> HIDE DEF Move
  <2> QED BY <1>7, <1>11, <1>12, <1>14
      DEF Api!Handle, Api!HandleSendChannelMessage, Api!HandleSendNodeAppend, Api!HandleCreateGroup,
       Api!HandleSendGroupMessage, Api!HandleRegisterRelay, Api!HandleSendRelayCommand, Api!HandleCall,
       Api!HandleShareLocation, Api!HandleDiscoverPeer, Api!HandleSendMessage, Api!HandleSendExternalDelivery
<1>15. UNCHANGED <<w_req, w_waiters>> \/ \E r \in Reqs : Move(r)
  <2> HIDE DEF Move
  <2>1. ASSUME NEW a \in Addrs, Api!Refused(a) \/ Api!Get(a) PROVE UNCHANGED <<w_req, w_waiters>>
    BY <2>1 DEF Api!Refused, Api!Get
  <2>2. Api!Tick => UNCHANGED <<w_req, w_waiters>>
    BY DEF Api!Tick
  <2> QED BY <1>5, <1>8, <1>9, <1>10, <1>13, <1>14, <2>1, <2>2 DEF Api!Next
<1> HIDE DEF Req, Told, Waits
<1> QED BY <1>3, <1>4, <1>15

\* The API at rest, and at its start.
LEMMA ApiStart == Api!Init => Api!ApiInv
<1> SUFFICES ASSUME Api!Init PROVE Api!ApiInv
  OBVIOUS
<1>1. Api!OneEntryEach
  BY DEF Api!Init, Api!OneEntryEach
<1>2. Api!WaitersUntold /\ Api!StatusIsEvent
  BY DEF Api!Init, Api!WaitersUntold, Api!StatusIsEvent, Api!NoReq
<1> QED BY <1>1, <1>2 DEF Api!ApiInv

\* A locked address stays locked out for its window, however many others fail
\* meanwhile, and the client of a message is told what became of it.
THEOREM LockStands == MCSpec => LockHolds
<1> DEFINE I == which = "api" => Api!ApiInv
           K == which = "api" => Api!LockKept
<1>1. MCInit => I
  BY ApiStart DEF MCInit
<1>2. I /\ [MCNext]_mcVars => I' /\ [K]_mcVars
  <2> SUFFICES ASSUME I, [MCNext]_mcVars PROVE I' /\ [K]_mcVars
    OBVIOUS
  <2>1. CASE which = "api" /\ Api!Next /\ UNCHANGED which
    <3>1. Api!OneEntryEach' /\ Api!LockKept
      BY <2>1, ThrottleStep, ApiConstants DEF Api!ApiInv
    <3>2. Api!WaitersUntold' /\ Api!StatusIsEvent'
      BY <2>1, StatusStep DEF Api!ApiInv
    <3> QED BY <3>1, <3>2 DEF Api!ApiInv
  <2>2. CASE which # "api" /\ UNCHANGED which
    BY <2>2
  <2>3. CASE UNCHANGED mcVars
    <3>1. UNCHANGED <<which, w_now, w_entries, w_req, w_waiters, w_recent>>
      BY <2>3 DEF mcVars, apiVars
    <3>2. Api!ApiInv' <=> Api!ApiInv
      BY <3>1 DEF Api!ApiInv, Api!OneEntryEach, Api!WaitersUntold, Api!StatusIsEvent, Api!Full
    <3> QED BY <2>3, <3>1, <3>2
  <2>4. (UNCHANGED which /\ (which = "api" => Api!Next)) \/ UNCHANGED mcVars
    BY DEF MCNext
  <2> QED BY <2>1, <2>2, <2>3, <2>4
<1>3. I => (which = "api" => Api!StatusIsEvent)
  BY DEF Api!ApiInv
<1> QED BY <1>1, <1>2, <1>3, PTL DEF MCSpec, LockHolds

-----------------------------------------------------------------------------
(* The directories: of services, of nodes, and of reports. *)

AnnOf == [t : {"announce"}, p : Remotes, avail : BOOLEAN, at : 0 .. v_now, n : Nat]
RowOf == [p : Remotes, avail : BOOLEAN, at : 0 .. v_now, n : Nat]
OwnOf == [avail : BOOLEAN, at : 0 .. v_now, n : Nat]

LEMMA DirectoryStart == Svc!Init => Svc!DirectoryInv
<1> SUFFICES ASSUME Svc!Init PROVE Svc!DirectoryInv
  OBVIOUS
<1>1. v_now = 1 /\ v_lost = 0 /\ v_tied = FALSE /\ v_net = {} /\ v_services = <<>>
      /\ v_local = [p \in Svc!Nodes |-> Svc!Unregistered]
  BY DEF Svc!Init
<1>2. Svc!Unregistered \in [avail : BOOLEAN, at : 0 .. 1, n : Nat]
      /\ Svc!Unregistered.n = 0 /\ Svc!Unregistered.avail = FALSE
  BY DEF Svc!Unregistered
<1>3. \A p \in Remotes : v_local[p] = Svc!Unregistered
  BY <1>1 DEF Svc!Nodes
<1>4. v_local \in [Svc!Nodes -> [avail : BOOLEAN, at : 0 .. v_now, n : Nat]]
  BY <1>1, <1>2
<1>5. v_services \in Seq([p : Remotes, avail : BOOLEAN, at : 0 .. v_now, n : Nat]) /\ DOMAIN v_services = {}
  BY <1>1
<1>6. v_now \in Nat \ {0} /\ v_lost \in Nat
  BY <1>1
<1>7. v_tied \in BOOLEAN
  BY <1>1
<1> QED BY <1>1, <1>2, <1>3, <1>4, <1>5, <1>6, <1>7 DEF Svc!DirectoryInv

\* A step that says nothing new of a service.
LEMMA NothingSaid ==
  ASSUME Svc!DirectoryInv, UNCHANGED <<v_now, v_local, v_services, v_started, v_lost, v_tied>>,
         \A x \in v_net' : x \in v_net \/ (x.t # "announce" /\ (x.t = "query" => x.p \in Remotes)),
         \A x \in v_net : x.t = "announce" => x \in v_net'
  PROVE  Svc!DirectoryInv'
<1>1. \A x \in v_net' : x.t = "announce" => x \in v_net
  OBVIOUS
<1>2. \A x \in v_net' : x.t = "query" => x.p \in Remotes
  BY DEF Svc!DirectoryInv
<1>3. \A p : Svc!Ann(p, v_local[p]).t = "announce"
  BY DEF Svc!Ann
<1>4. \A x \in v_net' : x.t = "announce" => x \in AnnOf /\ Svc!Dated(x)
  BY <1>1 DEF Svc!DirectoryInv, AnnOf
<1>5. \A x : Svc!Dated(x)' <=> Svc!Dated(x)
  BY DEF Svc!Dated
<1>6. \A p : Svc!SaidLast(p) => Svc!SaidLast(p)'
  BY <1>3 DEF Svc!SaidLast, Svc!Ann
<1> QED BY <1>2, <1>4, <1>5, <1>6 DEF Svc!DirectoryInv, AnnOf

\* A provider announces.
LEMMA ProviderAnnounces ==
  ASSUME Svc!DirectoryInv, NEW p \in Remotes, NEW avail \in BOOLEAN, Svc!Announce(p, avail)
  PROVE  Svc!DirectoryInv'
<1> DEFINE o == v_local[p]
           m == [avail |-> avail, at |-> v_now, n |-> v_local[p].n + 1]
<1>1. /\ v_now \in Nat \ {0} /\ v_lost \in Nat /\ v_tied \in BOOLEAN
      /\ v_local \in [Svc!Nodes -> OwnOf] /\ p \in Svc!Nodes
      /\ v_services \in Seq(RowOf)
      /\ \A i \in DOMAIN v_services : Svc!Dated(v_services[i])
      /\ \A a \in v_net : a.t = "announce" => a \in AnnOf /\ Svc!Dated(a)
      /\ \A x \in v_net : x.t = "query" => x.p \in Remotes
  BY DEF Svc!DirectoryInv, OwnOf, RowOf, AnnOf, Svc!Nodes
<1>2. o \in OwnOf
  BY <1>1
<1>3. m \in OwnOf /\ m.n = o.n + 1 /\ m.at = v_now /\ m.avail = avail
  BY <1>1, <1>2 DEF OwnOf
<1>4. /\ v_local' = [v_local EXCEPT ![p] = m] /\ v_tied' = (v_tied \/ o.at = v_now)
      /\ v_net' = v_net \cup {Svc!Ann(p, m)} /\ (avail \/ o.n > 0)
      /\ UNCHANGED <<v_now, v_services, v_started, v_lost>>
  BY DEF Svc!Announce
<1>5. PICK ann : ann = Svc!Ann(p, m)
  OBVIOUS
<1>17. ann = [t |-> "announce", p |-> p, avail |-> m.avail, at |-> m.at, n |-> m.n]
  BY <1>5 DEF Svc!Ann
<1>18. ann.t = "announce" /\ ann.p = p /\ ann.avail = m.avail /\ ann.at = m.at /\ ann.n = m.n
  BY <1>17
<1>19. v_net' = v_net \cup {ann}
  BY <1>4, <1>5
<1> HIDE DEF m, o
<1>6. v_local'[p] = m /\ \A q \in Svc!Nodes : q # p => v_local'[q] = v_local[q]
  BY <1>1, <1>4
<1>7. v_local' \in [Svc!Nodes -> OwnOf]
  BY <1>1, <1>3, <1>4
<1>8. \A q \in Remotes : v_local'[q].avail => v_local'[q].n > 0
  <2>1. \A q \in Remotes : q \in Svc!Nodes /\ (v_local[q].avail => v_local[q].n > 0)
    BY DEF Svc!DirectoryInv, Svc!Nodes
  <2>2. m.n > 0
    BY <1>2, <1>3 DEF OwnOf
  <2> QED BY <1>6, <2>1, <2>2
<1>9. o.at \in 0 .. v_now /\ o.n \in Nat
  BY <1>2 DEF OwnOf
<1>10. ASSUME NEW a, a.n \in Nat, a.at \in 0 .. v_now, Svc!Dated(a) PROVE Svc!Dated(a)'
  <2>0. a.p \in Remotes /\ a.p \in Svc!Nodes
    BY <1>10 DEF Svc!Dated, Svc!Nodes
  <2>1. CASE a.p = p
    <3>1. /\ a.n \in 1 .. o.n /\ (a.n = o.n => a.at = o.at) /\ (~v_tied /\ a.n < o.n => a.at < o.at)
      BY <1>10, <2>1 DEF Svc!Dated, o
    <3>2. a.n \in 1 .. m.n /\ a.n # m.n
      BY <1>3, <1>9, <3>1
    <3>3. ASSUME ~v_tied' PROVE a.at < m.at
      <4>1. ~v_tied /\ o.at # v_now
        BY <1>4, <3>3
      <4>2. a.at <= o.at /\ o.at < v_now
        BY <1>1, <1>9, <1>10, <3>1, <4>1
      <4> QED BY <1>1, <1>3, <1>9, <1>10, <4>2
    <3> QED BY <1>6, <2>0, <2>1, <3>2, <3>3 DEF Svc!Dated
  <2>2. CASE a.p # p
    BY <1>4, <1>6, <1>10, <2>0, <2>2 DEF Svc!Dated
  <2> QED BY <2>1, <2>2
<1>11. \A i \in DOMAIN v_services' : Svc!Dated(v_services[i])'
  <2> SUFFICES ASSUME NEW i \in DOMAIN v_services PROVE Svc!Dated(v_services[i])'
    BY <1>4
  <2>1. v_services[i] \in RowOf
    BY <1>1
  <2>2. v_services[i].n \in Nat /\ v_services[i].at \in 0 .. v_now
    BY <2>1 DEF RowOf
  <2> QED BY <1>1, <1>4, <1>10, <2>2
<1>12. \A a \in v_net' : a.t = "announce" => a \in AnnOf /\ Svc!Dated(a)'
  <2>1. ann \in AnnOf
    BY <1>3, <1>17 DEF AnnOf, OwnOf
  <2>2. Svc!Dated(ann)'
    BY <1>3, <1>6, <1>9, <1>18 DEF Svc!Dated
  <2>3. \A a \in v_net : a.t = "announce" => a.n \in Nat /\ a.at \in 0 .. v_now
    BY <1>1 DEF AnnOf
  <2> QED BY <1>1, <1>19, <1>10, <2>1, <2>2, <2>3
<1>13. \A x \in v_net' : x.t = "query" => x.p \in Remotes
  BY <1>1, <1>18, <1>19
<1>14. ASSUME v_started, v_lost = 0, ~v_tied', NEW q \in Remotes, v_local'[q].n > 0
       PROVE  Svc!SaidLast(q)'
  <2>1. CASE q = p
    BY <1>4, <1>6, <2>1 DEF Svc!SaidLast, Svc!Ann
  <2>2. CASE q # p
    <3>1. v_local'[q] = v_local[q] /\ q \in Svc!Nodes
      BY <1>6, <2>2 DEF Svc!Nodes
    <3>2. Svc!SaidLast(q)
      BY <1>1, <1>4, <1>14, <3>1 DEF Svc!DirectoryInv
    <3> QED BY <1>4, <3>1, <3>2 DEF Svc!SaidLast, Svc!Ann
  <2> QED BY <2>1, <2>2
<1>15. v_tied' \in BOOLEAN
  BY <1>1, <1>4
<1>16. /\ v_local' \in [Svc!Nodes -> [avail : BOOLEAN, at : 0 .. v_now', n : Nat]]
       /\ v_services' \in Seq([p : Remotes, avail : BOOLEAN, at : 0 .. v_now', n : Nat])
       /\ \A a \in v_net' : a.t = "announce" =>
            a \in [t : {"announce"}, p : Remotes, avail : BOOLEAN, at : 0 .. v_now', n : Nat] /\ Svc!Dated(a)'
  BY <1>1, <1>4, <1>7, <1>12 DEF OwnOf, RowOf, AnnOf
<1> HIDE <1>12
<1> QED BY <1>1, <1>4, <1>8, <1>11, <1>13, <1>14, <1>15, <1>16 DEF Svc!DirectoryInv, Svc!Nodes

\* What the directory records of an announcement: nothing, if it holds a later one
\* of that provider, or the announcement in place of all it held of it.
LEMMA RecordedAs ==
  ASSUME Svc!DirectoryInv, NEW a \in AnnOf
  PROVE  LET dir == Svc!Record(v_services, a) IN
         /\ dir \in Seq(RowOf)
         /\ \/ dir = v_services /\ \E i \in DOMAIN v_services : v_services[i].p = a.p /\ v_services[i].at > a.at
            \/ /\ \A i \in DOMAIN v_services : ~(v_services[i].p = a.p /\ v_services[i].at > a.at)
               /\ \A i \in DOMAIN dir : \/ dir[i] = [p |-> a.p, avail |-> a.avail, at |-> a.at, n |-> a.n]
                                        \/ i \in DOMAIN v_services /\ dir[i] = v_services[i] /\ dir[i].p # a.p
               /\ \E i \in DOMAIN dir : dir[i].p = a.p
               /\ \A i \in DOMAIN v_services : v_services[i].p # a.p => i \in DOMAIN dir /\ dir[i] = v_services[i]
<1> DEFINE e == [p |-> a.p, avail |-> a.avail, at |-> a.at, n |-> a.n]
           I == {i \in DOMAIN v_services : v_services[i].p = a.p}
           dir == Svc!Record(v_services, a)
<1>1. v_services \in Seq(RowOf) /\ Len(v_services) \in Nat /\ DOMAIN v_services = 1 .. Len(v_services)
  BY DEF Svc!DirectoryInv, RowOf
<1>2. e \in RowOf /\ e.p = a.p
  BY DEF RowOf, AnnOf
<1>3. CASE \E i \in DOMAIN v_services : v_services[i].p = a.p /\ v_services[i].at > a.at
  BY <1>1, <1>3 DEF Svc!Record
<1>4. CASE ~ \E i \in DOMAIN v_services : v_services[i].p = a.p /\ v_services[i].at > a.at
  <2>1. dir = IF I = {} THEN Append(v_services, e) ELSE [i \in DOMAIN v_services |-> IF i \in I THEN e ELSE v_services[i]]
    BY <1>4 DEF Svc!Record, Svc!RecordAny
  <2>2. \A i \in DOMAIN v_services : i \in I <=> v_services[i].p = a.p
    OBVIOUS
  <2>3. I \subseteq DOMAIN v_services
    OBVIOUS
  <2>7. e = [p |-> a.p, avail |-> a.avail, at |-> a.at, n |-> a.n]
    OBVIOUS
  <2> HIDE DEF e, I, dir
  <2>6. SUFFICES
           /\ dir \in Seq(RowOf)
           /\ \A i \in DOMAIN dir : \/ dir[i] = [p |-> a.p, avail |-> a.avail, at |-> a.at, n |-> a.n]
                                    \/ i \in DOMAIN v_services /\ dir[i] = v_services[i] /\ dir[i].p # a.p
           /\ \E i \in DOMAIN dir : dir[i].p = a.p
           /\ \A i \in DOMAIN v_services : v_services[i].p # a.p => i \in DOMAIN dir /\ dir[i] = v_services[i]
    BY <1>4, Zenon DEF dir
  <2>4. CASE I = {}
    <3>1. dir = Append(v_services, e)
      BY <2>1, <2>4
    <3>2. /\ dir \in Seq(RowOf) /\ DOMAIN dir = 1 .. Len(v_services) + 1
          /\ \A i \in 1 .. Len(v_services) : dir[i] = v_services[i]
          /\ dir[Len(v_services) + 1] = e
      BY <1>1, <1>2, <3>1
    <3>3. \A i \in DOMAIN v_services : v_services[i].p # a.p
      BY <2>2, <2>4
    <3>4. \A i \in DOMAIN dir : dir[i] = e \/ (i \in DOMAIN v_services /\ dir[i] = v_services[i] /\ dir[i].p # a.p)
      BY <1>1, <3>2, <3>3
    <3>5. Len(v_services) + 1 \in DOMAIN dir /\ dir[Len(v_services) + 1].p = a.p
      BY <1>1, <1>2, <3>2
    <3>6. \A i \in DOMAIN v_services : i \in DOMAIN dir /\ dir[i] = v_services[i]
      BY <1>1, <3>2
    <3>7. \A i \in DOMAIN dir : \/ dir[i] = [p |-> a.p, avail |-> a.avail, at |-> a.at, n |-> a.n]
                                \/ i \in DOMAIN v_services /\ dir[i] = v_services[i] /\ dir[i].p # a.p
      BY <3>4, <2>7, Zenon
    <3>8. \E i \in DOMAIN dir : dir[i].p = a.p
      BY <3>5
    <3> QED BY <3>2, <3>6, <3>7, <3>8
  <2>5. CASE I # {}
    <3>1. dir = [i \in DOMAIN v_services |-> IF i \in I THEN e ELSE v_services[i]]
      BY <2>1, <2>5
    <3>2. DOMAIN dir = DOMAIN v_services /\ \A i \in DOMAIN v_services : dir[i] = IF i \in I THEN e ELSE v_services[i]
      BY <3>1
    <3>3. dir \in Seq(RowOf)
      BY <1>1, <1>2, <3>1
    <3>4. \A i \in DOMAIN dir : dir[i] = e \/ (i \in DOMAIN v_services /\ dir[i] = v_services[i] /\ dir[i].p # a.p)
      BY <2>2, <3>2
    <3>5. \E i \in DOMAIN dir : dir[i].p = a.p
      BY <1>2, <2>3, <2>5, <3>2
    <3>6. \A i \in DOMAIN v_services : v_services[i].p # a.p => i \in DOMAIN dir /\ dir[i] = v_services[i]
      BY <2>2, <3>2
    <3>7. \A i \in DOMAIN dir : \/ dir[i] = [p |-> a.p, avail |-> a.avail, at |-> a.at, n |-> a.n]
                                \/ i \in DOMAIN v_services /\ dir[i] = v_services[i] /\ dir[i].p # a.p
      BY <3>4, <2>7, Zenon
    <3> QED BY <3>3, <3>5, <3>6, <3>7
  <2> QED BY <2>4, <2>5
<1> QED BY <1>3, <1>4

\* The caller reads an announcement, the last one or an earlier.
LEMMA AnnouncementRead ==
  ASSUME Svc!DirectoryInv, NEW a, Svc!HandleServiceAnnounce(a)
  PROVE  Svc!DirectoryInv'
<1> DEFINE dir == Svc!Record(v_services, a)
<1>1. a \in v_net /\ a \in AnnOf /\ Svc!Dated(a) /\ a.t = "announce" /\ a.p \in Remotes
  BY DEF Svc!HandleServiceAnnounce, Svc!DirectoryInv, AnnOf, Svc!Dated
<1>2. /\ v_services' = dir /\ UNCHANGED <<v_now, v_local, v_started, v_lost, v_tied>>
  BY DEF Svc!HandleServiceAnnounce
<1>3. /\ \A x \in v_net' : (x \in v_net /\ x # a) \/ (x.t # "announce" /\ x.t # "query")
      /\ v_net \ {a} \subseteq v_net'
  BY DEF Svc!HandleServiceAnnounce, Svc!Sent
<1>4. /\ dir \in Seq(RowOf)
      /\ \/ dir = v_services /\ \E i \in DOMAIN v_services : v_services[i].p = a.p /\ v_services[i].at > a.at
         \/ /\ \A i \in DOMAIN v_services : ~(v_services[i].p = a.p /\ v_services[i].at > a.at)
            /\ \A i \in DOMAIN dir : \/ dir[i] = [p |-> a.p, avail |-> a.avail, at |-> a.at, n |-> a.n]
                                     \/ i \in DOMAIN v_services /\ dir[i] = v_services[i] /\ dir[i].p # a.p
            /\ \E i \in DOMAIN dir : dir[i].p = a.p
            /\ \A i \in DOMAIN v_services : v_services[i].p # a.p => i \in DOMAIN dir /\ dir[i] = v_services[i]
  BY <1>1, RecordedAs
<1> HIDE DEF dir
<1>5. \A x : Svc!Dated(x)' <=> Svc!Dated(x)
  BY <1>2 DEF Svc!Dated
<1>6. /\ v_now \in Nat \ {0} /\ v_services \in Seq(RowOf) /\ v_local \in [Svc!Nodes -> OwnOf]
      /\ \A i \in DOMAIN v_services : Svc!Dated(v_services[i])
      /\ \A x \in v_net : x.t = "announce" => x \in AnnOf /\ Svc!Dated(x)
      /\ \A x \in v_net : x.t = "query" => x.p \in Remotes
  BY DEF Svc!DirectoryInv, AnnOf, RowOf, OwnOf
<1>7. \A i \in DOMAIN dir : Svc!Dated(dir[i])
  <2>1. Svc!Dated([p |-> a.p, avail |-> a.avail, at |-> a.at, n |-> a.n])
    BY <1>1 DEF Svc!Dated
  <2> QED BY <1>4, <1>6, <2>1
<1>8. ASSUME v_started, v_lost = 0, ~v_tied, NEW q \in Remotes, v_local[q].n > 0
      PROVE  Svc!SaidLast(q)'
  <2>0. /\ v_local[q] \in OwnOf
        /\ \A i \in DOMAIN v_services : v_services[i] \in RowOf
    BY <1>6 DEF Svc!Nodes
  <2>1. Svc!SaidLast(q)
    BY <1>8 DEF Svc!DirectoryInv
  <2> DEFINE last == [t |-> "announce", p |-> q, avail |-> v_local[q].avail, at |-> v_local[q].at, n |-> v_local[q].n]
  <2>2. last = Svc!Ann(q, v_local[q])
    BY DEF Svc!Ann
  <2>3. SUFFICES \/ last \in v_net'
                 \/ \E i \in DOMAIN dir : dir[i].p = q /\ \A j \in DOMAIN dir : dir[j].p = q => dir[j].n = v_local[q].n
    BY <1>2, <2>2 DEF Svc!SaidLast, Svc!Ann
  <2>4. \/ last \in v_net
        \/ \E i \in DOMAIN v_services : v_services[i].p = q /\ \A j \in DOMAIN v_services : v_services[j].p = q => v_services[j].n = v_local[q].n
    BY <2>1, <2>2 DEF Svc!SaidLast
  <2>5. last.p = q /\ last.n = v_local[q].n /\ last.at = v_local[q].at /\ last.t = "announce"
    OBVIOUS
  <2> HIDE DEF last
  <2>6. CASE q # a.p
    <3>1. CASE last \in v_net
      BY <1>3, <2>5, <2>6, <3>1
    <3>2. CASE \E i \in DOMAIN v_services : v_services[i].p = q /\ \A j \in DOMAIN v_services : v_services[j].p = q => v_services[j].n = v_local[q].n
      <4>1. PICK i \in DOMAIN v_services : v_services[i].p = q /\ \A j \in DOMAIN v_services : v_services[j].p = q => v_services[j].n = v_local[q].n
        BY <3>2
      <4>2. i \in DOMAIN dir /\ dir[i] = v_services[i]
        BY <1>4, <2>6, <4>1
      <4>3. \A j \in DOMAIN dir : dir[j].p = q => j \in DOMAIN v_services /\ dir[j] = v_services[j]
        BY <1>4, <2>6
      <4> QED BY <4>1, <4>2, <4>3
    <3> QED BY <2>4, <3>1, <3>2
  <2>7. CASE q = a.p
    <3>1. /\ a.n \in 1 .. v_local[q].n /\ (a.n = v_local[q].n => a.at = v_local[q].at)
          /\ a.n < v_local[q].n => a.at < v_local[q].at
      BY <1>1, <1>8, <2>7 DEF Svc!Dated
    <3>2. \A i \in DOMAIN v_services : v_services[i].p = q =>
             /\ v_services[i].n \in 1 .. v_local[q].n /\ (v_services[i].n = v_local[q].n => v_services[i].at = v_local[q].at)
             /\ v_services[i].n < v_local[q].n => v_services[i].at < v_local[q].at
      BY <1>6, <1>8 DEF Svc!Dated
    <3>3. a.at \in Nat /\ v_local[q].at \in Nat /\ v_local[q].n \in Nat
      BY <1>1, <1>6, <2>0 DEF AnnOf, OwnOf
    <3>4. CASE a.n = v_local[q].n
      <4>1. \A i \in DOMAIN v_services : ~(v_services[i].p = q /\ v_services[i].at > a.at)
        <5> SUFFICES ASSUME NEW i \in DOMAIN v_services, v_services[i].p = q PROVE ~(v_services[i].at > a.at)
          OBVIOUS
        <5>1. v_services[i].at \in Nat /\ v_services[i].n \in Nat
          BY <1>6, <2>0 DEF RowOf
        <5> QED BY <3>1, <3>2, <3>3, <3>4, <5>1
      <4>2. \A i \in DOMAIN dir : dir[i].p = q => dir[i].n = a.n
        BY <1>4, <2>7, <4>1
      <4>3. \E i \in DOMAIN dir : dir[i].p = q
        BY <1>4, <2>7, <4>1
      <4> QED BY <3>4, <4>2, <4>3
    <3>5. CASE a.n # v_local[q].n
      <4>1. a.at < v_local[q].at
        BY <3>1, <3>3, <3>5
      <4>2. CASE last \in v_net
        BY <1>3, <2>5, <3>5, <4>2
      <4>3. CASE \E i \in DOMAIN v_services : v_services[i].p = q /\ \A j \in DOMAIN v_services : v_services[j].p = q => v_services[j].n = v_local[q].n
        <5>1. PICK i \in DOMAIN v_services : v_services[i].p = q /\ \A j \in DOMAIN v_services : v_services[j].p = q => v_services[j].n = v_local[q].n
          BY <4>3
        <5>2. v_services[i].at > a.at
          BY <3>2, <3>3, <4>1, <5>1
        <5>3. dir = v_services
          BY <1>4, <2>7, <5>1, <5>2
        <5> QED BY <5>1, <5>3
      <4> QED BY <2>4, <4>2, <4>3
    <3> QED BY <3>4, <3>5
  <2> QED BY <2>6, <2>7
<1>9. \A x \in v_net' : x.t = "announce" => x \in AnnOf /\ Svc!Dated(x)'
  BY <1>3, <1>5, <1>6
<1>10. \A x \in v_net' : x.t = "query" => x.p \in Remotes
  BY <1>3, <1>6
<1>11. \A i \in DOMAIN v_services' : Svc!Dated(v_services[i])'
  BY <1>2, <1>5, <1>7
<1>12. /\ v_services' \in Seq([p : Remotes, avail : BOOLEAN, at : 0 .. v_now', n : Nat])
       /\ \A x \in v_net' : x.t = "announce" =>
            x \in [t : {"announce"}, p : Remotes, avail : BOOLEAN, at : 0 .. v_now', n : Nat] /\ Svc!Dated(x)'
  BY <1>2, <1>4, <1>9 DEF RowOf, AnnOf
<1> HIDE <1>9
<1> QED BY <1>2, <1>8, <1>10, <1>11, <1>12 DEF Svc!DirectoryInv

\* A provider answers a query with what it announced last.
LEMMA QueryAnswered ==
  ASSUME Svc!DirectoryInv, NEW q, Svc!HandleServiceQuery(q)
  PROVE  Svc!DirectoryInv'
<1>1. /\ q \in v_net /\ q.t = "query" /\ q.p \in Remotes
      /\ v_net' = (v_net \ {q}) \cup (IF v_local[q.p].avail THEN {Svc!Ann(q.p, v_local[q.p])} ELSE {})
      /\ UNCHANGED <<v_now, v_local, v_services, v_started, v_lost, v_tied>>
  BY DEF Svc!HandleServiceQuery, Svc!DirectoryInv
<1> DEFINE o == v_local[q.p]
<1>2. o \in OwnOf /\ (o.avail => o.n > 0)
  BY <1>1 DEF Svc!DirectoryInv, OwnOf, Svc!Nodes
<1>3. PICK ann : ann = Svc!Ann(q.p, o)
  OBVIOUS
<1>4. ann = [t |-> "announce", p |-> q.p, avail |-> o.avail, at |-> o.at, n |-> o.n]
  BY <1>3 DEF Svc!Ann
<1>5. ann \in AnnOf /\ ann.p = q.p /\ ann.n = o.n /\ ann.at = o.at /\ ann.avail = o.avail /\ ann.t = "announce"
  BY <1>1, <1>2, <1>4 DEF AnnOf, OwnOf
<1>6. o.avail => Svc!Dated(ann)
  BY <1>1, <1>2, <1>5 DEF Svc!Dated, OwnOf
<1>7. v_net' = (v_net \ {q}) \cup (IF o.avail THEN {ann} ELSE {})
  BY <1>1, <1>3
<1> HIDE DEF o
<1>8. \A x : Svc!Dated(x)' <=> Svc!Dated(x)
  BY <1>1 DEF Svc!Dated
<1>9. \A x \in v_net' : x.t = "announce" => x \in AnnOf /\ Svc!Dated(x)
  BY <1>5, <1>6, <1>7 DEF Svc!DirectoryInv, AnnOf
<1>10. \A x \in v_net' : x.t = "query" => x.p \in Remotes
  BY <1>5, <1>7 DEF Svc!DirectoryInv
<1>11. \A p : Svc!SaidLast(p) => Svc!SaidLast(p)'
  <2>1. \A p : Svc!Ann(p, v_local[p]) # q
    BY <1>1 DEF Svc!Ann
  <2> QED BY <1>1, <2>1 DEF Svc!SaidLast, Svc!Ann
<1> QED BY <1>1, <1>8, <1>9, <1>10, <1>11 DEF Svc!DirectoryInv, AnnOf

\* A packet is lost.
LEMMA PacketLost ==
  ASSUME Svc!DirectoryInv, NEW x, Svc!Lose(x)
  PROVE  Svc!DirectoryInv'
<1>1. /\ v_net' \subseteq v_net /\ v_lost \in Nat /\ v_lost' = v_lost + 1
      /\ UNCHANGED <<v_now, v_local, v_services, v_started, v_tied>>
  BY DEF Svc!Lose, Svc!DirectoryInv
<1>2. v_lost' \in Nat /\ v_lost' # 0
  BY <1>1
<1>3. \A a : Svc!Dated(a)' <=> Svc!Dated(a)
  BY <1>1 DEF Svc!Dated
<1> QED BY <1>1, <1>2, <1>3 DEF Svc!DirectoryInv

\* Time passes.
LEMMA DirectoryAges ==
  ASSUME Svc!DirectoryInv, Svc!Tick
  PROVE  Svc!DirectoryInv'
<1>1. /\ v_now \in Nat \ {0} /\ v_now' = v_now + 1
      /\ UNCHANGED <<v_local, v_services, v_net, v_started, v_lost, v_tied>>
  BY DEF Svc!Tick, Svc!DirectoryInv
<1>2. v_now' \in Nat \ {0} /\ 0 .. v_now \subseteq 0 .. v_now'
  BY <1>1
<1>3. \A a : Svc!Dated(a)' <=> Svc!Dated(a)
  BY <1>1 DEF Svc!Dated
<1>4. \A p : Svc!SaidLast(p) => Svc!SaidLast(p)'
  BY <1>1 DEF Svc!SaidLast, Svc!Ann
<1>5. v_local' \in [Svc!Nodes -> [avail : BOOLEAN, at : 0 .. v_now', n : Nat]]
  <2>1. v_local \in [Svc!Nodes -> [avail : BOOLEAN, at : 0 .. v_now, n : Nat]]
    BY DEF Svc!DirectoryInv
  <2> QED BY <1>1, <1>2, <2>1
<1>6. v_services' \in Seq([p : Remotes, avail : BOOLEAN, at : 0 .. v_now', n : Nat])
  <2> DEFINE Wide == [p : Remotes, avail : BOOLEAN, at : 0 .. v_now', n : Nat]
  <2>1. v_services \in Seq(RowOf)
    BY DEF Svc!DirectoryInv, RowOf
  <2>2. RowOf \subseteq Wide
    BY <1>2 DEF RowOf
  <2> HIDE DEF Wide
  <2>3. v_services \in Seq(Wide)
    BY <2>1, <2>2
  <2> QED BY <1>1, <2>3 DEF Wide
<1>7. \A a \in v_net' : a.t = "announce" =>
         a \in [t : {"announce"}, p : Remotes, avail : BOOLEAN, at : 0 .. v_now', n : Nat] /\ Svc!Dated(a)'
  BY <1>1, <1>2, <1>3 DEF Svc!DirectoryInv
<1> QED BY <1>1, <1>2, <1>3, <1>4, <1>5, <1>6, <1>7 DEF Svc!DirectoryInv

\* The caller withdraws or offers the service itself.
LEMMA OwnAnnounced ==
  ASSUME Svc!DirectoryInv, NEW avail \in BOOLEAN, Svc!AnnounceOwn(avail)
  PROVE  Svc!DirectoryInv'
<1>1. /\ v_local' = [v_local EXCEPT ![Caller].avail = avail]
      /\ UNCHANGED <<v_now, v_services, v_net, v_started, v_lost, v_tied>>
  BY DEF Svc!AnnounceOwn
<1>2. v_local \in [Svc!Nodes -> OwnOf] /\ Caller \in Svc!Nodes
  BY DEF Svc!DirectoryInv, OwnOf, Svc!Nodes
<1>3. v_local' \in [Svc!Nodes -> OwnOf]
  BY <1>1, <1>2 DEF OwnOf
<1>4. \A p \in Remotes : v_local'[p] = v_local[p]
  BY <1>1, <1>2, SvcConstants DEF Svc!MeshServicesAssumption, Svc!Nodes
<1>5. \A a : Svc!Dated(a) => Svc!Dated(a)'
  BY <1>1, <1>4 DEF Svc!Dated
<1>6. ASSUME NEW p \in Remotes, Svc!SaidLast(p) PROVE Svc!SaidLast(p)'
  <2>1. v_local'[p] = v_local[p] /\ UNCHANGED <<v_services, v_net>>
    BY <1>1, <1>4
  <2> QED BY <1>6, <2>1 DEF Svc!SaidLast, Svc!Ann
<1> QED BY <1>1, <1>3, <1>4, <1>5, <1>6 DEF Svc!DirectoryInv, OwnOf

\* The caller stops, and reads no announcement any more.
LEMMA CallerStops ==
  ASSUME Svc!DirectoryInv, Svc!Stop
  PROVE  Svc!DirectoryInv'
<1>1. v_started' = FALSE /\ UNCHANGED <<v_now, v_local, v_services, v_net, v_lost, v_tied>>
  BY DEF Svc!Stop
<1>2. \A a : Svc!Dated(a)' <=> Svc!Dated(a)
  BY <1>1 DEF Svc!Dated
<1> QED BY <1>1, <1>2 DEF Svc!DirectoryInv

\* Every step.
LEMMA DirectoryStep == Svc!DirectoryInv /\ [Svc!Next]_svcVars => Svc!DirectoryInv'
<1> SUFFICES ASSUME Svc!DirectoryInv, [Svc!Next]_svcVars PROVE Svc!DirectoryInv'
  OBVIOUS
<1>1. CASE UNCHANGED svcVars
  BY <1>1, NothingSaid DEF svcVars, Svc!DirectoryInv
<1>2. CASE \E avail \in BOOLEAN : Svc!AnnounceOwn(avail) \/ \E p \in Remotes : Svc!Announce(p, avail)
  BY <1>2, OwnAnnounced, ProviderAnnounces
<1>3. ASSUME NEW k \in Svc!Tasks, Svc!Start(k) PROVE Svc!DirectoryInv'
  <2>1. \A p : \A x \in Svc!Sent(k, p) : x.t # "announce" /\ x.t # "query"
    BY DEF Svc!Sent
  <2>2. \A p \in Remotes : [t |-> "query", k |-> k, p |-> p].t = "query"
    OBVIOUS
  <2>3. \A x \in {[t |-> "query", k |-> k, p |-> p] : p \in Remotes} : x.t = "query" /\ x.p \in Remotes
    OBVIOUS
  <2>4. UNCHANGED <<v_now, v_local, v_services, v_started, v_lost, v_tied>>
    BY <1>3 DEF Svc!Start
  <2>5. \/ UNCHANGED v_net \/ \E p : v_net' = v_net \cup Svc!Sent(k, p)
        \/ v_net' = v_net \cup {[t |-> "query", k |-> k, p |-> p] : p \in Remotes}
    BY <1>3 DEF Svc!Start
  <2>6. \A x \in v_net' : x \in v_net \/ (x.t # "announce" /\ (x.t = "query" => x.p \in Remotes))
    BY <2>1, <2>3, <2>5
  <2>7. v_net \subseteq v_net'
    BY <2>5
  <2> QED BY <2>4, <2>6, <2>7, NothingSaid
<1>4. ASSUME NEW k \in Svc!Tasks, Svc!Timeout(k) PROVE Svc!DirectoryInv'
  BY <1>4, NothingSaid DEF Svc!Timeout
<1>5. ASSUME NEW x \in v_net, Svc!HandleServiceResponse(x) \/ Svc!HandleReport(x) PROVE Svc!DirectoryInv'
  <2>1. x.t # "announce" /\ v_net' = v_net \ {x} /\ UNCHANGED <<v_now, v_local, v_services, v_started, v_lost, v_tied>>
    BY <1>5 DEF Svc!HandleServiceResponse, Svc!HandleReport
  <2> QED BY <2>1, NothingSaid
<1>6. ASSUME NEW x \in v_net, Svc!HandleServiceRequest(x) PROVE Svc!DirectoryInv'
  <2>1. Svc!Reply(x.k, x.p, FALSE).t = "reply"
    BY DEF Svc!Reply
  <2>2. /\ x.t = "request" /\ UNCHANGED <<v_now, v_local, v_services, v_started, v_lost, v_tied>>
        /\ v_net' = v_net \ {x} \/ v_net' = (v_net \ {x}) \cup {Svc!Reply(x.k, x.p, FALSE)}
    BY <1>6 DEF Svc!HandleServiceRequest
  <2> QED BY <2>1, <2>2, NothingSaid
<1>7. ASSUME NEW k, NEW p, NEW ok, Svc!HandlerEnds(k, p, ok) PROVE Svc!DirectoryInv'
  <2>1. Svc!Reply(k, p, ok).t = "reply"
    BY DEF Svc!Reply
  <2>2. /\ UNCHANGED <<v_now, v_local, v_services, v_started, v_lost, v_tied>>
        /\ v_net' = v_net \/ v_net' = v_net \cup {Svc!Reply(k, p, ok)}
    BY <1>7 DEF Svc!HandlerEnds
  <2> QED BY <2>1, <2>2, NothingSaid
<1> QED BY <1>1, <1>2, <1>3, <1>4, <1>5, <1>6, <1>7, AnnouncementRead, QueryAnswered, PacketLost,
           CallerStops, DirectoryAges DEF Svc!Next

\* With every packet in, the directory is what the providers said last.
LEMMA DirectoryIsCurrent == Svc!DirectoryInv => Svc!DirectoryCurrent
<1> SUFFICES ASSUME Svc!DirectoryInv, v_started, v_lost = 0, ~v_tied, v_net = {}, NEW i \in DOMAIN v_services
             PROVE  v_services[i].n = v_local[v_services[i].p].n
  BY DEF Svc!DirectoryCurrent
<1> DEFINE p == v_services[i].p
<1>1. p \in Remotes /\ v_services[i].n \in 1 .. v_local[p].n
  BY DEF Svc!DirectoryInv, Svc!Dated
<1>2. v_local[p] \in OwnOf
  BY <1>1 DEF Svc!DirectoryInv, OwnOf, Svc!Nodes
<1>3. v_local[p].n \in Nat
  BY <1>2 DEF OwnOf
<1>4. v_local[p].n > 0
  BY <1>1, <1>3
<1>5. Svc!SaidLast(p)
  BY <1>1, <1>4 DEF Svc!DirectoryInv
<1> QED BY <1>5 DEF Svc!SaidLast
\* A badge is taken away with the label it was put on.
LEMMA BadgeStart == Disc!Init => Disc!DiscoveryInv
<1> SUFFICES ASSUME Disc!Init PROVE Disc!DiscoveryInv
  OBVIOUS
<1>1. Disc!Blank \in [label : Labels \cup {NoLabel}, at : Nat, verified : BOOLEAN] /\ ~Disc!Blank.verified
  BY DEF Disc!Blank
<1>2. Disc!IsFiniteSet({})
  BY FS_EmptySet DEF IsFiniteSet, Disc!IsFiniteSet
<1> QED BY <1>1, <1>2 DEF Disc!Init, Disc!DiscoveryInv, Disc!BadgeKeepsLabel

LEMMA BadgeStep == Disc!DiscoveryInv /\ [Disc!Next]_discVars => Disc!DiscoveryInv'
<1> SUFFICES ASSUME Disc!DiscoveryInv, [Disc!Next]_discVars PROVE Disc!DiscoveryInv'
  OBVIOUS
<1> DEFINE EntryOf == [label : Labels \cup {NoLabel}, at : Nat, verified : BOOLEAN]
<1>0. /\ i_entry \in [Registrants -> EntryOf] /\ i_badge \in [Registrants -> Labels \cup {NoLabel}]
      /\ i_label \in [Registrants -> Labels \cup {NoLabel}]
      /\ i_signed \subseteq [id : Registrants, label : Labels \cup {NoLabel}, at : Nat]
      /\ \A n \in Registrants : i_entry[n].verified => i_entry[n].label = i_badge[n]
      /\ IsFiniteSet(i_signed) /\ Disc!IsFiniteSet(i_signed)
  <2>1. Disc!IsFiniteSet(i_signed)
    BY DEF Disc!DiscoveryInv
  <2>2. IsFiniteSet(i_signed)
    BY <2>1 DEF IsFiniteSet, Disc!IsFiniteSet
  <2> QED BY <2>1, <2>2 DEF Disc!DiscoveryInv, Disc!BadgeKeepsLabel
<1>1. Disc!Blank \in EntryOf /\ ~Disc!Blank.verified
  BY DEF Disc!Blank
<1>2. CASE UNCHANGED discVars
  BY <1>2 DEF discVars, Disc!DiscoveryInv, Disc!BadgeKeepsLabel
<1>3. ASSUME NEW n \in Registrants, Disc!Register(n) PROVE Disc!DiscoveryInv'
  <2>1. UNCHANGED <<i_label, i_entry, i_badge>>
    BY <1>3 DEF Disc!Register
  <2>2. PICK before : /\ before = {r \in i_signed : r.id = n}
                      /\ i_signed' = i_signed \cup {[id |-> n, label |-> i_label[n], at |-> Cardinality(before) + 1]}
    BY <1>3 DEF Disc!Register, Disc!Cardinality, Cardinality
  <2>3. IsFiniteSet(before)
    BY <1>0, <2>2, FS_Subset
  <2>4. Cardinality(before) \in Nat
    BY <2>3, FS_CardinalityType
  <2> DEFINE new == [id |-> n, label |-> i_label[n], at |-> Cardinality(before) + 1]
  <2>5. new \in [id : Registrants, label : Labels \cup {NoLabel}, at : Nat]
    BY <1>0, <2>4
  <2>6. i_signed' = i_signed \cup {new}
    BY <2>2
  <2> HIDE DEF new
  <2>7. IsFiniteSet(i_signed')
    BY <1>0, <2>6, FS_AddElement
  <2>8. Disc!IsFiniteSet(i_signed')
    BY <2>7 DEF IsFiniteSet, Disc!IsFiniteSet
  <2>9. i_signed' \subseteq [id : Registrants, label : Labels \cup {NoLabel}, at : Nat]
    BY <1>0, <2>5, <2>6
  <2> QED BY <1>0, <2>1, <2>8, <2>9 DEF Disc!DiscoveryInv, Disc!BadgeKeepsLabel
<1>4. ASSUME NEW n \in Registrants, NEW l \in Labels \cup {NoLabel}, Disc!Rename(n, l) PROVE Disc!DiscoveryInv'
  BY <1>0, <1>4 DEF Disc!Rename, Disc!DiscoveryInv, Disc!BadgeKeepsLabel
<1>5. ASSUME NEW n \in Registrants, NEW v \in BOOLEAN, Disc!HandleAdminVerify(n, v) PROVE Disc!DiscoveryInv'
  <2>1. /\ i_entry' = [i_entry EXCEPT ![n].verified = v] /\ UNCHANGED <<i_label, i_signed>>
        /\ i_badge' = IF v THEN [i_badge EXCEPT ![n] = i_entry[n].label] ELSE i_badge
    BY <1>5 DEF Disc!HandleAdminVerify
  <2>2. i_entry' \in [Registrants -> EntryOf] /\ i_badge' \in [Registrants -> Labels \cup {NoLabel}]
    BY <1>0, <2>1
  <2>3. \A m \in Registrants : i_entry'[m].verified => i_entry'[m].label = i_badge'[m]
    BY <1>0, <2>1
  <2> QED BY <1>0, <2>1, <2>2, <2>3 DEF Disc!DiscoveryInv, Disc!BadgeKeepsLabel
<1>6. ASSUME NEW r \in i_signed, Disc!HandleRegister(r) PROVE Disc!DiscoveryInv'
  <2>1. r.id \in Registrants /\ r.label \in Labels \cup {NoLabel} /\ r.at \in Nat
    BY <1>0
  <2>2. PICK out : i_entry' = [m \in Registrants |->
              IF m = r.id THEN [label |-> r.label, at |-> r.at, verified |-> Disc!VerifiedAfter(r.id, r)]
              ELSE IF m \in out THEN Disc!Blank ELSE i_entry[m]]
    BY <1>6 DEF Disc!HandleRegister
  <2>3. UNCHANGED <<i_label, i_signed, i_badge>>
    BY <1>6 DEF Disc!HandleRegister
  <2>4. Disc!VerifiedAfter(r.id, r) \in BOOLEAN
    BY DEF Disc!VerifiedAfter
  <2>5. Disc!VerifiedAfter(r.id, r) => i_entry[r.id].verified /\ i_entry[r.id].label = r.label
    BY DEF Disc!VerifiedAfter
  <2>6. i_entry' \in [Registrants -> EntryOf]
    BY <1>0, <1>1, <2>1, <2>2, <2>4
  <2>7. \A m \in Registrants : i_entry'[m].verified => i_entry'[m].label = i_badge'[m]
    BY <1>0, <1>1, <2>1, <2>2, <2>3, <2>5
  <2> QED BY <1>0, <2>3, <2>6, <2>7 DEF Disc!DiscoveryInv, Disc!BadgeKeepsLabel
<1>7. CASE Disc!HandleDirectory \/ Disc!ServiceRestarts
  BY <1>0, <1>1, <1>7 DEF Disc!HandleDirectory, Disc!ServiceRestarts, Disc!DiscoveryInv, Disc!BadgeKeepsLabel
<1> QED BY <1>2, <1>3, <1>4, <1>5, <1>6, <1>7 DEF Disc!Next

StatusOf == {"none", "done", "failed", "discovering"}

\* What the caller has reported: under way, or on file.
LEMMA ReportsAre ==
  /\ \A x : x \in Svc!Reports <=> \/ x \in v_net /\ x.t = "report"
                                  \/ \E p \in Remotes : v_slot[p].k # 0 /\ x = v_slot[p]
  /\ \A x : x \in Svc!Reports' <=> \/ x \in v_net' /\ x.t = "report"
                                   \/ \E p \in Remotes : v_slot'[p].k # 0 /\ x = v_slot'[p]
BY DEF Svc!Reports

LEMMA ReportsStart == Svc!Init => Svc!ReportsInv
<1> SUFFICES ASSUME Svc!Init PROVE Svc!ReportsInv
  OBVIOUS
<1>1. /\ v_now = 1 /\ v_task = [k \in Svc!Tasks |-> Svc!NoTask] /\ v_net = {}
      /\ v_slot = [p \in Remotes |-> [k |-> 0, at |-> 0]]
  BY DEF Svc!Init
<1>2. Svc!Reports = {}
  BY <1>1 DEF Svc!Reports
<1>3. Svc!NoTask = [st |-> Svc!NoTask.st, to |-> Svc!NoTask.to, timer |-> Svc!NoTask.timer] /\ Svc!NoTask.st = "none"
  BY DEF Svc!NoTask
<1>4. \A k \in Svc!Tasks : v_task[k] = Svc!NoTask
  BY <1>1
<1>5. v_task = [k \in Svc!Tasks |-> [st |-> v_task[k].st, to |-> v_task[k].to, timer |-> v_task[k].timer]]
  BY <1>1, <1>3, <1>4
<1>6. v_slot \in [Remotes -> [k : Shares \cup {0}, at : 0 .. v_now]]
  BY <1>1
<1>7. Shares \subseteq Svc!Tasks
  BY DEF Svc!Tasks
<1> QED BY <1>1, <1>2, <1>3, <1>4, <1>5, <1>6, <1>7 DEF Svc!ReportsInv

\* A step that reports nothing and after which no task waits that did not, while
\* shares that waited may have failed.
LEMMA NothingReported ==
  ASSUME Svc!ReportsInv, UNCHANGED <<v_now, v_slot, v_services>>,
         \A x \in v_net' : x.t = "report" => x \in v_net,
         v_task' = [k \in Svc!Tasks |-> [st |-> v_task'[k].st, to |-> v_task'[k].to, timer |-> v_task'[k].timer]],
         \A k \in Svc!Tasks : v_task'[k].st = "discovering" => v_task[k].st = "discovering",
         \A k \in Shares : v_task'[k].st = v_task[k].st \/ (v_task[k].st = "discovering" /\ v_task'[k].st = "failed")
  PROVE  Svc!ReportsInv'
<1>1. Svc!Reports' \subseteq Svc!Reports
  BY ReportsAre
<1>2. /\ v_now \in Nat \ {0} /\ v_slot \in [Remotes -> [k : Shares \cup {0}, at : 0 .. v_now]]
      /\ \A k \in Shares : v_task[k].st \in StatusOf
      /\ \A r \in Svc!Reports : r.k \in Shares /\ r.at \in 0 .. v_now /\ v_task[r.k].st = "done"
      /\ \A r, q \in Svc!Reports : r.k < q.k => r.at <= q.at
      /\ \A k, j \in Shares : j < k =>
           /\ v_task[k].st = "done" => v_task[j].st \in {"done", "failed"}
           /\ v_task[k].st # "none" => v_task[j].st # "none"
      /\ \A k \in Svc!Tasks : v_task[k].st = "discovering" => Svc!ProvidersFor(v_services) = <<>>
  BY DEF Svc!ReportsInv, StatusOf
<1>3. \A k \in Shares : v_task'[k].st \in StatusOf
  BY <1>2 DEF StatusOf
<1>4. \A k, j \in Shares : j < k =>
           /\ v_task'[k].st = "done" => v_task'[j].st \in {"done", "failed"}
           /\ v_task'[k].st # "none" => v_task'[j].st # "none"
  BY <1>2
<1>5. \A r \in Svc!Reports' : r.k \in Shares /\ r.at \in 0 .. v_now' /\ v_task'[r.k].st = "done"
  BY <1>1, <1>2
<1>6. \A k \in Svc!Tasks : v_task'[k].st = "discovering" => Svc!ProvidersFor(v_services') = <<>>
  BY <1>2
<1> QED BY <1>1, <1>2, <1>3, <1>4, <1>5, <1>6 DEF Svc!ReportsInv, StatusOf

\* The caller starts a call or a report.
LEMMA TaskStarts ==
  ASSUME Svc!ReportsInv, NEW k \in Svc!Tasks, Svc!Start(k)
  PROVE  Svc!ReportsInv'
<1>2. /\ v_now \in Nat \ {0} /\ v_slot \in [Remotes -> [k : Shares \cup {0}, at : 0 .. v_now]]
      /\ v_task = [j \in Svc!Tasks |-> [st |-> v_task[j].st, to |-> v_task[j].to, timer |-> v_task[j].timer]]
      /\ \A j \in Shares : v_task[j].st \in StatusOf
      /\ \A r \in Svc!Reports : r.k \in Shares /\ r.at \in 0 .. v_now /\ v_task[r.k].st = "done"
      /\ \A r, q \in Svc!Reports : r.k < q.k => r.at <= q.at
      /\ \A i, j \in Shares : j < i =>
           /\ v_task[i].st = "done" => v_task[j].st \in {"done", "failed"}
           /\ v_task[i].st # "none" => v_task[j].st # "none"
      /\ \A j \in Svc!Tasks : v_task[j].st = "discovering" => Svc!ProvidersFor(v_services) = <<>>
  BY DEF Svc!ReportsInv, StatusOf
<1>0. PICK known : known = Svc!ProvidersFor(v_services)
  OBVIOUS
<1>1. /\ v_task[k].st = "none" /\ \A j \in Shares : k \in Shares /\ j < k => v_task[j].st # "none"
      /\ UNCHANGED <<v_now, v_services, v_slot>>
      /\ \/ v_task' = [v_task EXCEPT ![k] = [st |-> IF k \in Calls THEN "local" ELSE "failed", to |-> Caller, timer |-> k \in Calls]]
            /\ UNCHANGED v_net
         \/ known # <<>> /\ v_task' = [v_task EXCEPT ![k] = Svc!Going(k, known[1].p)]
            /\ v_net' = v_net \cup Svc!Sent(k, known[1].p)
         \/ known = <<>> /\ v_task' = [v_task EXCEPT ![k] = [st |-> "discovering", to |-> Caller, timer |-> TRUE]]
            /\ v_net' = v_net \cup {[t |-> "query", k |-> k, p |-> p] : p \in Remotes}
  BY <1>0 DEF Svc!Start
<1>3. PICK e : /\ e = [st |-> e.st, to |-> e.to, timer |-> e.timer] /\ v_task' = [v_task EXCEPT ![k] = e]
               /\ \/ e.st \in {"local", "failed", "waiting"} /\ (k \in Shares => e.st = "failed")
                     /\ \A x \in v_net' : x.t = "report" => x \in v_net
                  \/ e.st = "done" /\ k \in Shares /\ known # <<>>
                     /\ \A x \in v_net' : x.t = "report" => x \in v_net \/ (x.k = k /\ x.at = v_now)
                  \/ e.st = "discovering" /\ known = <<>> /\ \A x \in v_net' : x.t = "report" => x \in v_net
  <2>1. CASE v_task' = [v_task EXCEPT ![k] = [st |-> IF k \in Calls THEN "local" ELSE "failed", to |-> Caller, timer |-> k \in Calls]]
            /\ UNCHANGED v_net
    <3> DEFINE e == [st |-> IF k \in Calls THEN "local" ELSE "failed", to |-> Caller, timer |-> k \in Calls]
    <3>1. e.st \in {"local", "failed", "waiting"} /\ (k \in Shares => e.st = "failed")
      BY SvcConstants DEF Svc!MeshServicesAssumption
    <3>2. e = [st |-> e.st, to |-> e.to, timer |-> e.timer]
      OBVIOUS
    <3>3. v_task' = [v_task EXCEPT ![k] = e]
      BY <2>1
    <3> HIDE DEF e
    <3> QED BY <2>1, <3>1, <3>2, <3>3
  <2>2. CASE known # <<>> /\ v_task' = [v_task EXCEPT ![k] = Svc!Going(k, known[1].p)]
            /\ v_net' = v_net \cup Svc!Sent(k, known[1].p)
    <3>1. PICK e : e = Svc!Going(k, known[1].p)
      OBVIOUS
    <3>2. /\ e = [st |-> e.st, to |-> e.to, timer |-> e.timer]
          /\ (k \in Calls => e.st = "waiting") /\ (k \notin Calls => e.st = "done")
      BY <3>1 DEF Svc!Going
    <3>3. (k \in Calls <=> k \notin Shares) /\ v_now + 0 = v_now
      BY <1>2, SvcConstants DEF Svc!MeshServicesAssumption, Svc!Tasks
    <3>4. \A x \in Svc!Sent(k, known[1].p) : x.t = "report" => k \notin Calls /\ x.k = k /\ x.at = v_now
      BY <3>3 DEF Svc!Sent
    <3> QED BY <2>2, <3>1, <3>2, <3>3, <3>4
  <2>3. CASE known = <<>> /\ v_task' = [v_task EXCEPT ![k] = [st |-> "discovering", to |-> Caller, timer |-> TRUE]]
            /\ v_net' = v_net \cup {[t |-> "query", k |-> k, p |-> p] : p \in Remotes}
    <3>1. PICK e : e = [st |-> "discovering", to |-> Caller, timer |-> TRUE]
      OBVIOUS
    <3>2. \A x \in v_net' : x.t = "report" => x \in v_net
      BY <2>3
    <3>3. e = [st |-> e.st, to |-> e.to, timer |-> e.timer] /\ e.st = "discovering" 
      BY <3>1
    <3> QED BY <2>3, <3>1, <3>2, <3>3
  <2> QED BY <1>1, <2>1, <2>2, <2>3
<1>4. v_task'[k] = e /\ \A j \in Svc!Tasks : j # k => v_task'[j] = v_task[j]
  BY <1>2, <1>3
<1>5. Shares \subseteq Svc!Tasks /\ Shares \subseteq Nat
  BY SvcConstants DEF Svc!Tasks, Svc!MeshServicesAssumption
<1>6. v_task' = [j \in Svc!Tasks |-> [st |-> v_task'[j].st, to |-> v_task'[j].to, timer |-> v_task'[j].timer]]
  <2>1. \A j \in Svc!Tasks : v_task[j] = [st |-> v_task[j].st, to |-> v_task[j].to, timer |-> v_task[j].timer]
    BY <1>2
  <2>2. \A j \in Svc!Tasks : v_task'[j] = [st |-> v_task'[j].st, to |-> v_task'[j].to, timer |-> v_task'[j].timer]
    BY <1>3, <1>4, <2>1
  <2>3. v_task' = [j \in Svc!Tasks |-> v_task'[j]]
    BY <1>2, <1>3
  <2> QED BY <2>2, <2>3
<1>7. \A j \in Shares : v_task'[j].st \in StatusOf
  BY <1>2, <1>3, <1>4, <1>5 DEF StatusOf
<1>8. \A x \in Svc!Reports' : x \in Svc!Reports \/ (e.st = "done" /\ k \in Shares /\ x.k = k /\ x.at = v_now)
  BY <1>1, <1>3, ReportsAre
<1>9. \A r \in Svc!Reports' : r.k \in Shares /\ r.at \in 0 .. v_now' /\ v_task'[r.k].st = "done"
  BY <1>1, <1>2, <1>4, <1>5, <1>8
<1>10. \A r \in Svc!Reports : k \in Shares => ~(k < r.k)
  BY <1>1, <1>2
<1>11. \A r, q \in Svc!Reports' : r.k < q.k => r.at <= q.at
  <2> SUFFICES ASSUME NEW r \in Svc!Reports', NEW q \in Svc!Reports', r.k < q.k PROVE r.at <= q.at
    OBVIOUS
  <2>1. r.at <= v_now
    BY <1>1, <1>9
  <2>2. CASE q \in Svc!Reports
    BY <1>2, <1>8, <1>10, <2>2
  <2>3. CASE q.k = k /\ q.at = v_now
    BY <2>1, <2>3
  <2> QED BY <1>8, <2>2, <2>3
<1>12. \A i, j \in Shares : j < i =>
           /\ v_task'[i].st = "done" => v_task'[j].st \in {"done", "failed"}
           /\ v_task'[i].st # "none" => v_task'[j].st # "none"
  <2> SUFFICES ASSUME NEW i \in Shares, NEW j \in Shares, j < i
               PROVE  /\ v_task'[i].st = "done" => v_task'[j].st \in {"done", "failed"}
                      /\ v_task'[i].st # "none" => v_task'[j].st # "none"
    OBVIOUS
  <2>1. CASE i = k
    <3>1. v_task'[j] = v_task[j] /\ v_task[j].st # "none" /\ v_task[j].st \in StatusOf
      BY <1>1, <1>2, <1>4, <1>5, <2>1
    <3>2. e.st = "done" => v_task[j].st # "discovering"
      BY <1>0, <1>2, <1>3, <1>5
    <3> QED BY <1>4, <2>1, <3>1, <3>2 DEF StatusOf
  <2>2. CASE j = k /\ i # k
    BY <1>1, <1>2, <1>4, <1>5, <2>2
  <2>3. CASE j # k /\ i # k
    BY <1>2, <1>4, <1>5, <2>3
  <2> QED BY <2>1, <2>2, <2>3
<1>13. \A j \in Svc!Tasks : v_task'[j].st = "discovering" => Svc!ProvidersFor(v_services') = <<>>
  BY <1>0, <1>1, <1>2, <1>3, <1>4
<1> QED BY <1>1, <1>2, <1>6, <1>7, <1>9, <1>11, <1>12, <1>13 DEF Svc!ReportsInv, StatusOf

\* The caller reads an announcement: those that waited for a provider go on, or wait on.
LEMMA AnnouncementHeard ==
  ASSUME Svc!ReportsInv, NEW a, Svc!HandleServiceAnnounce(a)
  PROVE  Svc!ReportsInv'
<1>1. /\ v_now \in Nat \ {0} /\ v_slot \in [Remotes -> [k : Shares \cup {0}, at : 0 .. v_now]]
      /\ v_task = [j \in Svc!Tasks |-> [st |-> v_task[j].st, to |-> v_task[j].to, timer |-> v_task[j].timer]]
      /\ \A j \in Shares : v_task[j].st \in StatusOf
      /\ \A r \in Svc!Reports : r.k \in Shares /\ r.at \in 0 .. v_now /\ v_task[r.k].st = "done"
      /\ \A r, q \in Svc!Reports : r.k < q.k => r.at <= q.at
      /\ \A i, j \in Shares : j < i =>
           /\ v_task[i].st = "done" => v_task[j].st \in {"done", "failed"}
           /\ v_task[i].st # "none" => v_task[j].st # "none"
  BY DEF Svc!ReportsInv, StatusOf
<1> DEFINE heard == {k \in Svc!Tasks : v_task[k].st = "discovering"}
<1>2. PICK provs : provs = Svc!ProvidersFor(v_services')
  OBVIOUS
<1>3. PICK p : p = provs[1].p
  OBVIOUS
<1>4. /\ UNCHANGED <<v_now, v_slot>>
      /\ v_task' = [k \in Svc!Tasks |-> IF k \in heard THEN Svc!Announced(k, v_services') ELSE v_task[k]]
      /\ v_net' = (v_net \ {a}) \cup UNION {Svc!Sent(k, p) : k \in {j \in heard : provs # <<>>}}
  BY <1>2, <1>3 DEF Svc!HandleServiceAnnounce
<1>5. \A k : Svc!Announced(k, v_services') = IF provs # <<>> THEN Svc!Going(k, p) ELSE v_task[k]
  BY <1>2, <1>3 DEF Svc!Announced
<1>6. /\ Shares \subseteq Svc!Tasks /\ Shares \subseteq Nat /\ v_now + 0 = v_now
      /\ \A k \in Svc!Tasks : k \in Calls <=> k \notin Shares
  BY <1>1, SvcConstants DEF Svc!Tasks, Svc!MeshServicesAssumption
<1>7. \A k \in Svc!Tasks : k \in heard <=> v_task[k].st = "discovering"
  OBVIOUS
<1>8. heard \subseteq Svc!Tasks
  OBVIOUS
<1> HIDE DEF heard
<1>9. CASE provs = <<>>
  <2>1. \A k \in Svc!Tasks : v_task'[k] = v_task[k]
    BY <1>4, <1>5, <1>9
  <2>2. v_task' = v_task
    <3>1. v_task' = [k \in Svc!Tasks |-> v_task'[k]] /\ v_task = [k \in Svc!Tasks |-> v_task[k]]
      BY <1>1, <1>4
    <3> QED BY <2>1, <3>1
  <2>3. v_net' \subseteq v_net
    BY <1>4, <1>9
  <2>4. Svc!Reports' \subseteq Svc!Reports
    BY <1>4, <2>3, ReportsAre
  <2>5. Svc!ProvidersFor(v_services') = <<>>
    BY <1>2, <1>9
  <2> QED BY <1>1, <1>4, <2>2, <2>4, <2>5 DEF Svc!ReportsInv, StatusOf
<1>10. CASE provs # <<>>
  <2>1. \A k \in Svc!Tasks : k \notin heard => v_task'[k] = v_task[k]
    BY <1>4
  <2>2. \A k \in heard : v_task'[k] = Svc!Going(k, p)
    BY <1>4, <1>5, <1>8, <1>10
  <2>3. \A k \in heard : /\ v_task'[k] = [st |-> v_task'[k].st, to |-> v_task'[k].to, timer |-> v_task'[k].timer]
                         /\ v_task'[k].st \in {"waiting", "done"} /\ (k \in Shares <=> v_task'[k].st = "done")
    BY <1>6, <1>8, <2>2 DEF Svc!Going
  <2>4. \A k \in Svc!Tasks : v_task'[k].st # "discovering"
    BY <1>7, <2>1, <2>3
  <2>5. v_task' = [k \in Svc!Tasks |-> [st |-> v_task'[k].st, to |-> v_task'[k].to, timer |-> v_task'[k].timer]]
    <3>1. v_task' = [k \in Svc!Tasks |-> v_task'[k]]
      BY <1>4
    <3>2. \A k \in Svc!Tasks : v_task[k] = [st |-> v_task[k].st, to |-> v_task[k].to, timer |-> v_task[k].timer]
      BY <1>1
    <3>3. \A k \in Svc!Tasks : v_task'[k] = [st |-> v_task'[k].st, to |-> v_task'[k].to, timer |-> v_task'[k].timer]
      BY <2>1, <2>3, <3>2
    <3> QED BY <3>1, <3>3
  <2>6. \A k \in Shares : v_task'[k].st \in StatusOf
    BY <1>1, <1>6, <2>1, <2>3 DEF StatusOf
  <2>7. \A x \in v_net' : x.t = "report" => x \in v_net \/ (x.k \in heard \cap Shares /\ x.at = v_now)
    <3>1. ASSUME NEW k \in heard, NEW x \in Svc!Sent(k, p), x.t = "report" PROVE k \in Shares /\ x.k = k /\ x.at = v_now
      <4>1. k \in Svc!Tasks /\ v_now + 0 = v_now
        BY <1>6, <1>8
      <4>2. k \notin Calls /\ x.k = k /\ x.at = v_now
        BY <3>1, <4>1 DEF Svc!Sent
      <4> QED BY <1>6, <4>1, <4>2
    <3> QED BY <1>4, <3>1
  <2>8. \A x \in Svc!Reports' : x \in Svc!Reports \/ (x.k \in heard \cap Shares /\ x.at = v_now)
    BY <1>4, <2>7, ReportsAre
  <2>9. \A r \in Svc!Reports' : r.k \in Shares /\ r.at \in 0 .. v_now' /\ v_task'[r.k].st = "done"
    <3>1. \A r \in Svc!Reports : r.k \notin heard
      BY <1>1, <1>6, <1>7
    <3> SUFFICES ASSUME NEW r \in Svc!Reports' PROVE r.k \in Shares /\ r.at \in 0 .. v_now' /\ v_task'[r.k].st = "done"
      OBVIOUS
    <3>2. CASE r \in Svc!Reports
      BY <1>1, <1>4, <1>6, <2>1, <3>1, <3>2
    <3>3. CASE r.k \in heard \cap Shares /\ r.at = v_now
      <4>1. r.at \in 0 .. v_now' /\ v_now' = v_now
        BY <1>1, <1>4, <3>3
      <4> QED BY <2>3, <3>3, <4>1
    <3> QED BY <2>8, <3>2, <3>3
  <2>10. \A r, q \in Svc!Reports' : r.k < q.k => r.at <= q.at
    <3> SUFFICES ASSUME NEW r \in Svc!Reports', NEW q \in Svc!Reports', r.k < q.k PROVE r.at <= q.at
      OBVIOUS
    <3>1. r.at <= v_now
      BY <1>1, <1>4, <2>9
    <3>2. CASE q \in Svc!Reports
      <4>1. r.k \in Shares /\ q.k \in Shares /\ v_task[q.k].st = "done"
        BY <1>1, <2>9, <3>2
      <4>2. v_task[r.k].st # "discovering"
        BY <1>1, <4>1
      <4>3. r \in Svc!Reports
        BY <1>6, <1>7, <2>8, <4>1, <4>2
      <4> QED BY <1>1, <3>2, <4>3
    <3>3. CASE q.at = v_now
      BY <3>1, <3>3
    <3> QED BY <2>8, <3>2, <3>3
  <2>11. \A i, j \in Shares : j < i =>
           /\ v_task'[i].st = "done" => v_task'[j].st \in {"done", "failed"}
           /\ v_task'[i].st # "none" => v_task'[j].st # "none"
    <3> SUFFICES ASSUME NEW i \in Shares, NEW j \in Shares, j < i
                 PROVE  v_task'[i].st # "none" => v_task'[j].st \in {"done", "failed"}
      OBVIOUS
    <3>1. v_task'[i].st # "none" => v_task[i].st # "none"
      BY <1>6, <1>7, <2>1
    <3>2. v_task'[i].st # "none" => v_task[j].st # "none" /\ v_task[j].st \in StatusOf
      BY <1>1, <3>1
    <3>3. v_task[j].st = "discovering" => v_task'[j].st = "done"
      BY <1>6, <1>7, <2>3
    <3>4. v_task[j].st # "discovering" => v_task'[j] = v_task[j]
      BY <1>6, <1>7, <2>1
    <3> QED BY <3>2, <3>3, <3>4 DEF StatusOf
  <2> QED BY <1>1, <1>4, <2>4, <2>5, <2>6, <2>9, <2>10, <2>11 DEF Svc!ReportsInv, StatusOf
<1> QED BY <1>9, <1>10

\* A registry files a report: what it has on file afterwards it had, or is the
\* report, if that one is the later.
LEMMA ReportFiled ==
  ASSUME Svc!ReportsInv, NEW r, Svc!HandleReport(r)
  PROVE  Svc!ReportsInv' /\ Svc!ReportKept
<1>1. /\ v_now \in Nat \ {0} /\ v_slot \in [Remotes -> [k : Shares \cup {0}, at : 0 .. v_now]]
      /\ \A x \in Svc!Reports : x.k \in Shares /\ x.at \in 0 .. v_now /\ v_task[x.k].st = "done"
      /\ \A x, q \in Svc!Reports : x.k < q.k => x.at <= q.at
  BY DEF Svc!ReportsInv
<1>2. /\ r \in Svc!Reports /\ v_net' = v_net \ {r} /\ UNCHANGED <<v_now, v_task, v_services>>
      /\ v_slot' = [v_slot EXCEPT ![r.p] = Svc!File(v_slot[r.p], r.k, r.at)]
  BY ReportsAre DEF Svc!HandleReport
<1>3. r.k \in Shares /\ r.k \in Nat /\ r.at \in 0 .. v_now /\ Shares \subseteq Nat \ {0}
  BY <1>1, <1>2, SvcConstants DEF Svc!MeshServicesAssumption
<1>4. PICK new : new = [k |-> r.k, at |-> r.at]
  OBVIOUS
<1>5. \A s : Svc!File(s, r.k, r.at) = IF s.k # 0 /\ s.at >= r.at THEN s ELSE new
  <2>1. (IF r.at < v_now THEN r.at ELSE v_now) = r.at
    <3>1. v_now \in Nat /\ r.at \in 0 .. v_now
      BY <1>1, <1>3
    <3> QED BY <3>1
  <2> QED BY <1>4, <2>1 DEF Svc!File
<1>6. new.k = r.k /\ new.at = r.at /\ new \in [k : Shares \cup {0}, at : 0 .. v_now]
  BY <1>3, <1>4
<1>7. ASSUME NEW p \in Remotes
      PROVE  \/ v_slot'[p] = v_slot[p]
             \/ v_slot'[p] = new /\ (v_slot[p].k = 0 \/ v_slot[p].at < r.at)
  <2>1. v_slot[p] \in [k : Shares \cup {0}, at : 0 .. v_now]
    BY <1>1
  <2>2. CASE p = r.p
    <3>1. v_slot'[p] = Svc!File(v_slot[p], r.k, r.at)
      BY <1>1, <1>2, <2>2
    <3>2. v_slot[p].at \in Nat
      BY <2>1
    <3> QED BY <1>3, <1>5, <3>1, <3>2
  <2>3. CASE p # r.p
    BY <1>1, <1>2, <2>3
  <2> QED BY <2>2, <2>3
<1>8. \A x \in Svc!Reports' : \E y \in Svc!Reports : x.k = y.k /\ x.at = y.at
  <2> SUFFICES ASSUME NEW x \in Svc!Reports' PROVE \E y \in Svc!Reports : x.k = y.k /\ x.at = y.at
    OBVIOUS
  <2>1. CASE x \in v_net' /\ x.t = "report"
    BY <1>2, <2>1, ReportsAre
  <2>2. CASE \E p \in Remotes : v_slot'[p].k # 0 /\ x = v_slot'[p]
    BY <1>2, <1>6, <1>7, <2>2, ReportsAre
  <2> QED BY <2>1, <2>2, ReportsAre
<1>9. v_slot' \in [Remotes -> [k : Shares \cup {0}, at : 0 .. v_now]]
  <2>1. DOMAIN v_slot' = Remotes /\ v_slot' = [p \in Remotes |-> v_slot'[p]]
    BY <1>1, <1>2
  <2>2. \A p \in Remotes : v_slot'[p] \in [k : Shares \cup {0}, at : 0 .. v_now]
    BY <1>1, <1>6, <1>7
  <2> QED BY <2>1, <2>2
<1>10. Svc!ReportsInv'
  <2>1. \A x \in Svc!Reports' : x.k \in Shares /\ x.at \in 0 .. v_now' /\ v_task'[x.k].st = "done"
    BY <1>1, <1>2, <1>8
  <2>2. \A x, q \in Svc!Reports' : x.k < q.k => x.at <= q.at
    BY <1>1, <1>8
  <2> QED BY <1>2, <1>9, <2>1, <2>2 DEF Svc!ReportsInv
<1>11. ASSUME NEW p \in Remotes PROVE v_slot'[p].k >= v_slot[p].k
  <2>0. v_slot[p] \in [k : Shares \cup {0}, at : 0 .. v_now]
    BY <1>1
  <2>1. v_slot[p].k \in Nat /\ v_slot[p].at \in Nat
    <3>1. v_slot[p].k \in Shares \cup {0} /\ v_slot[p].at \in 0 .. v_now
      BY <2>0
    <3>2. Shares \cup {0} \subseteq Nat
      BY <1>3
    <3>3. v_slot[p].at \in Nat
      BY <3>1
    <3> QED BY <3>1, <3>2, <3>3
  <2>2. CASE v_slot'[p] = v_slot[p]
    BY <2>1, <2>2
  <2>3. CASE v_slot'[p] = new /\ v_slot[p].k = 0
    BY <1>3, <1>6, <2>3
  <2>4. CASE v_slot'[p] = new /\ v_slot[p].k # 0 /\ v_slot[p].at < r.at
    <3>1. v_slot[p] \in Svc!Reports
      BY <2>4, ReportsAre
    <3>2. ~ (r.k < v_slot[p].k)
      BY <1>1, <1>2, <1>3, <2>1, <2>4, <3>1
    <3> QED BY <1>3, <1>6, <2>1, <2>4, <3>2
  <2> QED BY <1>7, <2>2, <2>3, <2>4
<1> QED BY <1>10, <1>11 DEF Svc!ReportKept

\* What becomes of a task that is settled.
LEMMA Settled ==
  ASSUME NEW S, NEW f, f = [k \in S |-> [st |-> f[k].st, to |-> f[k].to, timer |-> f[k].timer]]
  PROVE  /\ \A k \in S : \A st : [f[k] EXCEPT !.st = st, !.timer = FALSE] = [st |-> st, to |-> f[k].to, timer |-> FALSE]
         /\ \A k \in S : \A st : [f EXCEPT ![k].st = st, ![k].timer = FALSE] =
                             [j \in S |-> IF j \in {k} THEN [st |-> st, to |-> f[j].to, timer |-> FALSE] ELSE f[j]]
<1> DEFINE A == {f[k].st : k \in S}
           B == {f[k].to : k \in S}
           C == {f[k].timer : k \in S}
<1>1. \A k \in S : f[k].st \in A /\ f[k].to \in B /\ f[k].timer \in C
  OBVIOUS
<1> HIDE DEF A, B, C
<1>2. f \in [S -> [st : A, to : B, timer : C]]
  BY <1>1
<1>3. ASSUME NEW k \in S, NEW st
      PROVE  [f[k] EXCEPT !.st = st, !.timer = FALSE] = [st |-> st, to |-> f[k].to, timer |-> FALSE]
  <2>1. PICK r : r = f[k]
    OBVIOUS
  <2>2. r \in [st : A, to : B, timer : C]
    BY <1>2, <2>1
  <2>3. PICK no : no = FALSE
    OBVIOUS
  <2>4. PICK q : q = [r EXCEPT !.st = st]
    OBVIOUS
  <2>5. q \in [st : {st}, to : B, timer : C] /\ q.st = st /\ q.to = r.to
    BY <2>2, <2>4
  <2>6. [q EXCEPT !.timer = no] = [st |-> q.st, to |-> q.to, timer |-> no]
    BY <2>5
  <2>7. [r EXCEPT !.st = st, !.timer = no] = [q EXCEPT !.timer = no]
    BY <2>2, <2>4
  <2>8. [r EXCEPT !.st = st, !.timer = no] = [st |-> st, to |-> r.to, timer |-> no]
    BY <2>5, <2>6, <2>7
  <2> QED BY <2>1, <2>3, <2>8, Zenon
<1>4. ASSUME NEW k \in S, NEW st
      PROVE  [f EXCEPT ![k].st = st, ![k].timer = FALSE] =
                 [j \in S |-> IF j \in {k} THEN [st |-> st, to |-> f[j].to, timer |-> FALSE] ELSE f[j]]
  <2>1. PICK fk : fk = f[k]
    OBVIOUS
  <2>2. [f EXCEPT ![k].st = st, ![k].timer = FALSE] = [f EXCEPT ![k] = [fk EXCEPT !.st = st, !.timer = FALSE]]
    BY <1>2, <2>1
  <2>3. [fk EXCEPT !.st = st, !.timer = FALSE] = [st |-> st, to |-> f[k].to, timer |-> FALSE]
    BY <1>3, <2>1
  <2> QED BY <1>2, <2>2, <2>3
<1> QED BY <1>3, <1>4

\* Every step.
LEMMA ReportsStep == Svc!ReportsInv /\ [Svc!Next]_svcVars => Svc!ReportsInv' /\ Svc!ReportKept
<1> SUFFICES ASSUME Svc!ReportsInv, [Svc!Next]_svcVars PROVE Svc!ReportsInv' /\ Svc!ReportKept
  OBVIOUS
<1>1. /\ v_now \in Nat \ {0} /\ v_slot \in [Remotes -> [k : Shares \cup {0}, at : 0 .. v_now]]
      /\ v_task = [j \in Svc!Tasks |-> [st |-> v_task[j].st, to |-> v_task[j].to, timer |-> v_task[j].timer]]
      /\ \A j \in Shares : v_task[j].st \in StatusOf
      /\ Shares \subseteq Nat /\ Shares \subseteq Svc!Tasks
  BY SvcConstants DEF Svc!ReportsInv, StatusOf, Svc!MeshServicesAssumption, Svc!Tasks
<1>0. /\ \A k \in Svc!Tasks : \A st :
           [v_task[k] EXCEPT !.st = st, !.timer = FALSE] = [st |-> st, to |-> v_task[k].to, timer |-> FALSE]
      /\ \A k \in Svc!Tasks : \A st :
           [v_task EXCEPT ![k].st = st, ![k].timer = FALSE] =
               [j \in Svc!Tasks |-> IF j \in {k} THEN [st |-> st, to |-> v_task[j].to, timer |-> FALSE] ELSE v_task[j]]
  <2>1. v_task = [j \in Svc!Tasks |-> [st |-> v_task[j].st, to |-> v_task[j].to, timer |-> v_task[j].timer]]
    BY <1>1
  <2> QED BY <2>1, Settled
<1>2. UNCHANGED v_slot => Svc!ReportKept
  <2>1. \A p \in Remotes : v_slot[p].k \in Nat
    BY <1>1
  <2> QED BY <2>1 DEF Svc!ReportKept
<1>3. ASSUME UNCHANGED <<v_now, v_slot, v_services, v_task>>, \A x \in v_net' : x.t = "report" => x \in v_net
      PROVE  Svc!ReportsInv' /\ Svc!ReportKept
  <2>1. /\ v_task' = [k \in Svc!Tasks |-> [st |-> v_task'[k].st, to |-> v_task'[k].to, timer |-> v_task'[k].timer]]
        /\ \A k \in Svc!Tasks : v_task'[k].st = v_task[k].st
    BY <1>1, <1>3
  <2> QED BY <1>1, <1>2, <1>3, <2>1, NothingReported
<1>4. ASSUME NEW K, NEW st \in {"done", "failed"},
             UNCHANGED <<v_now, v_slot, v_services>>, \A x \in v_net' : x.t = "report" => x \in v_net,
             \A k \in K : v_task[k].st \notin {"none", "done", "failed"} /\ (v_task[k].st = "discovering" => st = "failed"),
             v_task' = [k \in Svc!Tasks |-> IF k \in K THEN [st |-> st, to |-> v_task[k].to, timer |-> FALSE] ELSE v_task[k]]
      PROVE  Svc!ReportsInv' /\ Svc!ReportKept
  <2>1. \A k \in Svc!Tasks : k \notin K => v_task'[k] = v_task[k]
    BY <1>4
  <2>2. \A k \in Svc!Tasks : v_task'[k] = [st |-> v_task'[k].st, to |-> v_task'[k].to, timer |-> v_task'[k].timer]
    <3>1. \A k \in Svc!Tasks : v_task[k] = [st |-> v_task[k].st, to |-> v_task[k].to, timer |-> v_task[k].timer]
      BY <1>1
    <3>2. ASSUME NEW k \in Svc!Tasks, k \in K
          PROVE  v_task'[k] = [st |-> v_task'[k].st, to |-> v_task'[k].to, timer |-> v_task'[k].timer]
      <4>1. PICK m : m = v_task[k].to
        OBVIOUS
      <4>2. v_task'[k] = [st |-> st, to |-> m, timer |-> FALSE]
        BY <1>4, <3>2, <4>1
      <4> QED BY <4>2
    <3> QED BY <2>1, <3>1, <3>2
  <2>3. v_task' = [k \in Svc!Tasks |-> [st |-> v_task'[k].st, to |-> v_task'[k].to, timer |-> v_task'[k].timer]]
    <3>1. v_task' = [k \in Svc!Tasks |-> v_task'[k]]
      BY <1>4
    <3> QED BY <2>2, <3>1
  <2>4. \A k \in Svc!Tasks : v_task'[k].st = "discovering" => v_task[k].st = "discovering"
    BY <1>4, <2>1
  <2>5. \A k \in Shares : v_task'[k].st = v_task[k].st \/ (v_task[k].st = "discovering" /\ v_task'[k].st = "failed")
    BY <1>1, <1>4, <2>1 DEF StatusOf
  <2> QED BY <1>2, <1>4, <2>3, <2>4, <2>5, NothingReported
<1>5. CASE UNCHANGED svcVars
  BY <1>3, <1>5 DEF svcVars
<1>6. ASSUME NEW avail \in BOOLEAN, Svc!AnnounceOwn(avail) PROVE Svc!ReportsInv' /\ Svc!ReportKept
  BY <1>3, <1>6 DEF Svc!AnnounceOwn
<1>7. ASSUME NEW avail \in BOOLEAN, NEW p \in Remotes, Svc!Announce(p, avail) PROVE Svc!ReportsInv' /\ Svc!ReportKept
  <2>1. PICK ann : ann.t = "announce" /\ v_net' = v_net \cup {ann}
    <3>1. \A o : Svc!Ann(p, o).t = "announce"
      BY DEF Svc!Ann
    <3> QED BY <1>7, <3>1 DEF Svc!Announce
  <2>2. UNCHANGED <<v_now, v_slot, v_services, v_task>>
    BY <1>7 DEF Svc!Announce
  <2> QED BY <1>3, <2>1, <2>2
<1>8. ASSUME NEW k \in Svc!Tasks, Svc!Start(k) PROVE Svc!ReportsInv' /\ Svc!ReportKept
  BY <1>2, <1>8, TaskStarts DEF Svc!Start
<1>9. ASSUME NEW k \in Svc!Tasks, Svc!Timeout(k) PROVE Svc!ReportsInv' /\ Svc!ReportKept
  <2>1. /\ v_task[k].st \in Svc!Pending /\ UNCHANGED <<v_now, v_slot, v_services, v_net>>
        /\ v_task' = [v_task EXCEPT ![k].st = "failed", ![k].timer = FALSE]
    BY <1>9 DEF Svc!Timeout
  <2>2. v_task[k].st \notin {"none", "done", "failed"}
    BY <2>1 DEF Svc!Pending
  <2> DEFINE K == {k}
  <2>3. v_task' = [j \in Svc!Tasks |-> IF j \in K THEN [st |-> "failed", to |-> v_task[j].to, timer |-> FALSE] ELSE v_task[j]]
    BY <1>0, <2>1
  <2> QED BY <1>4, <2>1, <2>2, <2>3
<1>10. ASSUME NEW x \in v_net, Svc!HandleServiceAnnounce(x) PROVE Svc!ReportsInv' /\ Svc!ReportKept
  BY <1>2, <1>10, AnnouncementHeard DEF Svc!HandleServiceAnnounce
<1>11. ASSUME NEW x \in v_net, Svc!HandleServiceResponse(x) PROVE Svc!ReportsInv' /\ Svc!ReportKept
  <2>1. v_net' \subseteq v_net /\ UNCHANGED <<v_now, v_slot, v_services>>
    BY <1>11 DEF Svc!HandleServiceResponse
  <2>2. CASE v_task' = v_task
    BY <1>3, <2>1, <2>2
  <2>3. CASE v_task' # v_task
    <3> DEFINE K == {j \in {x.k} : j \in Svc!Tasks}
               st == IF x.ok THEN "done" ELSE "failed"
    <3>1. /\ v_task[x.k].st = "waiting" /\ v_task' = [v_task EXCEPT ![x.k].st = st, ![x.k].timer = FALSE]
      BY <1>11, <2>3 DEF Svc!HandleServiceResponse
    <3>2. x.k \in Svc!Tasks
      BY <1>1, <2>3, <3>1
    <3>3. K = {x.k} /\ st \in {"done", "failed"}
      BY <3>2
    <3> HIDE DEF K, st
    <3>4. v_task' = [j \in Svc!Tasks |-> IF j \in K THEN [st |-> st, to |-> v_task[j].to, timer |-> FALSE] ELSE v_task[j]]
      BY <1>0, <3>1, <3>2, <3>3
    <3>5. \A k \in K : v_task[k].st = "waiting"
      BY <3>1, <3>3
    <3> QED BY <1>4, <2>1, <3>3, <3>4, <3>5
  <2> QED BY <2>2, <2>3
<1>12. ASSUME NEW x \in v_net, Svc!HandleServiceQuery(x) PROVE Svc!ReportsInv' /\ Svc!ReportKept
  <2>1. PICK ann : ann.t = "announce" /\ v_net' \subseteq v_net \cup {ann}
    <3>1. Svc!Ann(x.p, v_local[x.p]).t = "announce"
      BY DEF Svc!Ann
    <3> QED BY <1>12, <3>1 DEF Svc!HandleServiceQuery
  <2>2. UNCHANGED <<v_now, v_slot, v_services, v_task>>
    BY <1>12 DEF Svc!HandleServiceQuery
  <2> QED BY <1>3, <2>1, <2>2
<1>13. ASSUME NEW x \in v_net, Svc!HandleServiceRequest(x) PROVE Svc!ReportsInv' /\ Svc!ReportKept
  <2>1. PICK reply : reply.t = "reply" /\ v_net' \subseteq v_net \cup {reply}
    <3>1. Svc!Reply(x.k, x.p, FALSE).t = "reply"
      BY DEF Svc!Reply
    <3> QED BY <1>13, <3>1 DEF Svc!HandleServiceRequest
  <2>2. UNCHANGED <<v_now, v_slot, v_services, v_task>>
    BY <1>13 DEF Svc!HandleServiceRequest
  <2> QED BY <1>3, <2>1, <2>2
<1>14. ASSUME NEW x \in v_net, Svc!HandleReport(x) PROVE Svc!ReportsInv' /\ Svc!ReportKept
  BY <1>14, ReportFiled
<1>15. ASSUME NEW x \in v_net, Svc!Lose(x) PROVE Svc!ReportsInv' /\ Svc!ReportKept
  BY <1>3, <1>15 DEF Svc!Lose
<1>16. ASSUME NEW k \in Calls, NEW p, NEW ok \in BOOLEAN, Svc!HandlerEnds(k, p, ok) PROVE Svc!ReportsInv' /\ Svc!ReportKept
  <2>1. PICK reply : reply.t = "reply" /\ v_net' \subseteq v_net \cup {reply}
    <3>1. Svc!Reply(k, p, ok).t = "reply"
      BY DEF Svc!Reply
    <3>2. v_net' = v_net \/ v_net' = v_net \cup {Svc!Reply(k, p, ok)}
      BY <1>16 DEF Svc!HandlerEnds
    <3> QED BY <3>1, <3>2
  <2>2. UNCHANGED <<v_now, v_slot, v_services>>
    BY <1>16 DEF Svc!HandlerEnds
  <2>3. CASE v_task' = v_task
    BY <1>3, <2>1, <2>2, <2>3
  <2>4. CASE v_task' # v_task
    <3> DEFINE K == {k}
               st == IF ok THEN "done" ELSE "failed"
    <3>1. v_task[k].st = "local" /\ v_task' = [v_task EXCEPT ![k].st = st, ![k].timer = FALSE]
      BY <1>16, <2>4 DEF Svc!HandlerEnds
    <3>2. k \in Svc!Tasks
      BY DEF Svc!Tasks
    <3>3. K = {k} /\ st \in {"done", "failed"}
      OBVIOUS
    <3> HIDE DEF K, st
    <3>4. v_task' = [j \in Svc!Tasks |-> IF j \in K THEN [st |-> st, to |-> v_task[j].to, timer |-> FALSE] ELSE v_task[j]]
      BY <1>0, <3>1, <3>2, <3>3
    <3>5. \A j \in K : v_task[j].st = "local"
      BY <3>1, <3>3
    <3>6. \A x \in v_net' : x.t = "report" => x \in v_net
      BY <2>1
    <3> QED BY <1>4, <2>2, <3>3, <3>4, <3>5, <3>6
  <2> QED BY <2>3, <2>4
<1>17. CASE Svc!Stop
  <2> DEFINE K == {k \in Svc!Tasks : v_task[k].st \in {"waiting", "local"}}
  <2>1. /\ UNCHANGED <<v_now, v_slot, v_services, v_net>>
        /\ v_task' = [k \in Svc!Tasks |-> IF v_task[k].st \in {"waiting", "local"}
                                          THEN [v_task[k] EXCEPT !.st = "failed", !.timer = FALSE] ELSE v_task[k]]
    BY <1>17 DEF Svc!Stop
  <2>2. \A k \in Svc!Tasks : [v_task[k] EXCEPT !.st = "failed", !.timer = FALSE] = [st |-> "failed", to |-> v_task[k].to, timer |-> FALSE]
    BY <1>0
  <2>3. v_task' = [k \in Svc!Tasks |-> IF k \in K THEN [st |-> "failed", to |-> v_task[k].to, timer |-> FALSE] ELSE v_task[k]]
    BY <2>1, <2>2
  <2>4. \A k \in K : k \in Svc!Tasks /\ v_task[k].st \in {"waiting", "local"}
    OBVIOUS
  <2> HIDE DEF K
  <2> QED BY <1>4, <2>1, <2>3, <2>4
<1>18. CASE Svc!Tick
  <2>1. /\ v_now' = v_now + 1 /\ UNCHANGED <<v_task, v_slot, v_services, v_net>>
    BY <1>18 DEF Svc!Tick
  <2>2. v_now' \in Nat \ {0} /\ 0 .. v_now \subseteq 0 .. v_now'
    BY <1>1, <2>1
  <2>3. Svc!Reports' = Svc!Reports
    BY <2>1 DEF Svc!Reports
  <2>4. v_slot' \in [Remotes -> [k : Shares \cup {0}, at : 0 .. v_now']]
    BY <1>1, <2>1, <2>2
  <2>5. \A r \in Svc!Reports : r.k \in Shares /\ r.at \in 0 .. v_now' /\ v_task[r.k].st = "done"
    BY <2>2 DEF Svc!ReportsInv
  <2> QED BY <1>2, <2>1, <2>2, <2>3, <2>4, <2>5 DEF Svc!ReportsInv
<1> QED BY <1>5, <1>6, <1>7, <1>8, <1>9, <1>10, <1>11, <1>12, <1>13, <1>14, <1>15, <1>16, <1>17, <1>18 DEF Svc!Next

\* The caller's directory of services is current once every packet is in, a registry
\* never goes back to an earlier report, and a badge stays on the label it was put on.
THEOREM DirectoriesStand == MCSpec => DirectoriesHold
<1> DEFINE S == which = "svc" => Svc!DirectoryInv /\ Svc!ReportsInv
           D == which = "disc" => Disc!DiscoveryInv
           K == which = "svc" => Svc!ReportKept
<1>1. MCInit => S /\ D
  BY DirectoryStart, ReportsStart, BadgeStart DEF MCInit
<1>2. S /\ D /\ [MCNext]_mcVars => S' /\ D' /\ [K]_mcVars
  <2> SUFFICES ASSUME S, D, [MCNext]_mcVars PROVE S' /\ D' /\ [K]_mcVars
    OBVIOUS
  <2>1. CASE which = "svc" /\ [Svc!Next]_svcVars /\ UNCHANGED which
    <3>1. Svc!DirectoryInv' /\ Svc!ReportsInv' /\ Svc!ReportKept
      BY <2>1, DirectoryStep, ReportsStep
    <3> QED BY <2>1, <3>1
  <2>2. CASE which = "disc" /\ [Disc!Next]_discVars /\ UNCHANGED which
    BY <2>2, BadgeStep
  <2>3. CASE which \notin {"svc", "disc"} /\ UNCHANGED which
    BY <2>3
  <2>4. UNCHANGED which /\ (which = "svc" => [Svc!Next]_svcVars) /\ (which = "disc" => [Disc!Next]_discVars)
    BY DEF MCNext, mcVars
  <2> QED BY <2>1, <2>2, <2>3, <2>4
<1>3. S => (which = "svc" => Svc!DirectoryCurrent)
  BY DirectoryIsCurrent
<1>4. D => (which = "disc" => Disc!BadgeKeepsLabel)
  BY DEF Disc!DiscoveryInv
<1> QED BY <1>1, <1>2, <1>3, <1>4, PTL DEF MCSpec, DirectoriesHold

-----------------------------------------------------------------------------
(* The content store of a node: what an eviction takes. *)

ContentMap(m) ==
  /\ Pub!IsMap(m) /\ Pub!WellOrdered(m)
  /\ IsFiniteSet(m.keys) /\ m.keys \subseteq Contents

Strangers(m) == {c \in m.keys : Pub!Stranger(c)}

\* The first inserted of some keys.
LEMMA OldestOf ==
  ASSUME NEW m, ContentMap(m), NEW T, T \subseteq m.keys, T # {}
  PROVE  \E v \in T : \A q \in T \ {v} : <<v, q>> \in m.older
BY DEF ContentMap, Pub!WellOrdered

\* Deleting contents keeps the order of the others.
LEMMA ContentsDeleted ==
  ASSUME NEW m, ContentMap(m), NEW S
  PROVE  ContentMap(Pub!MapDelete(m, S)) /\ Pub!MapDelete(m, S).keys = m.keys \ S
<1> DEFINE d == Pub!MapDelete(m, S)
<1>1. d.keys = m.keys \ S /\ d.older = m.older \cap (d.keys \X d.keys) /\ Pub!IsMap(d)
  BY DEF Pub!MapDelete, Pub!IsMap, Pub!OrderOn
<1>2. IsFiniteSet(d.keys) /\ d.keys \subseteq Contents
  BY <1>1, FS_Subset DEF ContentMap
<1> HIDE DEF d
<1>3. ASSUME NEW T \in SUBSET d.keys, T # {}
      PROVE  \E v \in T : \A q \in T \ {v} : <<v, q>> \in d.older
  <2>1. PICK v \in T : \A q \in T \ {v} : <<v, q>> \in m.older
    BY <1>1, <1>3, OldestOf
  <2> QED BY <1>1, <1>3, <2>1
<1>4. Pub!WellOrdered(d)
  BY <1>1, <1>3 DEF Pub!WellOrdered
<1>5. ContentMap(d)
  BY <1>1, <1>2, <1>4 DEF ContentMap
<1> QED BY <1>1, <1>5 DEF d

\* So does an insertion, whatever it evicts.
LEMMA ContentInserted ==
  ASSUME NEW m, ContentMap(m), NEW key \in Contents, NEW score, NEW maxSize
  PROVE  ContentMap(Pub!MapSet(m, key, score, maxSize))
<1> DEFINE K == m.keys \ Pub!EvictedBy(m, key, score, maxSize)
           d == [keys |-> K \cup {key}, older |-> Pub!OrderOn(m.older, K) \cup (K \X {key})]
<1>1. CASE maxSize <= 0 \/ key \in m.keys
  BY <1>1 DEF Pub!MapSet
<1>2. CASE ~(maxSize <= 0 \/ key \in m.keys)
  <2>1. Pub!MapSet(m, key, score, maxSize) = d
    BY <1>2 DEF Pub!MapSet
  <2>2. K \subseteq m.keys /\ key \notin K
    BY <1>2
  <2> HIDE DEF K
  <2>3. /\ d.keys = K \cup {key} /\ Pub!IsMap(d)
        /\ d.older = (m.older \cap (K \X K)) \cup (K \X {key})
    BY DEF Pub!OrderOn, Pub!IsMap
  <2>4. IsFiniteSet(d.keys) /\ d.keys \subseteq Contents
    <3>1. IsFiniteSet(K)
      BY <2>2, FS_Subset DEF ContentMap
    <3>2. IsFiniteSet(K \cup {key})
      BY <3>1, FS_AddElement
    <3> QED BY <2>2, <2>3, <3>2 DEF ContentMap
  <2> HIDE DEF d
  <2>5. ASSUME NEW T \in SUBSET d.keys, T # {}
        PROVE  \E v \in T : \A q \in T \ {v} : <<v, q>> \in d.older
    <3>1. CASE T \cap K = {}
      BY <2>3, <2>5, <3>1
    <3>2. CASE T \cap K # {}
      <4>1. PICK v \in T \cap K : \A q \in (T \cap K) \ {v} : <<v, q>> \in m.older
        BY <2>2, <3>2, OldestOf
      <4>2. ASSUME NEW q \in T \ {v} PROVE <<v, q>> \in d.older
        <5>1. CASE q = key
          BY <2>3, <4>1, <5>1
        <5>2. CASE q \in K
          BY <2>3, <4>1, <4>2, <5>2
        <5> QED BY <2>3, <2>5, <4>2, <5>1, <5>2
      <4> QED BY <4>1, <4>2
    <3> QED BY <3>1, <3>2
  <2>6. d.older \subseteq d.keys \X d.keys
    BY <2>3
  <2>7. Pub!WellOrdered(d)
    BY <2>5, <2>6 DEF Pub!WellOrdered
  <2> QED BY <2>1, <2>3, <2>4, <2>7 DEF ContentMap
<1> QED BY <1>1, <1>2

\* Of more urgent contents of strangers than may count, the oldest does not.
LEMMA OldestStranger ==
  ASSUME NEW m, ContentMap(m), MaxElevated \in Nat, Cardinality(Strangers(m)) > MaxElevated
  PROVE  \E d \in Strangers(m) : d \notin Pub!Snapshot(m)
<1> DEFINE Q == Strangers(m)
<1>1. IsFiniteSet(Q) /\ Cardinality(Q) \in Nat /\ Q \subseteq m.keys
  BY FS_Subset, FS_CardinalityType DEF ContentMap, Strangers
<1>2. Q # {}
  BY <1>1, FS_EmptySet
<1>3. PICK d \in Q : \A e \in Q \ {d} : <<d, e>> \in m.older
  BY <1>1, <1>2, OldestOf
<1> DEFINE N == {e \in Q : <<d, e>> \in m.older}
<1>4. Q \ {d} \subseteq N /\ N \subseteq Q
  BY <1>3
<1>5. IsFiniteSet(N) /\ Cardinality(N) \in Nat /\ Cardinality(Q \ {d}) <= Cardinality(N)
  BY <1>1, <1>4, FS_Subset, FS_CardinalityType
<1>6. Cardinality(Q \ {d}) = Cardinality(Q) - 1
  BY <1>1, <1>3, FS_RemoveElement
<1>7. ~(Cardinality(N) < MaxElevated)
  BY <1>1, <1>5, <1>6
<1>8. Pub!Snapshot(m) = {c \in Q : Pub!Cardinality({e \in Q : <<c, e>> \in m.older}) < MaxElevated}
  BY DEF Pub!Snapshot, Strangers
<1>9. Pub!Cardinality(N) = Cardinality(N)
  BY DEF Cardinality, Pub!Cardinality, IsFiniteSet, Pub!IsFiniteSet
<1> HIDE DEF Q
<1>10. d \notin Pub!Snapshot(m)
  BY <1>3, <1>7, <1>8, <1>9
<1> QED BY <1>3, <1>10 DEF Q

\* The candidate is a content with the lowest score.
LEMMA LowestGoes ==
  ASSUME NEW m, ContentMap(m), m.keys # {}, NEW score,
         \A c \in m.keys : score[c] \in Int /\ score[c] >= -50
  PROVE  /\ Pub!EvictionCandidate(m, score) \in m.keys
         /\ \A c \in m.keys : score[Pub!EvictionCandidate(m, score)] <= score[c]
<1> DEFINE T == {score[c] + 50 : c \in m.keys}
<1>1. T \subseteq Nat /\ T # {}
  OBVIOUS
<1>2. PICK x \in T : \A y \in T : x <= y
  BY <1>1, LeastNat
<1> DEFINE L == {c \in m.keys : score[c] + 50 = x}
<1>3. L # {} /\ L \subseteq m.keys
  BY <1>2
<1>4. PICK v \in L : \A q \in L \ {v} : <<v, q>> \in m.older
  BY <1>3, OldestOf
<1>5. ASSUME NEW q \in m.keys \ {v} PROVE Pub!EvictedBefore(m, score, v, q)
  <2>1. x <= score[q] + 50 /\ score[v] + 50 = x /\ score[q] \in Int /\ score[v] \in Int
    BY <1>2, <1>3, <1>4, <1>5
  <2>2. CASE score[q] + 50 = x
    <3>1. <<v, q>> \in m.older
      BY <1>4, <1>5, <2>2
    <3>2. score[v] = score[q]
      BY <2>1, <2>2
    <3> QED BY <3>1, <3>2 DEF Pub!EvictedBefore
  <2>3. CASE score[q] + 50 # x
    BY <2>1, <2>3 DEF Pub!EvictedBefore
  <2> QED BY <2>2, <2>3
<1> DEFINE E == Pub!EvictionCandidate(m, score)
<1>6. E \in m.keys /\ \A q \in m.keys \ {E} : Pub!EvictedBefore(m, score, E, q)
  BY <1>3, <1>4, <1>5 DEF Pub!EvictionCandidate
<1> HIDE DEF E
<1>7. ASSUME NEW q \in m.keys PROVE score[E] <= score[q]
  <2>1. score[E] \in Int /\ score[q] \in Int
    BY <1>6
  <2>2. CASE q # E
    <3>1. score[E] < score[q] \/ score[E] = score[q]
      BY <1>6, <2>2 DEF Pub!EvictedBefore
    <3> QED BY <2>1, <3>1
  <2> QED BY <2>1, <2>2
<1> QED BY <1>6, <1>7 DEF E

\* What is known of the publishers and the contents while a component of this kind runs.
Ranked ==
  /\ p_trust \in [Publishers -> 0..4]
  /\ Pub!PublicationsAssumption

LEMMA RanksTyped ==
  ASSUME Ranked, NEW c \in Contents
  PROVE  /\ c.by \in Publishers /\ Pub!Rank(c.by) \in 0..5 /\ c.urgency \in 0..5
         /\ Pub!IsUnvetted(c.by) <=> Pub!Rank(c.by) <= 2
         /\ Pub!Stranger(c) <=> c.urgency < 4 /\ Pub!Rank(c.by) <= 2
<1>1. c.by \in Publishers /\ c.urgency \in 0..5
  BY DEF Ranked, Pub!PublicationsAssumption
<1>2. Pub!Rank(c.by) \in 0..5
  BY <1>1 DEF Ranked, Pub!Rank, Pub!OwnRank
<1>3. Pub!IsUnvetted(c.by) <=> Pub!Rank(c.by) <= 2
  BY DEF Pub!IsUnvetted
<1>4. Pub!Stranger(c) <=> c.urgency < 4 /\ Pub!Rank(c.by) <= 2
  BY <1>3 DEF Pub!Stranger, Pub!Elevated, Pub!DefaultUrgency
<1> QED BY <1>1, <1>2, <1>3, <1>4

\* What a content is worth: its publisher's rank, less ten for each step of the
\* urgency that counts.
LEMMA ScoreOf ==
  ASSUME Ranked, NEW m, m.keys \subseteq Contents, NEW c \in m.keys
  PROVE  LET s == Pub!EvictionScore(m)[c]
         IN  /\ s \in Int /\ s >= -50
             /\ Pub!Stranger(c) /\ c \notin Pub!Snapshot(m) => s <= -38
             /\ ~Pub!Stranger(c) => s = Pub!Rank(c.by) - 10 * c.urgency
<1> DEFINE u == IF Pub!Stranger(c) /\ c \notin Pub!Snapshot(m) THEN 4 ELSE c.urgency
           s == Pub!EvictionScore(m)[c]
<1>1. s = Pub!Rank(c.by) - u * 10
  BY DEF Pub!EvictionScore, Pub!DefaultUrgency, Pub!TierSpread
<1>2. c.urgency \in 0..5 /\ Pub!Rank(c.by) \in 0..5
      /\ (Pub!Stranger(c) <=> c.urgency < 4 /\ Pub!Rank(c.by) <= 2)
  BY RanksTyped
<1>3. u \in 0..5 /\ (Pub!Stranger(c) /\ c \notin Pub!Snapshot(m) => u = 4)
      /\ (~Pub!Stranger(c) => u = c.urgency)
  BY <1>2
<1> HIDE DEF s, u
<1>4. s \in Int /\ s >= -50
  BY <1>1, <1>2, <1>3
<1>5. ~Pub!Stranger(c) => s = Pub!Rank(c.by) - 10 * c.urgency
  BY <1>1, <1>2, <1>3
<1>6. ASSUME Pub!Stranger(c), c \notin Pub!Snapshot(m) PROVE s <= -38
  <2>1. u = 4 /\ Pub!Rank(c.by) <= 2
    BY <1>2, <1>3, <1>6
  <2> QED BY <1>1, <1>2, <2>1
<1> QED BY <1>4, <1>5, <1>6 DEF s

\* An insertion takes a content of a vetted publisher only while the strangers' urgent
\* contents are within their budget.
LEMMA VettedStay ==
  ASSUME Ranked, ContentMap(p_store), NEW c \in Contents,
         NEW v \in p_store.keys \ Pub!Put(p_store, c).keys,
         ~Pub!IsUnvetted(v.by), v.urgency <= 4
  PROVE  Cardinality(Strangers(p_store)) <= MaxElevated
<1> DEFINE S == Pub!EvictionScore(p_store)
           E == Pub!EvictionCandidate(p_store, S)
<1>1. v \in p_store.keys /\ v \notin Pub!MapSet(p_store, c, S, MaxStore).keys /\ v \in Contents
  BY DEF Pub!Put, ContentMap
<1>2. v = E
  BY <1>1 DEF Pub!MapSet, Pub!EvictedBy
<1>3. p_store.keys \subseteq Contents /\ p_store.keys # {}
  BY <1>1 DEF ContentMap
<1> HIDE DEF S
<1>4. \A d \in p_store.keys : S[d] \in Int /\ S[d] >= -50
  BY <1>3, ScoreOf DEF S
<1>5. \A d \in p_store.keys : S[v] <= S[d]
  BY <1>2, <1>3, <1>4, LowestGoes
<1>6. S[v] >= -37
  <2>1. v.urgency \in 0..5 /\ Pub!Rank(v.by) \in 0..5 /\ ~(Pub!Rank(v.by) <= 2) /\ ~Pub!Stranger(v)
    BY <1>1, RanksTyped
  <2>2. S[v] = Pub!Rank(v.by) - 10 * v.urgency
    BY <1>1, <1>3, <2>1, ScoreOf DEF S
  <2> QED BY <2>1, <2>2
<1>7. MaxElevated \in Nat
  BY DEF Ranked, Pub!PublicationsAssumption
<1>8. ASSUME Cardinality(Strangers(p_store)) > MaxElevated PROVE FALSE
  <2>1. PICK d \in Strangers(p_store) : d \notin Pub!Snapshot(p_store)
    BY <1>7, <1>8, OldestStranger
  <2>2. d \in p_store.keys /\ Pub!Stranger(d)
    BY DEF Strangers
  <2>3. S[d] <= -38 /\ S[d] \in Int /\ S[v] \in Int
    BY <1>1, <1>3, <1>4, <2>1, <2>2, ScoreOf DEF S
  <2> QED BY <1>5, <1>6, <2>2, <2>3
<1>9. Cardinality(Strangers(p_store)) \in Nat
  BY FS_Subset, FS_CardinalityType DEF ContentMap, Strangers
<1> QED BY <1>7, <1>8, <1>9

\* The store of contents is finite in either reading of the word.
LEMMA ContentMapIs ==
  ASSUME NEW m
  PROVE  ContentMap(m) <=>
           /\ Pub!IsMap(m) /\ Pub!WellOrdered(m)
           /\ Pub!IsFiniteSet(m.keys) /\ m.keys \subseteq Contents
<1>1. IsFiniteSet(m.keys) <=> Pub!IsFiniteSet(m.keys)
  BY DEF IsFiniteSet, Pub!IsFiniteSet
<1> QED BY <1>1 DEF ContentMap

LEMMA ContentPut ==
  ASSUME NEW m, ContentMap(m), NEW c \in Contents
  PROVE  ContentMap(Pub!Put(m, c))
BY ContentInserted DEF Pub!Put

\* What an insertion may take, in the terms of the property.
VettedOnly(after) ==
  \A v \in p_store.keys \ (after.keys \cup p_expired) :
     ~Pub!IsUnvetted(v.by) /\ v.urgency <= 4 => Cardinality(Strangers(p_store)) <= MaxElevated

LEMMA PutKeepsVetted ==
  ASSUME Ranked, ContentMap(p_store), NEW c \in Contents
  PROVE  ContentMap(Pub!Put(p_store, c)) /\ VettedOnly(Pub!Put(p_store, c))
BY VettedStay, ContentPut DEF VettedOnly

\* Contents that have expired, or none, are gone.
LEMMA ExpiredGo ==
  ASSUME ContentMap(p_store), NEW S, S \subseteq p_expired
  PROVE  ContentMap(Pub!MapDelete(p_store, S)) /\ VettedOnly(Pub!MapDelete(p_store, S))
BY ContentsDeleted DEF VettedOnly

LEMMA NoneGo == ASSUME ContentMap(p_store) PROVE VettedOnly(p_store)
BY DEF VettedOnly

\* A signature, or the operator, raises the rank of a publisher.
LEMMA VerifiedTyped ==
  ASSUME Ranked, NEW p \in Publishers
  PROVE  /\ Pub!Verified(p) \in [Publishers -> 0..4]
         /\ [p_trust EXCEPT ![p] = 3] \in [Publishers -> 0..4]
BY DEF Ranked, Pub!Verified

\* A directory replaces an older one only; what it makes room for is forgotten.
LEMMA DirectoryForward ==
  ASSUME p_directory \in [Publishers -> Nat], NEW c, c.by \in Publishers, c.stamp \in Nat
  PROVE  /\ Pub!RecordDirectory(c) \in [Publishers -> Nat]
         /\ \A p \in Publishers : \/ Pub!RecordDirectory(c)[p] >= p_directory[p]
                                 \/ p \notin Pub!MapSet(p_boxes, c.by, Pub!Fifo, MaxBoxes).keys
<1>1. MaxBoxes > 0 /\ MaxBoxes \in Nat
  BY PubConstants DEF Pub!PublicationsAssumption
<1>2. ASSUME NEW p \in Publishers, p # c.by, p \in Pub!EvictedBy(p_boxes, c.by, Pub!Fifo, MaxBoxes)
      PROVE  p \notin Pub!MapSet(p_boxes, c.by, Pub!Fifo, MaxBoxes).keys
  <2>1. c.by \notin p_boxes.keys
    BY <1>2 DEF Pub!EvictedBy
  <2> DEFINE gone == Pub!EvictedBy(p_boxes, c.by, Pub!Fifo, MaxBoxes)
  <2> HIDE DEF gone
  <2>2. Pub!MapSet(p_boxes, c.by, Pub!Fifo, MaxBoxes).keys = (p_boxes.keys \ gone) \cup {c.by}
    BY <1>1, <2>1 DEF Pub!MapSet, gone
  <2> QED BY <1>2, <2>2 DEF gone
<1> DEFINE gone == Pub!EvictedBy(p_boxes, c.by, Pub!Fifo, MaxBoxes)
<1> HIDE DEF gone
<1>3. Pub!RecordDirectory(c) =
        [p \in Publishers |->
           IF p = c.by THEN IF p_directory[p] >= c.stamp THEN p_directory[p] ELSE c.stamp
           ELSE IF p \in gone THEN 0 ELSE p_directory[p]]
  BY DEF Pub!RecordDirectory, gone
<1>4. \A p \in Publishers : p # c.by /\ p \in gone
                             => p \notin Pub!MapSet(p_boxes, c.by, Pub!Fifo, MaxBoxes).keys
  BY <1>2 DEF gone
<1> QED BY <1>3, <1>4

\* One step, of the store, the ranks and the directories.
Forward ==
  /\ p_directory' \in [Publishers -> Nat]
  /\ \A p \in Publishers : p_directory'[p] >= p_directory[p] \/ p \notin p_boxes'.keys

LEMMA ListedForward ==
  ASSUME p_directory \in [Publishers -> Nat], NEW c, c.by \in Publishers, c.stamp \in Nat,
         Pub!Listed(c) \/ Pub!Unlisted \/ p_directory' = p_directory
  PROVE  Forward
<1>1. p_directory' = p_directory => Forward
  BY DEF Forward
<1>2. CASE Pub!Unlisted
  BY <1>1, <1>2 DEF Pub!Unlisted
<1>3. CASE Pub!Listed(c)
  BY <1>1, <1>3, DirectoryForward DEF Pub!Listed, Forward
<1> QED BY <1>1, <1>2, <1>3

\* What every step of the component does to the three.
Moves ==
  /\ p_trust' \in [Publishers -> 0..4]
  /\ ContentMap(p_store') /\ VettedOnly(p_store')
  /\ Forward

LEMMA PublicationMoves ==
  ASSUME Pub!PublicationsInv, Pub!PublicationsAssumption, [Pub!Next]_pubVars
  PROVE  Moves
<1>1. /\ Ranked /\ ContentMap(p_store)
      /\ p_directory \in [Publishers -> Nat] /\ p_trust \in [Publishers -> 0..4]
  BY ContentMapIs DEF Pub!PublicationsInv, Ranked
<1>2. \A c \in Contents : c.by \in Publishers /\ c.stamp \in Nat
  BY DEF Pub!PublicationsAssumption
<1>3. p_directory' = p_directory => Forward
  BY <1>1 DEF Forward
<1>4. Pub!Unlisted => Forward
  BY <1>3 DEF Pub!Unlisted
<1>5. p_store' = p_store => ContentMap(p_store') /\ VettedOnly(p_store')
  BY <1>1, NoneGo
<1>6. ASSUME NEW c \in Contents, p_store' = Pub!Put(p_store, c)
      PROVE  ContentMap(p_store') /\ VettedOnly(p_store')
  BY <1>1, <1>6, PutKeepsVetted
<1>7. ASSUME NEW c \in Contents, Pub!Listed(c) PROVE Forward
  BY <1>1, <1>2, <1>7, ListedForward
<1>8. p_trust' = p_trust => p_trust' \in [Publishers -> 0..4]
  BY <1>1
<1>9. CASE UNCHANGED pubVars
  BY <1>3, <1>5, <1>8, <1>9 DEF Moves, pubVars
<1>10. ASSUME NEW c \in Contents,
              Pub!PublishChannelMessage(c) \/ Pub!PublishDrop(c) \/ Pub!PublishDirectory(c)
       PROVE  Moves
  <2>1. Pub!Publish(c) /\ Pub!Listed(c)
    BY <1>10 DEF Pub!PublishChannelMessage, Pub!PublishDrop, Pub!PublishDirectory
  <2>2. p_store' = Pub!Put(p_store, c) /\ p_trust' = p_trust
    BY <2>1 DEF Pub!Publish
  <2> QED BY <1>6, <1>7, <1>8, <2>1, <2>2 DEF Moves
<1>11. ASSUME NEW c \in Contents, Pub!Announced(c) PROVE Moves
  <2>1. p_store' = p_store /\ p_trust' = Pub!Verified(c.by) /\ Pub!Unlisted
    BY <1>11 DEF Pub!Announced
  <2> QED BY <1>1, <1>2, <1>4, <1>5, <2>1, VerifiedTyped DEF Moves
<1>12. ASSUME NEW c \in Contents, Pub!Fetched(c) PROVE Moves
  <2>1. p_store' = Pub!Put(p_store, c) /\ p_trust' = p_trust /\ (Pub!Listed(c) \/ Pub!Unlisted)
    BY <1>12 DEF Pub!Fetched
  <2> QED BY <1>4, <1>6, <1>7, <1>8, <2>1 DEF Moves
<1>13. ASSUME NEW c \in Contents, Pub!FetchRejected(c) PROVE Moves
  BY <1>3, <1>5, <1>8, <1>13 DEF Moves, Pub!FetchRejected
<1>14. ASSUME NEW c \in Contents, Pub!GetContent(c) PROVE Moves
  BY <1>4, <1>6, <1>8, <1>14 DEF Moves, Pub!GetContent
<1>15. ASSUME NEW c \in Contents, NEW i \in Chunks, Pub!RelayedChunk(c, i) PROVE Moves
  BY <1>4, <1>5, <1>8, <1>15 DEF Moves, Pub!RelayedChunk
<1>16. ASSUME NEW c \in Contents, Pub!RelayedComplete(c) PROVE Moves
  <2>1. /\ Pub!Unlisted
        /\ p_store' = p_store \/ p_store' = Pub!Put(p_store, c)
        /\ p_trust' = p_trust \/ p_trust' = Pub!Verified(c.by)
    BY <1>16 DEF Pub!RelayedComplete
  <2>2. p_trust' \in [Publishers -> 0..4]
    BY <1>1, <1>2, <1>8, <2>1, VerifiedTyped
  <2> QED BY <1>4, <1>5, <1>6, <2>1, <2>2 DEF Moves
<1>17. ASSUME NEW c \in Contents, Pub!Expire(c) PROVE Moves
  BY <1>4, <1>5, <1>8, <1>17 DEF Moves, Pub!Expire
<1>18. ASSUME NEW c \in Contents, Pub!ReadExpired(c) PROVE Moves
  <2>1. /\ Pub!Unlisted /\ p_trust' = p_trust
        /\ p_store' = Pub!MapDelete(p_store, {c}) /\ {c} \subseteq p_expired
    BY <1>18 DEF Pub!ReadExpired
  <2> QED BY <1>1, <1>4, <1>8, <2>1, ExpiredGo DEF Moves
<1>19. CASE Pub!ListKnownContent
  <2>1. /\ Pub!Unlisted /\ p_trust' = p_trust /\ p_store' = Pub!MapDelete(p_store, p_expired)
    BY <1>19 DEF Pub!ListKnownContent
  <2> QED BY <1>1, <1>4, <1>8, <2>1, ExpiredGo DEF Moves
<1>20. CASE Pub!ListDrops
  BY <1>3, <1>5, <1>8, <1>20 DEF Moves, Pub!ListDrops
<1>21. ASSUME NEW p \in Publishers, Pub!TrustPublisher(p) PROVE Moves
  <2>1. p_store' = p_store /\ p_directory' = p_directory /\ p_trust' = [p_trust EXCEPT ![p] = 3]
    BY <1>21 DEF Pub!TrustPublisher
  <2> QED BY <1>1, <1>3, <1>5, <2>1, VerifiedTyped DEF Moves
<1>22. CASE Pub!Invited
  BY <1>3, <1>5, <1>8, <1>22 DEF Moves, Pub!Invited
<1>23. ASSUME NEW g \in GroupMessages, Pub!HandleGroupMessage(g) PROVE Moves
  BY <1>3, <1>5, <1>8, <1>23 DEF Moves, Pub!HandleGroupMessage
<1> QED BY <1>9, <1>10, <1>11, <1>12, <1>13, <1>14, <1>15, <1>16, <1>17, <1>18, <1>19, <1>20, <1>21,
           <1>22, <1>23 DEF Pub!Next, Pub!Deliver

LEMMA PublicationsStart == Pub!Init => Pub!PublicationsInv
<1> SUFFICES ASSUME Pub!Init PROVE Pub!PublicationsInv
  OBVIOUS
<1>1. p_trust \in [Publishers -> 0..4] /\ p_directory \in [Publishers -> Nat]
  BY DEF Pub!Init
<1>2. p_store = [keys |-> {}, older |-> {}]
  BY DEF Pub!Init, Pub!EmptyMap
<1>3. Pub!IsMap(p_store) /\ Pub!WellOrdered(p_store) /\ p_store.keys \subseteq Contents
  BY <1>2 DEF Pub!IsMap, Pub!WellOrdered
<1>4. IsFiniteSet(p_store.keys)
  BY <1>2, FS_EmptySet
<1> QED BY <1>1, <1>3, <1>4, ContentMapIs DEF Pub!PublicationsInv, ContentMap

LEMMA PublicationsStep ==
  Pub!PublicationsInv /\ [Pub!Next]_pubVars
    => Pub!PublicationsInv' /\ Pub!TrustedKept /\ Pub!DirectoryKept
<1> SUFFICES ASSUME Pub!PublicationsInv, [Pub!Next]_pubVars
             PROVE  Pub!PublicationsInv' /\ Pub!TrustedKept /\ Pub!DirectoryKept
  OBVIOUS
<1>1. Moves
  BY PublicationMoves, PubConstants
<1>2. Pub!PublicationsInv'
  <2>1. PICK m : m = p_store'
    OBVIOUS
  <2>2. Pub!IsMap(m) /\ Pub!WellOrdered(m) /\ Pub!IsFiniteSet(m.keys) /\ m.keys \subseteq Contents
    BY <1>1, <2>1, ContentMapIs DEF Moves
  <2> QED BY <1>1, <2>1, <2>2 DEF Pub!PublicationsInv, Moves, Forward
<1>3. Pub!DirectoryKept
  BY <1>1 DEF Pub!DirectoryKept, Moves, Forward
<1>4. Pub!TrustedKept
  <2>1. Pub!Cardinality(Strangers(p_store)) = Cardinality(Strangers(p_store))
    BY DEF Cardinality, Pub!Cardinality, IsFiniteSet, Pub!IsFiniteSet
  <2>2. {d \in p_store.keys : Pub!Stranger(d)} = Strangers(p_store)
    BY DEF Strangers
  <2>3. VettedOnly(p_store')
    BY <1>1 DEF Moves
  <2> QED BY <2>1, <2>2, <2>3 DEF Pub!TrustedKept, VettedOnly, Pub!DefaultUrgency
<1> QED BY <1>2, <1>3, <1>4

\* However the flood of self-declared urgent contents, the publishing, fetching, relaying
\* and expiry of a node and its changes of trust interleave, its content store evicts what
\* a vetted publisher or the node itself published only while the urgent contents of
\* strangers are within their budget, and the directory of a box never goes back, for any
\* publishers, contents, bounds and length of run.
THEOREM VettedOutlast == MCSpec => TrustedOutlastsFlood
<1> DEFINE S == which = "pub" => Pub!PublicationsInv
           K == which = "pub" => Pub!TrustedKept /\ Pub!DirectoryKept
<1>1. MCInit => S
  BY PublicationsStart DEF MCInit
<1>2. S /\ [MCNext]_mcVars => S' /\ [K]_mcVars
  <2> SUFFICES ASSUME S, [MCNext]_mcVars PROVE S' /\ [K]_mcVars
    OBVIOUS
  <2>1. CASE which = "pub" /\ [Pub!Next]_pubVars /\ UNCHANGED which
    <3>1. Pub!PublicationsInv' /\ Pub!TrustedKept /\ Pub!DirectoryKept
      BY <2>1, PublicationsStep
    <3> QED BY <2>1, <3>1
  <2>2. CASE which # "pub" /\ UNCHANGED which
    BY <2>2
  <2>3. UNCHANGED which /\ (which = "pub" => [Pub!Next]_pubVars)
    BY DEF MCNext, mcVars
  <2> QED BY <2>1, <2>2, <2>3
<1> QED BY <1>1, <1>2, PTL DEF MCSpec, TrustedOutlastsFlood
=============================================================================
