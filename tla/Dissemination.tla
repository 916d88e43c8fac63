--------------------------- MODULE Dissemination ----------------------------
(***************************************************************************)
(* How an SOS spreads over the mesh: the flood of its CONTENT_ANNOUNCE and *)
(* the radio copies of it, the catalog exchange of two nodes that connect, *)
(* the fetch of the bytes by who learns of it without them, the cache of   *)
(* relays they pass through, and the list of sightings an operator sees.   *)
(*                                                                         *)
(*   node/src/routing.ts   SeenCache, decideForward()                      *)
(*   node/src/node.ts      sendEmergencyBeacon(), handlePacket(),          *)
(*                         handleContentAnnounce(), handleSync*(),         *)
(*                         acceptCatalogEntry(), considerEmergencyBeacon(),*)
(*                         observeRelayedContent()                         *)
(*   node/src/catalog.ts, content.ts, emergency-beacon.ts                  *)
(*                                                                         *)
(* getContent() is used through what it promises (module ContentFetch      *)
(* has how it keeps it): the bytes, from any holder that is reachable, or  *)
(* a rejection.  A connection is one step here, traffic stays below the    *)
(* rate limits, and every node relays: module StoreAndForward has the      *)
(* gates that may forbid it.                                               *)
(***************************************************************************)
EXTENDS Naturals, Sequences, FiniteSets

CONSTANTS
  Node,
  Edge,        \* the pairs <<n, m>> that may connect, both directions
  Beacon,      \* ids of the SOS contents; also the ids of their announcements
  Origin,      \* [Beacon -> Node]
  Blind,       \* nodes without the key to read an encrypted SOS
  Listener,    \* nodes with a radio that hears advertisements
  Ttl,         \* defaultTtl
  MaxFetches,  \* MAX_CONCURRENT_BEACON_FETCHES
  MaxEvents,   \* bound on connections, failures, evictions and forgetting
  InitLinks,   \* the sets of connections a behaviour may start with
  Direct       \* receivedFrom = undefined: heard from its author

ASSUME DisseminationAssumption ==
  /\ IsFiniteSet(Node)
  /\ Edge \subseteq Node \X Node
  /\ \A e \in Edge : <<e[2], e[1]>> \in Edge
  /\ Origin \in [Beacon -> Node]
  /\ Listener \subseteq Node
  /\ Ttl \in Nat /\ MaxFetches \in Nat /\ MaxEvents \in Nat
  /\ \A L \in InitLinks : L \subseteq Edge /\ \A e \in L : <<e[2], e[1]>> \in L
  /\ Direct \notin Node

VARIABLES
  link,      \* open connections, both directions
  chan,      \* [Edge -> Seq of packets], in transit
  seen,      \* [Node -> SUBSET Beacon]: announcements in SeenCache
  store,     \* [Node -> SUBSET Beacon]: bytes in ContentStore
  catalog,   \* [Node -> SUBSET Beacon]: RemoteCatalog
  fetch,     \* [Node -> pendingBeaconFetches, with the peer it was learnt from]
  sight,     \* [Node -> EmergencyBeacons, with receivedFrom]
  sent,      \* beacons sent
  expired,   \* beacons past their expiresAt
  events,
  calm,      \* beacons since which no connection came or went, history
  owed,      \* [Edge -> what its first node knew when it connected], history
  evicted,   \* [Node -> SUBSET Beacon]: bytes it gave up, history
  gaveUp     \* [Node -> SUBSET Beacon]: not looked into at the cap, or the
             \* fetch was rejected, history

vars == <<link, chan, seen, store, catalog, fetch, sight, sent, expired, events,
          calm, owed, evicted, gaveUp>>

Peers(n) == {m \in Node : <<n, m>> \in link}

Announce(b, ttl)  == [type |-> "announce", beacon |-> b, ttl |-> ttl]
SyncRequest(S)    == [type |-> "syncRequest", known |-> S]
SyncResponse(S)   == [type |-> "syncResponse", entries |-> S]

\* Mutant of ListKnownContent: content known by name only is left out.
ListKnownContentHeld(n) == store[n] \ expired

\* listKnownContent(): what is held and what is known of, unless expired.
ListKnownContent(n) == (store[n] \cup catalog[n]) \ expired

\* f with every key of S set to v.
Put(f, S, v) == [k \in DOMAIN f \cup S |-> IF k \in S THEN v ELSE f[k]]

\* c after n sends the packet to the peers ps.
Send(c, n, ps, packet) ==
  [e \in Edge |-> IF e[1] = n /\ e[2] \in ps /\ e \in link THEN Append(c[e], packet)
                  ELSE c[e]]

\* acceptCatalogEntry(): of the entries S, the ones news to n and not expired.
Accepted(n, S) == (S \ store[n]) \ expired

\* The sets of accepted entries considerEmergencyBeacon() may start a fetch
\* for: what is not being fetched, up to the cap, in the order of a list the
\* model leaves open.
Considered(n, S) ==
  LET new  == S \ DOMAIN fetch[n]
      free == MaxFetches - Cardinality(DOMAIN fetch[n])
  IN
  {T \in SUBSET new :
     \/ T = new /\ Cardinality(new) <= free
     \/ Cardinality(T) = free /\ Cardinality(new) > free}

\* Mutant of Forwards: one hop too few.
ForwardsOneLess(ttl) == ttl > 1

\* decideForward(), for a broadcast.
Forwards(ttl) == ttl > 0

\* Mutant of Recorded: the last report of a beacon replaces the first.
RecordedAgain(f, b, from) == Put(f, {b}, from)

\* EmergencyBeacons.record(): the first report of a beacon stays.
Recorded(f, b, from) == IF b \in DOMAIN f THEN f ELSE Put(f, {b}, from)

\* singleHopReceivedFrom()
ReceivedFrom(b, from) == IF from = Origin[b] THEN Direct ELSE from

\* sight once n has read the bytes of b: what it can decode is recorded.
Sighted(n, b, from) ==
  IF n \in Blind THEN sight
  ELSE [sight EXCEPT ![n] = Recorded(@, b, ReceivedFrom(b, from))]

\* Mutant of HandleContentAnnounce: news is what the catalog did not list, looked
\* up after it was recorded.
HandleContentAnnounceLate(n, from, b) ==
  LET new == Accepted(n, {b}) IN
  /\ catalog' = [catalog EXCEPT ![n] = @ \cup new]
  /\ store' = [store EXCEPT ![n] = @ \cup new]
  /\ UNCHANGED <<sight, gaveUp>>

\* handleContentAnnounce() of an SOS at n: the metadata to the catalog, the
\* inline bytes to the store, and considerEmergencyBeacon(), whose getContent()
\* finds those bytes at once, unless a fetch of them is already under way or
\* the cap is reached.
HandleContentAnnounce(n, from, b) ==
  LET new == Accepted(n, {b}) IN
  /\ catalog' = [catalog EXCEPT ![n] = @ \cup new]
  /\ store' = [store EXCEPT ![n] = @ \cup new]
  /\ LET T == CHOOSE T \in Considered(n, new) : TRUE IN
     /\ sight' = IF T = {} THEN sight ELSE Sighted(n, b, from)
     /\ gaveUp' = [gaveUp EXCEPT ![n] = @ \cup (new \ (T \cup DOMAIN fetch[n]))]

\* handlePacket() of an announcement at n, c being the channels without it: a
\* copy of one in the SeenCache is dropped; a new one is delivered and passed
\* on.
HandlePacket(n, from, b, ttl, c) ==
  /\ seen' = [seen EXCEPT ![n] = @ \cup {b}]
  /\ IF b \in seen[n] THEN UNCHANGED <<store, catalog, sight, gaveUp>>
     ELSE HandleContentAnnounce(n, from, b)
  /\ chan' = IF b \notin seen[n] /\ Forwards(ttl)
             THEN Send(c, n, Peers(n) \ {from}, Announce(b, ttl - 1)) ELSE c

-----------------------------------------------------------------------------
\* sendEmergencyBeacon() at its origin.
SendEmergencyBeacon(b) ==
  LET n == Origin[b] IN
  /\ b \notin sent
  /\ sent' = sent \cup {b}
  /\ store' = [store EXCEPT ![n] = @ \cup {b}]
  /\ sight' = [sight EXCEPT ![n] = Recorded(@, b, Direct)]
  /\ seen' = [seen EXCEPT ![n] = @ \cup {b}]
  /\ chan' = Send(chan, n, Peers(n), Announce(b, Ttl))
  /\ calm' = calm \cup {b}
  /\ UNCHANGED <<link, catalog, fetch, expired, events, owed, evicted, gaveUp>>

\* advertise(): the same packet by radio, repeated by a timer; n hears it as
\* coming from its author.
Advertise(b, n) ==
  /\ b \in sent
  /\ n \in Listener \ {Origin[b]}
  /\ HandlePacket(n, Origin[b], b, Ttl, chan)
  /\ UNCHANGED <<link, fetch, sent, expired, events, calm, owed, evicted>>

\* The next packet from m at n is of this type.
Receives(n, m, type) ==
  /\ <<m, n>> \in link
  /\ chan[<<m, n>>] # <<>>
  /\ Head(chan[<<m, n>>]).type = type

\* The channels once n has read the next packet from m.
Read(n, m) == [chan EXCEPT ![<<m, n>>] = Tail(@)]

ReceiveAnnounce(n, m) ==
  /\ Receives(n, m, "announce")
  /\ LET p == Head(chan[<<m, n>>]) IN HandlePacket(n, m, p.beacon, p.ttl, Read(n, m))
  /\ UNCHANGED <<link, fetch, sent, expired, events, calm, owed, evicted>>

\* handleSyncRequest(): what the peer did not list, if anything.
HandleSyncRequest(n, m) ==
  /\ Receives(n, m, "syncRequest")
  /\ LET news == ListKnownContent(n) \ Head(chan[<<m, n>>]).known IN
     chan' = IF news = {} THEN Read(n, m)
             ELSE Send(Read(n, m), n, {m}, SyncResponse(news))
  /\ UNCHANGED <<link, seen, store, catalog, fetch, sight, sent, expired, events,
                 calm, owed, evicted, gaveUp>>

\* Mutant of HandleSyncResponse: looks into every entry, accepted or not.
HandleSyncResponseUnchecked(n, m) ==
  /\ Receives(n, m, "syncResponse")
  /\ LET all == Head(chan[<<m, n>>]).entries IN
     /\ catalog' = [catalog EXCEPT ![n] = @ \cup Accepted(n, all)]
     /\ \E T \in Considered(n, all) :
          /\ fetch' = [fetch EXCEPT ![n] = Put(@, T, m)]
          /\ gaveUp' = [gaveUp EXCEPT ![n] = @ \cup (all \ (T \cup DOMAIN fetch[n]))]
  /\ chan' = Read(n, m)
  /\ UNCHANGED <<link, seen, store, sight, sent, expired, events, calm, owed, evicted>>

\* handleSyncResponse(): metadata only, so a sighting needs a fetch.
HandleSyncResponse(n, m) ==
  /\ Receives(n, m, "syncResponse")
  /\ LET new == Accepted(n, Head(chan[<<m, n>>]).entries) IN
     /\ catalog' = [catalog EXCEPT ![n] = @ \cup new]
     /\ \E T \in Considered(n, new) :
          /\ fetch' = [fetch EXCEPT ![n] = Put(@, T, m)]
          /\ gaveUp' = [gaveUp EXCEPT ![n] = @ \cup (new \ (T \cup DOMAIN fetch[n]))]
  /\ chan' = Read(n, m)
  /\ UNCHANGED <<link, seen, store, sight, sent, expired, events, calm, owed, evicted>>

\* n and every node a path of open connections leads to: who is in every set
\* that holds n and the peers of its members.
Component(n) ==
  {m \in Node : \A S \in SUBSET Node :
     n \in S /\ (\A k \in S : Peers(k) \subseteq S) => m \in S}

\* getContent() resolves with the bytes of a holder in reach; relays the chunks
\* passed through may have cached them.
FetchServed(n, b) ==
  /\ b \in DOMAIN fetch[n] \ expired
  /\ \E m \in Component(n) \ {n} : b \in store[m]
  /\ \E relays \in SUBSET Component(n) :
       store' = [m \in Node |->
                   IF m \in relays \cup {n} THEN store[m] \cup {b} ELSE store[m]]
  /\ fetch' = [fetch EXCEPT ![n] = [k \in DOMAIN @ \ {b} |-> @[k]]]
  /\ sight' = Sighted(n, b, fetch[n][b])
  /\ UNCHANGED <<link, chan, seen, catalog, sent, expired, events, calm, owed, evicted,
                 gaveUp>>

\* getContent() rejects: nobody answered in time.  Bytes that an announcement
\* brought meanwhile do not count as an answer.
FetchFailed(n, b) ==
  /\ b \in DOMAIN fetch[n]
  /\ fetch' = [fetch EXCEPT ![n] = [k \in DOMAIN @ \ {b} |-> @[k]]]
  /\ gaveUp' = [gaveUp EXCEPT ![n] = @ \cup {b}]
  /\ UNCHANGED <<link, chan, seen, store, catalog, sight, sent, expired, events,
                 calm, owed, evicted>>

Event == events < MaxEvents /\ events' = events + 1

\* onPeerConnected at both ends: each asks for the other's catalog.
PeerConnected(n, m) ==
  LET both == {<<n, m>>, <<m, n>>} IN
  /\ Event
  /\ <<n, m>> \in Edge \ link
  /\ link' = link \cup both
  /\ chan' = [e \in Edge |-> IF e \in both THEN <<SyncRequest(ListKnownContent(e[1]))>>
                             ELSE chan[e]]
  /\ owed' = [e \in Edge |-> IF e \in both THEN (store[e[1]] \cup catalog[e[1]]) \ expired
                             ELSE owed[e]]
  /\ calm' = {}
  /\ UNCHANGED <<seen, store, catalog, fetch, sight, sent, expired, evicted, gaveUp>>

\* onPeerDisconnected at both ends; what was in transit is lost.
PeerDisconnected(n, m) ==
  LET both == {<<n, m>>, <<m, n>>} IN
  /\ Event
  /\ <<n, m>> \in link
  /\ link' = link \ both
  /\ chan' = [e \in Edge |-> IF e \in both THEN <<>> ELSE chan[e]]
  /\ owed' = [e \in Edge |-> IF e \in both THEN {} ELSE owed[e]]
  /\ calm' = {}
  /\ UNCHANGED <<seen, store, catalog, fetch, sight, sent, expired, evicted, gaveUp>>

\* ContentStore, full, evicts the bytes of b.
Evict(n, b) ==
  /\ Event
  /\ b \in store[n]
  /\ store' = [store EXCEPT ![n] = @ \ {b}]
  /\ evicted' = [evicted EXCEPT ![n] = @ \cup {b}]
  /\ UNCHANGED <<link, chan, seen, catalog, fetch, sight, sent, expired, calm, owed, gaveUp>>

\* Other traffic fills the SeenCache and the announcements age out of it.
Forget(n) ==
  /\ Event
  /\ seen[n] # {}
  /\ seen' = [seen EXCEPT ![n] = {}]
  /\ UNCHANGED <<link, chan, store, catalog, fetch, sight, sent, expired, calm, owed,
                 evicted, gaveUp>>

\* expiresAt passes; every reader treats the content as absent from now on.
Expire(b) ==
  /\ Event
  /\ b \in sent \ expired
  /\ expired' = expired \cup {b}
  /\ UNCHANGED <<link, chan, seen, store, catalog, fetch, sight, sent, calm, owed, evicted,
                 gaveUp>>

-----------------------------------------------------------------------------
Init ==
  /\ link \in InitLinks
  /\ chan = [e \in Edge |-> <<>>]
  /\ seen = [n \in Node |-> {}]
  /\ store = [n \in Node |-> {}]
  /\ catalog = [n \in Node |-> {}]
  /\ fetch = [n \in Node |-> <<>>]
  /\ sight = [n \in Node |-> <<>>]
  /\ sent = {}
  /\ expired = {}
  /\ events = 0
  /\ calm = {}
  /\ owed = [e \in Edge |-> {}]
  /\ evicted = [n \in Node |-> {}]
  /\ gaveUp = [n \in Node |-> {}]

Next ==
  \/ \E b \in Beacon : SendEmergencyBeacon(b) \/ Expire(b)
  \/ \E n \in Node, b \in Beacon :
       Advertise(b, n) \/ FetchServed(n, b) \/ FetchFailed(n, b) \/ Evict(n, b)
  \/ \E n, m \in Node :
       \/ ReceiveAnnounce(n, m) \/ HandleSyncRequest(n, m) \/ HandleSyncResponse(n, m)
       \/ PeerConnected(n, m) \/ PeerDisconnected(n, m)
  \/ \E n \in Node : Forget(n)

Spec == Init /\ [][Next]_vars

-----------------------------------------------------------------------------
\* Types; a fetch and a sighting are of a beacon the node has metadata of or
\* sent itself, and no more than MAX_CONCURRENT_BEACON_FETCHES run.
TypeOK ==
  /\ link \subseteq Edge
  /\ \A n \in Node :
       /\ seen[n] \cup store[n] \cup catalog[n] \subseteq sent
       /\ DOMAIN fetch[n] \subseteq catalog[n]
       /\ Cardinality(DOMAIN fetch[n]) <= MaxFetches
       /\ \A b \in DOMAIN sight[n] :
            b \in catalog[n] \/ n = Origin[b]
  /\ expired \subseteq sent

Quiet == \A e \in Edge : chan[e] = <<>>

\* An SOS floods the whole connected mesh: when no connection came or went since
\* it was sent and its packets have been handled, every node connected
\* to its sender knows of it, although each node forwards only the first copy it gets,
\* which may have come the long way round with few hops left.  (A relay that
\* only cached the bytes in passing knows no more of them once it evicts them.)
ReachesConnectedMesh ==
  Quiet /\ Ttl >= Cardinality(Node) - 2 =>
    \A b \in calm \ expired : \A n \in Component(Origin[b]) \ {Origin[b]} :
      b \in store[n] \cup catalog[n] \cup evicted[n]

\* Two nodes that connect reconcile their catalogs: once the exchange is over
\* each knows all that the other knew when they met and that is still alive,
\* whatever arrived by other ways in between, unless one of them gave the bytes
\* up: a node does not list its own SOS without them.
Reconciled ==
  Quiet => \A e \in link :
    owed[e] \ (expired \cup evicted[e[1]] \cup evicted[e[2]]) \subseteq
      store[e[2]] \cup catalog[e[2]]

\* A sighting is never lost or rewritten: neither a late copy, another path, an
\* expiry nor a refetch after an eviction changes who reported it first.
SightingSticks ==
  [][\A n \in Node : \A b \in DOMAIN sight[n] :
       b \in DOMAIN sight'[n] /\ sight'[n][b] = sight[n][b]]_vars

\* An SOS whose metadata a node accepted is shown to who can read it, or being
\* fetched, unless the node gave it up at the cap of fetches or when nobody
\* answered in time: no order of announcements, radio copies, exchanges,
\* evictions and expiry loses one silently.
AcceptedIsShown ==
  \A n \in Node \ Blind : catalog[n] \subseteq DOMAIN sight[n] \cup DOMAIN fetch[n] \cup gaveUp[n]
=============================================================================
