-------------------------- MODULE StoreAndForward ---------------------------
(***************************************************************************)
(* The store-and-forward core of one node: what happens to a unicast       *)
(* packet whose destination is somebody else, from the moment the node     *)
(* accepts it (handlePacket() relaying it, or an originating call) until   *)
(* it leaves the node.                                                     *)
(*                                                                         *)
(*   node/src/store-and-forward.ts  PendingDeliveryQueue                   *)
(*   node/src/node.ts               floodExcept(), sendToPeer(),           *)
(*                                  flushPendingDeliveries(),              *)
(*                                  relayGateFor(), the forwarding branch  *)
(*                                  of handlePacket(), the connection      *)
(*                                  callbacks of addTransport()            *)
(*                                                                         *)
(* JavaScript runs one callback at a time, so an action is the code        *)
(* between two awaits: a packet is "in flight" while a send it waits for   *)
(* has not settled, and connections, gates and the clock change meanwhile. *)
(* A packet id is accepted once: its SeenCache never forgets one.  The     *)
(* next hop is whatever the routing table answers (module DistanceVector); *)
(* here any answer is possible.                                            *)
(***************************************************************************)
EXTENDS BoundedMap

CONSTANTS
  Peer,         \* neighbours this node may be connected to
  Packet,       \* ids of the packets that pass through it
  RawPriority,  \* [Packet -> Int]: the priority field, as received
  MaxSize,      \* maxPendingDeliveries
  Ttl,          \* storeAndForwardTtlMs
  MaxTime,      \* bound on the clock
  NoPeer        \* exceptPeerId = undefined, and "no route"

ASSUME ConstantsAssumption ==
  /\ NoPeer \notin Peer
  /\ RawPriority \in [Packet -> Int]
  /\ MaxSize \in Nat \ {0}
  /\ Ttl \in Nat
  /\ MaxTime \in Nat

VARIABLES
  connected,    \* peers with an open transport link
  trusted,      \* peers that meet minTrustToRelay
  canRelay,     \* relayPolicy.canRelayNow()
  now,          \* Date.now()
  queue,        \* keys and order of PendingDeliveryQueue.entries
  expiresAt,    \* [Packet -> Int]: deadline of a queued entry
  exceptPeer,   \* [Packet -> Peer \cup {NoPeer}]: who it was received from
  flight,       \* [Packet -> what its floodExcept() is waiting for]
  outcome,      \* [Packet -> how the node is done with it], history
  sentTo,       \* [Packet -> peers a send succeeded to], history
  firstDeadline \* [Packet -> Int]: deadline of its first stay in the queue,
                \* history

env  == <<connected, trusted, canRelay, now>>
vars == <<connected, trusted, canRelay, now, queue, expiresAt, exceptPeer,
          flight, outcome, sentTo, firstDeadline>>

EMERGENCY == 0
BULK      == 5

\* A deadline no clock of the model reaches (expiresAt: Infinity).
Never == MaxTime + Ttl + 1
\* firstDeadline of a packet that was never queued.
Unqueued == -1

\* priorityRank(): anything but a Priority value is the least urgent.
Rank(p) ==
  IF RawPriority[p] \in EMERGENCY..BULK THEN RawPriority[p] ELSE BULK

\* Mutant of Score: the negation of the rank is forgotten.
ScoreNotNegated == [p \in Packet |-> Rank(p)]

\* evictionScore of the queue: lowest first, so BULK goes before EMERGENCY.
Score == [p \in Packet |-> -Rank(p)]

\* Mutants of FreshDeadline: EMERGENCY treated like the rest; "no deadline"
\* encoded as -1.
FreshDeadlineForAll(p) == now + Ttl
FreshDeadlineMinusOne(p) == IF Rank(p) = EMERGENCY THEN -1 ELSE now + Ttl

\* The deadline enqueue() computes.
FreshDeadline(p) == IF Rank(p) = EMERGENCY THEN Never ELSE now + Ttl

NotFlying == [phase |-> "none", to |-> {}]

\* relayGateFor(peer) = "ok"
RelayGate(peer) == peer \in trusted /\ canRelay

\* Mutant of RelayDeniedFor: a retry does not look at the gates.
RelayDeniedForNobody(p) == FALSE

\* The check flushPendingDeliveries() makes of an entry before it retries it.
RelayDeniedFor(p) == exceptPeer[p] # NoPeer /\ ~RelayGate(exceptPeer[p])

\* Mutant of RequeueDeadline: requeue() starts a fresh window.
RequeueDeadlineFresh(p) == FreshDeadline(p)

\* requeue(): the entry goes back with the deadline it was drained with.
RequeueDeadline(p) == expiresAt[p]

-----------------------------------------------------------------------------
\* The first synchronous part of floodExcept(): the routed next hop alone if
\* the routing table has one that is not the excluded peer and a transport
\* reaches it; otherwise every connected peer but the excluded one.
Launch(via, except, peers) ==
  IF via \in peers \ {except}
  THEN [phase |-> "routed", to |-> {via}]
  ELSE [phase |-> "flood",  to |-> peers \ {except}]

\* PendingDeliveryQueue.enqueue()
Enqueue(p) ==
  /\ queue' = MapSet(queue, p, Score, MaxSize)
  /\ expiresAt' = [expiresAt EXCEPT ![p] = FreshDeadline(p)]
  /\ firstDeadline' = [firstDeadline EXCEPT
                         ![p] = IF @ = Unqueued THEN FreshDeadline(p) ELSE @]
  /\ outcome' = [q \in Packet |->
                   IF q \in EvictedBy(queue, p, Score, MaxSize) THEN "evicted"
                   ELSE IF q = p THEN "accepted" ELSE outcome[q]]

\* floodExcept(p) from its first line: the sends start, or there is nobody to
\* send to and the packet is queued in the same turn.
FloodExcept(p, except, via) ==
  LET f == Launch(via, except, connected) IN
  IF f.to = {}
  THEN Enqueue(p) /\ UNCHANGED flight
  ELSE /\ flight' = [flight EXCEPT ![p] = f]
       /\ outcome' = [outcome EXCEPT ![p] = "accepted"]
       /\ UNCHANGED <<queue, expiresAt, firstDeadline>>

-----------------------------------------------------------------------------
\* A call of this node sends a packet of its own (originate, floodExcept).
Originate(p) ==
  /\ outcome[p] = "unseen"
  /\ \E via \in Peer \cup {NoPeer} : FloodExcept(p, NoPeer, via)
  /\ exceptPeer' = [exceptPeer EXCEPT ![p] = NoPeer]
  /\ UNCHANGED <<env, sentTo>>

\* handlePacket(): a packet to be relayed arrives from a peer whose gate is
\* open.
RelayAllowed(p, from) ==
  /\ outcome[p] = "unseen"
  /\ RelayGate(from)
  /\ \E via \in Peer \cup {NoPeer} : FloodExcept(p, from, via)
  /\ exceptPeer' = [exceptPeer EXCEPT ![p] = from]
  /\ UNCHANGED <<env, sentTo>>

\* handlePacket(): the gate of the sender is closed; the packet waits.
RelayDenied(p, from) ==
  /\ outcome[p] = "unseen"
  /\ ~RelayGate(from)
  /\ Enqueue(p)
  /\ exceptPeer' = [exceptPeer EXCEPT ![p] = from]
  /\ UNCHANGED <<env, flight, sentTo>>

HandedOff(p, ok) ==
  /\ flight' = [flight EXCEPT ![p] = NotFlying]
  /\ outcome' = [outcome EXCEPT ![p] = "handedOff"]
  /\ sentTo' = [sentTo EXCEPT ![p] = @ \cup ok]
  /\ UNCHANGED <<env, queue, expiresAt, exceptPeer, firstDeadline>>

\* The send to the routed next hop resolved.
RoutedSent(p) ==
  /\ flight[p].phase = "routed"
  /\ HandedOff(p, flight[p].to)

\* Mutants of RoutedFailed: the fallback flood forgets whom the packet came
\* from; there is no fallback.
RoutedFailedToAll(p) ==
  /\ flight[p].phase = "routed"
  /\ IF connected = {}
     THEN Enqueue(p) /\ flight' = [flight EXCEPT ![p] = NotFlying]
     ELSE /\ flight' = [flight EXCEPT ![p] = [phase |-> "flood", to |-> connected]]
          /\ UNCHANGED <<queue, expiresAt, outcome, firstDeadline>>
  /\ UNCHANGED <<env, exceptPeer, sentTo>>
RoutedFailedGivesUp(p) ==
  /\ flight[p].phase = "routed"
  /\ flight' = [flight EXCEPT ![p] = NotFlying]
  /\ UNCHANGED <<env, queue, expiresAt, exceptPeer, outcome, sentTo, firstDeadline>>

\* The send to the routed next hop was rejected: flood to whoever is
\* connected by now, or queue.
RoutedFailed(p) ==
  /\ flight[p].phase = "routed"
  /\ LET to == connected \ {exceptPeer[p]} IN
     IF to = {}
     THEN Enqueue(p) /\ flight' = [flight EXCEPT ![p] = NotFlying]
     ELSE /\ flight' = [flight EXCEPT ![p] = [phase |-> "flood", to |-> to]]
          /\ UNCHANGED <<queue, expiresAt, outcome, firstDeadline>>
  /\ UNCHANGED <<env, exceptPeer, sentTo>>

\* Mutant of FloodSent: settled is taken for delivered.
FloodSentUnchecked(p) ==
  /\ flight[p].phase = "flood"
  /\ \E ok \in SUBSET flight[p].to : HandedOff(p, ok)

\* Every send of the flood settled and at least one succeeded.
FloodSent(p) ==
  /\ flight[p].phase = "flood"
  /\ \E ok \in (SUBSET flight[p].to) \ {{}} : HandedOff(p, ok)

\* Mutant of FloodFailed: an undeliverable packet is dropped.
FloodFailedDrops(p) ==
  /\ flight[p].phase = "flood"
  /\ flight' = [flight EXCEPT ![p] = NotFlying]
  /\ UNCHANGED <<env, queue, expiresAt, exceptPeer, outcome, sentTo, firstDeadline>>

\* Every send of the flood was rejected.
FloodFailed(p) ==
  /\ flight[p].phase = "flood"
  /\ Enqueue(p)
  /\ flight' = [flight EXCEPT ![p] = NotFlying]
  /\ UNCHANGED <<env, exceptPeer, sentTo>>

\* onPeerConnected, with the flushPendingDeliveries() it starts: drain()
\* removes every entry and drops the expired ones; an entry received from a
\* peer whose gate is closed is requeued with its deadline; any other one
\* restarts floodExcept(), which sends, or enqueues it afresh when there is
\* nobody to send to.  What goes back in fits, and keeps the drained order,
\* except that a packet whose route names a peer that is gone is enqueued
\* after the others: it first awaited the refused send.  The callback also
\* fires when a connected peer replaces its connection.
PeerConnected(peer) ==
  LET peers   == connected \cup {peer}
      expired == {p \in queue.keys : expiresAt[p] <= now}
      live    == queue.keys \ expired
      denied  == {p \in live : RelayDeniedFor(p)}
      retried == live \ denied
  IN
  /\ connected' = peers
  /\ \E via \in [retried -> Peer \cup {NoPeer}] :
       LET launch == [p \in retried |-> Launch(via[p], exceptPeer[p], peers)]
           nobody == {p \in retried : launch[p].to = {}}
           last   == {p \in nobody : via[p] \in Peer \ peers}
       IN
       /\ queue' = MoveLast(MapDelete(queue, expired \cup (retried \ nobody)), last)
       /\ expiresAt' = [p \in Packet |->
                          IF p \in nobody THEN FreshDeadline(p)
                          ELSE IF p \in denied THEN RequeueDeadline(p)
                          ELSE expiresAt[p]]
       /\ flight' = [p \in Packet |->
                       IF p \in retried \ nobody THEN launch[p] ELSE flight[p]]
  /\ outcome' = [p \in Packet |-> IF p \in expired THEN "expired" ELSE outcome[p]]
  /\ UNCHANGED <<trusted, canRelay, now, exceptPeer, sentTo, firstDeadline>>

\* onPeerDisconnected; sends already under way settle on their own.
PeerDisconnected(peer) ==
  /\ peer \in connected
  /\ connected' = connected \ {peer}
  /\ UNCHANGED <<trusted, canRelay, now, queue, expiresAt, exceptPeer, flight,
                 outcome, sentTo, firstDeadline>>

\* An operator changes a trust level, or the battery state changes.
GateChanges ==
  /\ \/ /\ \E peer \in Peer : trusted' \in {trusted \cup {peer}, trusted \ {peer}}
        /\ trusted' # trusted
        /\ UNCHANGED canRelay
     \/ canRelay' = ~canRelay /\ UNCHANGED trusted
  /\ UNCHANGED <<connected, now, queue, expiresAt, exceptPeer, flight, outcome,
                 sentTo, firstDeadline>>

Tick ==
  /\ now < MaxTime
  /\ now' = now + 1
  /\ UNCHANGED <<connected, trusted, canRelay, queue, expiresAt, exceptPeer,
                 flight, outcome, sentTo, firstDeadline>>

-----------------------------------------------------------------------------
Init ==
  /\ connected = {}
  /\ trusted = Peer
  /\ canRelay = TRUE
  /\ now = 0
  /\ queue = EmptyMap
  /\ expiresAt = [p \in Packet |-> 0]
  /\ exceptPeer = [p \in Packet |-> NoPeer]
  /\ flight = [p \in Packet |-> NotFlying]
  /\ outcome = [p \in Packet |-> "unseen"]
  /\ sentTo = [p \in Packet |-> {}]
  /\ firstDeadline = [p \in Packet |-> Unqueued]

Next ==
  \/ \E p \in Packet : Originate(p)
  \/ \E p \in Packet, from \in connected : RelayAllowed(p, from)
  \/ \E p \in Packet, from \in connected : RelayDenied(p, from)
  \/ \E p \in Packet : RoutedSent(p)
  \/ \E p \in Packet : RoutedFailed(p)
  \/ \E p \in Packet : FloodSent(p)
  \/ \E p \in Packet : FloodFailed(p)
  \/ \E peer \in Peer : PeerConnected(peer)
  \/ \E peer \in Peer : PeerDisconnected(peer)
  \/ GateChanges
  \/ Tick

Spec == Init /\ [][Next]_vars

\* What the mesh owes a waiting packet: the relay gates are open again and
\* again, every peer connects again and again at such a time, and a send that
\* is retried for ever does not fail for ever.  The node's own part is that
\* every send settles (transports reject what they cannot deliver).
GatesOpen == trusted = Peer /\ canRelay
Encounter(peer) == PeerConnected(peer) /\ GatesOpen

Sent(p)    == RoutedSent(p) \/ FloodSent(p)
Settled(p) == Sent(p) \/ RoutedFailed(p) \/ FloodFailed(p)

Fairness ==
  /\ []<>GatesOpen
  /\ \A peer \in Peer : SF_vars(Encounter(peer))
  /\ \A p \in Packet : WF_vars(Settled(p)) /\ SF_vars(Sent(p))

FairSpec == Spec /\ Fairness

-----------------------------------------------------------------------------
Outcome == {"unseen", "accepted", "handedOff", "evicted", "expired"}

Flight == [phase : {"none", "routed", "flood"}, to : SUBSET Peer]

\* Every variable holds a value of its type, and the insertion order of the
\* queue is a total order of its keys (what Map iteration relies on).
TypeOK ==
  /\ connected \in SUBSET Peer
  /\ trusted \in SUBSET Peer
  /\ canRelay \in BOOLEAN
  /\ now \in 0..MaxTime
  /\ queue.keys \in SUBSET Packet
  /\ queue = [keys |-> queue.keys, older |-> queue.older]
  /\ WellOrdered(queue)
  /\ expiresAt \in [Packet -> Nat]
  /\ exceptPeer \in [Packet -> Peer \cup {NoPeer}]
  /\ flight \in [Packet -> Flight]
  /\ outcome \in [Packet -> Outcome]
  /\ sentTo \in [Packet -> SUBSET Peer]
  /\ firstDeadline \in [Packet -> Nat \cup {Unqueued}]

\* PendingDeliveryQueue stays within maxSize, whatever enqueues and flushes
\* interleave.
QueueBounded == Cardinality(queue.keys) <= MaxSize

Flying(p) == flight[p].phase # "none"

\* No packet is lost or duplicated between floodExcept(), the queue and the
\* flush: a packet the node still answers for is queued or has exactly one
\* floodExcept() under way, and one it is done with is neither.
NothingSlipsAway ==
  \A p \in Packet :
    /\ outcome[p] = "accepted" <=> (p \in queue.keys \/ Flying(p))
    /\ ~(p \in queue.keys /\ Flying(p))
    /\ Flying(p) => flight[p].to # {}

\* The clock only removes routine traffic, and never before a whole Ttl: an
\* EMERGENCY packet has no deadline (enqueue(): expiresAt Infinity).
OnlyRoutineExpires ==
  \A p \in Packet :
    outcome[p] = "expired" => /\ Rank(p) # EMERGENCY
                              /\ firstDeadline[p] >= Ttl
                              /\ firstDeadline[p] <= now

\* A relayed packet never goes back to the peer it came from, on the first
\* attempt or on any retry (exceptPeerId travels with the queued entry).
NeverSentBack ==
  \A p \in Packet : /\ exceptPeer[p] \notin sentTo[p]
                    /\ exceptPeer[p] \notin flight[p].to

\* A packet leaves the node only through a peer it was sent to.
HandedOffMeansSent ==
  \A p \in Packet : outcome[p] = "handedOff" <=> sentTo[p] # {}

\* Memory pressure removes one of the least urgent packets held, and of those
\* the one that has waited longest.
EvictsLeastUrgentOldest ==
  [][\A v \in Packet :
       outcome'[v] = "evicted" /\ outcome[v] # "evicted"
         => /\ v \in queue.keys
            /\ Cardinality(queue.keys) = MaxSize
            /\ \A q \in queue.keys \ {v} :
                 Rank(q) < Rank(v) \/ (Rank(q) = Rank(v) /\ <<v, q>> \in queue.older)
    ]_vars

\* Store-and-forward is no way around the relay gates: whenever a send of a
\* relayed packet starts, on arrival or on a retry, its sender passes
\* relayGateFor() at that moment.
GateHonoured ==
  [][\A p \in Packet :
       ~Flying(p) /\ Flying(p)' /\ exceptPeer'[p] # NoPeer
         => RelayGate(exceptPeer'[p])]_vars

\* A packet its relay gate keeps back expires on schedule, however often it
\* is drained and requeued (requeue() carries expiresAt through).
DeniedExpiresOnSchedule ==
  [][\A p \in queue.keys :
       exceptPeer[p] # NoPeer /\ ~RelayGate(exceptPeer[p])
         => IF p \in queue'.keys THEN expiresAt'[p] = expiresAt[p]
            ELSE outcome'[p] = "evicted" \/ expiresAt[p] <= now]_vars

\* A queued packet keeps the deadline of its first stay: it is dropped once
\* Ttl has passed since the node first held it ("How long an undeliverable
\* unicast packet is held before being dropped", storeAndForwardTtlMs).
HeldForOneTtl ==
  \A p \in queue.keys : expiresAt[p] = firstDeadline[p]

\* An EMERGENCY packet the node accepted is eventually passed on, unless it
\* was evicted, as long as peers other than its sender keep coming by.
EmergencyEventuallyLeaves ==
  \A p \in Packet :
    Rank(p) = EMERGENCY /\ outcome[p] = "accepted"
      ~> outcome[p] \in {"handedOff", "evicted"}
=============================================================================
