----------------------------- MODULE BleCourier -----------------------------
(***************************************************************************)
(* What the phone's Bluetooth relay carries between its peers: decideFor-  *)
(* ward(), SeenCache and PendingRelayQueue of ble-relay.js, and forward-   *)
(* Packet(), flushPendingFor() and the second half of handleNotification() *)
(* of ble-client.js.  Links come and go (BleRelay), every write of a       *)
(* packet may fail, and an unsent unicast is kept for its destination.     *)
(***************************************************************************)
EXTENDS Naturals, Sequences, SequencesExt, FiniteSets

CONSTANTS
  Packets, Peers,
  Dest,        \* per packet, its destination, None for a broadcast
  PriorityRank,   \* per packet, priorityRank(): 0 is EMERGENCY
  MaxQueue,    \* DEFAULT_MAX_SIZE
  MaxSeen,     \* MAX_SEEN_IDS
  Ttl,         \* DEFAULT_TTL_MS, in ticks
  MaxTime,     \* bound: ticks of the clock
  MaxSends,    \* bound: writes under way at once
  None

VARIABLES
  on,          \* the relay is active
  present,     \* peers connected and identified
  seen,        \* seenCache, oldest first
  held,        \* pendingQueue: [pkt, exp], oldest first
  sends,       \* sendFragmentedPacket() calls under way: [pkt, to, exp]
  now

vars == <<on, present, seen, held, sends, now>>

Forever == MaxTime + Ttl + 1

Init ==
  /\ on = TRUE /\ present = {} /\ seen = <<>> /\ held = <<>> /\ sends = <<>>
  /\ now = 0

-----------------------------------------------------------------------------
(* PendingRelayQueue. *)

Holds(q, p) == \E i \in DOMAIN q : q[i].pkt = p

\* As if the oldest entry went first.
EvictOldest(q) == Tail(q)

\* evictLowestPriority(): the oldest of the least urgent.
EvictLowestPriority(q) ==
  RemoveAt(q, CHOOSE i \in DOMAIN q :
     \A j \in DOMAIN q : PriorityRank[q[j].pkt] < PriorityRank[q[i].pkt]
                           \/ (PriorityRank[q[j].pkt] = PriorityRank[q[i].pkt] /\ i <= j))

Put(q, e) ==
  IF Holds(q, e.pkt) THEN q
  ELSE Append(IF Len(q) >= MaxQueue THEN EvictLowestPriority(q) ELSE q, e)

Enqueue(q, p) == Put(q, [pkt |-> p, exp |-> IF PriorityRank[p] = 0 THEN Forever ELSE now + Ttl])

Requeue(q, e) == IF e.exp <= now THEN q ELSE Put(q, e)

Live(q) == SelectSeq(q, LAMBDA e : e.exp > now)

\* As if an entry's age did not count when its destination came.
DrainAll(n) ==
  LET Due(e) == Dest[e.pkt] = n
      Rest(e) == Dest[e.pkt] # n
  IN  [ready |-> SelectSeq(held, Due), rest |-> SelectSeq(held, Rest)]

\* drainFor(): what is for n, and the queue without it and without the expired.
DrainFor(n) ==
  LET Due(e) == Dest[e.pkt] = n
      Rest(e) == Dest[e.pkt] # n
  IN  [ready |-> SelectSeq(Live(held), Due), rest |-> SelectSeq(Live(held), Rest)]

-----------------------------------------------------------------------------
(* Forwarding. *)

\* forwardPacket(): a unicast goes to its destination or waits for it, a
\* broadcast goes to every identified peer but the one it came from.
ForwardPacket(p, from) ==
  IF Dest[p] # None
  THEN IF Dest[p] \in present
       THEN sends' = Append(sends, [pkt |-> p, to |-> Dest[p], exp |-> None]) /\ held' = held
       ELSE sends' = sends /\ held' = Enqueue(held, p)
  ELSE /\ sends' = sends \o SetToSeq({[pkt |-> p, to |-> n, exp |-> None] : n \in present \ {from}})
       /\ held' = held

MarkSeen(p) == seen' = Append(IF Len(seen) >= MaxSeen THEN Tail(seen) ELSE seen, p)

\* handleNotification() of an identified peer, decideForward(): a duplicate
\* and a packet with no hops left go no further.
Receive(from, p, hops) ==
  /\ on /\ from \in present /\ ~Contains(seen, p)
  /\ Len(sends) < MaxSends
  /\ MarkSeen(p)
  /\ IF hops > 0 THEN ForwardPacket(p, from) ELSE UNCHANGED <<sends, held>>
  /\ UNCHANGED <<on, present, now>>

\* A write of the last fragment returns, or one of them fails.
SendEnds(i, ok) ==
  LET s == sends[i] IN
  /\ sends' = RemoveAt(sends, i)
  /\ held' = IF ok \/ ~on \/ Dest[s.pkt] = None THEN held
             ELSE IF s.exp = None THEN Enqueue(held, s.pkt)
             ELSE Requeue(held, [pkt |-> s.pkt, exp |-> s.exp])
  /\ UNCHANGED <<on, present, seen, now>>

\* connectToPeer() has the peer's HELLO: flushPendingFor().
Identify(n) ==
  /\ on /\ n \notin present
  /\ present' = present \cup {n}
  /\ LET d == DrainFor(n) IN
     /\ held' = d.rest
     /\ sends' = sends \o [i \in DOMAIN d.ready |->
                             [pkt |-> d.ready[i].pkt, to |-> n, exp |-> d.ready[i].exp]]
  /\ UNCHANGED <<on, seen, now>>

Leave(n) ==
  /\ n \in present /\ present' = present \ {n}
  /\ UNCHANGED <<on, seen, held, sends, now>>

\* The relay is deactivated, and activated again with caches of its own.
Deactivate ==
  /\ on /\ on' = FALSE /\ present' = {} /\ seen' = <<>> /\ held' = <<>>
  /\ UNCHANGED <<sends, now>>

Activate ==
  /\ ~on /\ on' = TRUE
  /\ UNCHANGED <<present, seen, held, sends, now>>

Tick == now < MaxTime /\ now' = now + 1 /\ UNCHANGED <<on, present, seen, held, sends>>

Next ==
  \/ \E n \in Peers : Identify(n) \/ Leave(n)
  \/ \E n \in Peers, p \in Packets, hops \in 0..1 : Receive(n, p, hops)
  \/ \E i \in DOMAIN sends, ok \in BOOLEAN : SendEnds(i, ok)
  \/ Deactivate \/ Activate \/ Tick

Spec == Init /\ [][Next]_vars

-----------------------------------------------------------------------------
Carried(p) == Holds(held, p) \/ Holds(sends, p)

\* An emergency unicast the active relay carries is let go only when it has
\* been written to its destination, or pushed out of a queue that held nothing
\* but emergencies: no clock, failed write or ordinary packet takes it.
EmergencyKept ==
  \A p \in Packets :
    (Dest[p] # None /\ PriorityRank[p] = 0 /\ on' /\ Carried(p) /\ ~Carried(p)')
      => \/ \E i \in DOMAIN sends : sends[i] = [pkt |-> p, to |-> Dest[p], exp |-> sends[i].exp] /\ SendEnds(i, TRUE)
         \/ Len(held) = MaxQueue /\ \A i \in DOMAIN held : PriorityRank[held[i].pkt] = 0
CourierKeepsEmergency == [][EmergencyKept]_vars

\* What waited in the queue is put on the air only within its time: a message
\* is not revived when its destination comes back too late, whatever number of
\* failed flushes it went through.
FlushedFresh ==
  \A n \in present' \ present : \A i \in DOMAIN sends' \ DOMAIN sends : sends'[i].exp > now
OnlyFreshFlushed == [][FlushedFresh]_vars
=============================================================================
