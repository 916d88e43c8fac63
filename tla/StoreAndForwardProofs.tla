------------------------ MODULE StoreAndForwardProofs ------------------------
(***************************************************************************)
(* The invariants of StoreAndForward for any peers, packets, priorities,   *)
(* queue bound, TTL and length of run.                                     *)
(***************************************************************************)
EXTENDS MCMesh, FiniteSetTheorems, SequenceTheorems, WellFoundedInduction, TLAPS

-----------------------------------------------------------------------------
(***************************************************************************)
(* What the operations of BoundedMap keep, for every map, key, score and   *)
(* bound: insertion order stays a total order, the bound holds, and the    *)
(* eviction candidate exists and is the lowest-scored, oldest key.         *)
(***************************************************************************)

\* Removing keys keeps the order of the others total (delete() and the
\* removal loop of drain()).
LEMMA DeleteWellOrdered ==
  ASSUME NEW m, WellOrdered(m), NEW S
  PROVE  WellOrdered(MapDelete(m, S)) /\ IsMap(MapDelete(m, S))
<1> DEFINE d == MapDelete(m, S)
<1>1. d.keys = m.keys \ S /\ d.older = OrderOn(m.older, d.keys) /\ IsMap(d)
  BY DEF MapDelete, IsMap
<1>2. ASSUME NEW T \in SUBSET d.keys, T # {}
      PROVE  \E v \in T : \A q \in T \ {v} : <<v, q>> \in d.older
  <2>1. PICK v \in T : \A q \in T \ {v} : <<v, q>> \in m.older
    BY <1>1, <1>2 DEF WellOrdered
  <2> QED BY <1>1, <1>2, <2>1 DEF OrderOn
<1> QED BY <1>1, <1>2 DEF WellOrdered, OrderOn

\* Appending a key behind those of K keeps the order total (the insertion
\* in set(), after whatever it evicted).
LEMMA AppendWellOrdered ==
  ASSUME NEW m, WellOrdered(m), NEW K \in SUBSET m.keys, NEW k, k \notin K
  PROVE  WellOrdered([keys  |-> K \cup {k},
                      older |-> OrderOn(m.older, K) \cup (K \X {k})])
<1> DEFINE d == [keys  |-> K \cup {k},
                 older |-> OrderOn(m.older, K) \cup (K \X {k})]
<1>1. d.keys = K \cup {k} /\ d.older = OrderOn(m.older, K) \cup (K \X {k})
  OBVIOUS
<1>2. ASSUME NEW T \in SUBSET d.keys, T # {}
      PROVE  \E v \in T : \A q \in T \ {v} : <<v, q>> \in d.older
  <2>1. CASE T \cap K = {}
    <3>1. T = {k}
      BY <1>1, <1>2, <2>1
    <3> QED BY <3>1
  <2>2. CASE T \cap K # {}
    <3>1. PICK v \in T \cap K : \A q \in (T \cap K) \ {v} : <<v, q>> \in m.older
      BY <2>2 DEF WellOrdered
    <3>2. ASSUME NEW q \in T \ {v} PROVE <<v, q>> \in d.older
      BY <1>1, <1>2, <3>1, <3>2 DEF OrderOn
    <3> QED BY <3>1, <3>2
  <2> QED BY <2>1, <2>2
<1>3. d.older \subseteq d.keys \X d.keys
  BY <1>1 DEF OrderOn
<1> HIDE DEF d
<1>4. WellOrdered(d)
  BY <1>2, <1>3 DEF WellOrdered
<1> QED BY <1>4 DEF d

\* Deleting keys and inserting them again in their order keeps the order total
\* (what a flush does to the entries that go back behind the others).
LEMMA MoveLastWellOrdered ==
  ASSUME NEW m, WellOrdered(m), NEW S, S \subseteq m.keys
  PROVE  /\ WellOrdered(MoveLast(m, S))
         /\ IsMap(MoveLast(m, S))
         /\ MoveLast(m, S).keys = m.keys
<1> DEFINE d == MoveLast(m, S)
           R == m.keys \ S
<1>1. /\ d.keys = m.keys
      /\ d.older = OrderOn(m.older, R) \cup OrderOn(m.older, S) \cup (R \X S)
      /\ IsMap(d)
  BY DEF MoveLast, IsMap
<1>2. ASSUME NEW T \in SUBSET d.keys, T # {}
      PROVE  \E v \in T : \A q \in T \ {v} : <<v, q>> \in d.older
  <2>1. CASE T \cap R = {}
    <3>1. T \subseteq S /\ T \subseteq m.keys
      BY <1>1, <1>2, <2>1
    <3>2. PICK v \in T : \A q \in T \ {v} : <<v, q>> \in m.older
      BY <1>2, <3>1 DEF WellOrdered
    <3> QED BY <1>1, <3>1, <3>2 DEF OrderOn
  <2>2. CASE T \cap R # {}
    <3>1. PICK v \in T \cap R : \A q \in (T \cap R) \ {v} : <<v, q>> \in m.older
      BY <2>2 DEF WellOrdered
    <3>2. ASSUME NEW q \in T \ {v} PROVE <<v, q>> \in d.older
      <4>1. CASE q \in S
        BY <1>1, <3>1, <4>1 DEF OrderOn
      <4>2. CASE q \in R
        BY <1>1, <3>1, <3>2, <4>2 DEF OrderOn
      <4> QED BY <1>1, <1>2, <3>2, <4>1, <4>2
    <3> QED BY <3>1, <3>2
  <2> QED BY <2>1, <2>2
<1>3. d.older \subseteq d.keys \X d.keys
  BY <1>1 DEF OrderOn
<1> QED BY <1>1, <1>2, <1>3 DEF WellOrdered

\* set() keeps the order total.
LEMMA SetWellOrdered ==
  ASSUME NEW m, WellOrdered(m), IsMap(m), NEW key, NEW score, NEW maxSize
  PROVE  WellOrdered(MapSet(m, key, score, maxSize))
         /\ IsMap(MapSet(m, key, score, maxSize))
<1> DEFINE kept == m.keys \ EvictedBy(m, key, score, maxSize)
<1>1. CASE maxSize <= 0 \/ key \in m.keys
  BY <1>1 DEF MapSet
<1>2. CASE ~(maxSize <= 0 \/ key \in m.keys)
  <2>1. MapSet(m, key, score, maxSize)
          = [keys  |-> kept \cup {key},
             older |-> OrderOn(m.older, kept) \cup (kept \X {key})]
    BY <1>2 DEF MapSet
  <2>2. kept \in SUBSET m.keys /\ key \notin kept
    BY <1>2
  <2> HIDE DEF kept
  <2>3. WellOrdered([keys  |-> kept \cup {key},
                     older |-> OrderOn(m.older, kept) \cup (kept \X {key})])
    BY <2>2, AppendWellOrdered
  <2> QED BY <2>1, <2>3 DEF IsMap
<1> QED BY <1>1, <1>2

\* A score over the six priority ranks has a least value on every nonempty
\* set of keys.
LEMMA LeastScore ==
  ASSUME NEW K, K # {}, NEW score, \A k \in K : score[k] \in -5..0
  PROVE  \E v \in K : \A q \in K : score[v] <= score[q]
<1>1. CASE \E v \in K : score[v] = -5 BY <1>1
<1>2. CASE /\ \A v \in K : score[v] \in -4..0
           /\ \E v \in K : score[v] = -4 BY <1>2
<1>3. CASE /\ \A v \in K : score[v] \in -3..0
           /\ \E v \in K : score[v] = -3 BY <1>3
<1>4. CASE /\ \A v \in K : score[v] \in -2..0
           /\ \E v \in K : score[v] = -2 BY <1>4
<1>5. CASE /\ \A v \in K : score[v] \in -1..0
           /\ \E v \in K : score[v] = -1 BY <1>5
<1>6. CASE \A v \in K : score[v] = 0 BY <1>6
<1> QED BY <1>1, <1>2, <1>3, <1>4, <1>5, <1>6

\* pickEvictionCandidate() finds a key of the map, and no other key has a
\* lower score or the same score and an earlier insertion.
LEMMA CandidateIsFirst ==
  ASSUME NEW m, WellOrdered(m), m.keys # {}, NEW score,
         \A k \in m.keys : score[k] \in -5..0
  PROVE  LET v == EvictionCandidate(m, score) IN
         v \in m.keys /\ \A q \in m.keys \ {v} : EvictedBefore(m, score, v, q)
<1>1. PICK w \in m.keys : \A q \in m.keys : score[w] <= score[q]
  BY LeastScore
<1> DEFINE T == {k \in m.keys : score[k] = score[w]}
<1>2. T \in SUBSET m.keys /\ T # {}
  OBVIOUS
<1>3. PICK v \in T : \A q \in T \ {v} : <<v, q>> \in m.older
  BY <1>2 DEF WellOrdered
<1>4. v \in m.keys /\ \A q \in m.keys \ {v} : EvictedBefore(m, score, v, q)
  BY <1>1, <1>3 DEF EvictedBefore
<1> QED BY <1>4 DEF EvictionCandidate

\* set() never lets the map grow past its bound.
LEMMA SetBounded ==
  ASSUME NEW m, WellOrdered(m), IsFiniteSet(m.keys), NEW key, NEW score,
         \A k \in m.keys : score[k] \in -5..0,
         NEW maxSize \in Nat \ {0}, Cardinality(m.keys) <= maxSize
  PROVE  /\ IsFiniteSet(MapSet(m, key, score, maxSize).keys)
         /\ Cardinality(MapSet(m, key, score, maxSize).keys) <= maxSize
<1> DEFINE n == Cardinality(m.keys)
           ev == EvictedBy(m, key, score, maxSize)
<1>0. n \in Nat
  BY FS_CardinalityType
<1>1. CASE key \in m.keys
  BY <1>1 DEF MapSet
<1>2. CASE key \notin m.keys /\ n < maxSize
  <2>1. ev = {}
    BY <1>0, <1>2 DEF EvictedBy
  <2>2. MapSet(m, key, score, maxSize).keys = m.keys \cup {key}
    BY <1>2, <2>1 DEF MapSet
  <2>3. IsFiniteSet(m.keys \cup {key}) /\ Cardinality(m.keys \cup {key}) = n + 1
    BY <1>2, FS_AddElement
  <2> QED BY <1>0, <1>2, <2>2, <2>3
<1>3. CASE key \notin m.keys /\ n = maxSize
  <2>1. m.keys # {}
    BY <1>3, FS_EmptySet
  <2> DEFINE v == EvictionCandidate(m, score)
  <2>2. v \in m.keys
    BY <2>1, CandidateIsFirst
  <2>3. ev = {v}
    BY <1>3 DEF EvictedBy
  <2>4. MapSet(m, key, score, maxSize).keys = (m.keys \ {v}) \cup {key}
    BY <1>3, <2>3 DEF MapSet
  <2>5. IsFiniteSet(m.keys \ {v}) /\ Cardinality(m.keys \ {v}) = n - 1
    BY <2>2, FS_RemoveElement
  <2>6. /\ IsFiniteSet((m.keys \ {v}) \cup {key})
        /\ Cardinality((m.keys \ {v}) \cup {key}) = n
    <3>1. key \notin m.keys \ {v}
      BY <1>3
    <3>2. /\ IsFiniteSet((m.keys \ {v}) \cup {key})
          /\ Cardinality((m.keys \ {v}) \cup {key}) = Cardinality(m.keys \ {v}) + 1
      BY <2>5, <3>1, FS_AddElement
    <3> QED BY <1>0, <2>5, <3>2
  <2> QED BY <1>3, <2>4, <2>6
<1> QED BY <1>0, <1>1, <1>2, <1>3

-----------------------------------------------------------------------------
\* A packet that is not in flight has no target, and one in flight has one.
FlightShape ==
  \A p \in Packet : ~Flying(p) => flight[p] = NotFlying

\* The deadlines behind OnlyRoutineExpires: the first one never lies beyond
\* a whole Ttl from now, and the current one is never earlier than the first.
Deadlines ==
  \A p \in Packet :
    /\ firstDeadline[p] # Unqueued =>
         IF Rank(p) = EMERGENCY THEN firstDeadline[p] = Never
         ELSE firstDeadline[p] \in Ttl..(now + Ttl)
    /\ p \in queue.keys => /\ firstDeadline[p] # Unqueued
                           /\ firstDeadline[p] <= expiresAt[p]

\* The inductive invariant.  QueueBounded needs the order of the queue to be
\* total (or there may be no eviction candidate), NothingSlipsAway needs the
\* candidate to be a queued packet, and NeverSentBack needs to know that a
\* packet not yet accepted has no send and no target.
IInv ==
  /\ TypeOK
  /\ IsFiniteSet(queue.keys)
  /\ QueueBounded
  /\ NothingSlipsAway
  /\ FlightShape
  /\ NeverSentBack
  /\ HandedOffMeansSent
  /\ Deadlines
  /\ OnlyRoutineExpires

\* priorityRank() always answers one of the six priorities.
LEMMA RankType == \A p \in Packet : Rank(p) \in 0..5 /\ Score[p] \in -5..0
BY ConstantsAssumption DEF Rank, Score, EMERGENCY, BULK

\* What enqueue() computes is a proper deadline, and none for EMERGENCY.
LEMMA DeadlineType ==
  ASSUME now \in 0..MaxTime, NEW p \in Packet
  PROVE  /\ FreshDeadline(p) \in Nat
         /\ FreshDeadline(p) # Unqueued
         /\ Rank(p) = EMERGENCY => FreshDeadline(p) = Never
         /\ Rank(p) # EMERGENCY => FreshDeadline(p) = now + Ttl
         /\ Never \in Nat /\ Never > MaxTime + Ttl
BY ConstantsAssumption DEF FreshDeadline, Never, Unqueued

\* What enqueue() evicts is a queued packet, or nothing.
LEMMA EvictedQueued ==
  ASSUME IInv, NEW p \in Packet
  PROVE  EvictedBy(queue, p, Score, MaxSize) \subseteq queue.keys
<1>1. CASE p \notin queue.keys /\ Cardinality(queue.keys) >= MaxSize
  <2>1. queue.keys # {}
    BY <1>1, FS_EmptySet, ConstantsAssumption
  <2>2. WellOrdered(queue) /\ \A k \in queue.keys : Score[k] \in -5..0
    BY RankType DEF IInv, TypeOK
  <2>3. EvictionCandidate(queue, Score) \in queue.keys
    BY <2>1, <2>2, CandidateIsFirst
  <2> QED BY <1>1, <2>3 DEF EvictedBy
<1>2. CASE ~(p \notin queue.keys /\ Cardinality(queue.keys) >= MaxSize)
  BY <1>2 DEF EvictedBy
<1> QED BY <1>1, <1>2

\* A packet that was never accepted, or is in flight, is put in the queue:
\* enqueue() at the end of floodExcept(), or in handlePacket() when the gate
\* is closed.
LEMMA EnqueueStep ==
  ASSUME IInv, NEW p \in Packet, NEW e \in Peer \cup {NoPeer},
         outcome[p] \in {"unseen", "accepted"}, p \notin queue.keys,
         Enqueue(p),
         flight' = [flight EXCEPT ![p] = NotFlying],
         exceptPeer' = [exceptPeer EXCEPT ![p] = e],
         UNCHANGED <<connected, trusted, canRelay, now, sentTo>>
  PROVE  IInv'
<1> DEFINE ev == EvictedBy(queue, p, Score, MaxSize)
<1>1. /\ queue'.keys = (queue.keys \ ev) \cup {p}
      /\ WellOrdered(queue') /\ IsMap(queue')
      /\ IsFiniteSet(queue'.keys) /\ Cardinality(queue'.keys) <= MaxSize
  <2>1. WellOrdered(queue) /\ IsMap(queue) /\ \A k \in queue.keys : Score[k] \in -5..0
    BY RankType DEF IInv, TypeOK, IsMap
  <2>2. queue' = MapSet(queue, p, Score, MaxSize)
    BY DEF Enqueue
  <2>3. queue'.keys = (queue.keys \ ev) \cup {p}
    BY <2>2, ConstantsAssumption DEF MapSet
  <2>4. WellOrdered(queue') /\ IsMap(queue')
    BY <2>1, <2>2, SetWellOrdered
  <2>5. IsFiniteSet(queue'.keys) /\ Cardinality(queue'.keys) <= MaxSize
    BY <2>1, <2>2, SetBounded, ConstantsAssumption DEF IInv, QueueBounded
  <2> QED BY <2>3, <2>4, <2>5
<1>2. ev \subseteq queue.keys /\ p \notin ev
  BY EvictedQueued
<1> HIDE DEF ev
<1>3. /\ expiresAt' = [expiresAt EXCEPT ![p] = FreshDeadline(p)]
      /\ firstDeadline' = [firstDeadline EXCEPT
                             ![p] = IF @ = Unqueued THEN FreshDeadline(p) ELSE @]
      /\ outcome' = [q \in Packet |-> IF q \in ev THEN "evicted"
                                      ELSE IF q = p THEN "accepted" ELSE outcome[q]]
  BY DEF Enqueue, ev
<1>4. now \in 0..MaxTime
  BY DEF IInv, TypeOK
<1>5. TypeOK'
  <2>1. queue'.keys \in SUBSET Packet
    BY <1>1 DEF IInv, TypeOK
  <2>2. flight' \in [Packet -> Flight]
    BY DEF IInv, TypeOK, Flight, NotFlying
  <2>3. /\ expiresAt' \in [Packet -> Nat]
        /\ firstDeadline' \in [Packet -> Nat \cup {Unqueued}]
    BY <1>3, <1>4, DeadlineType DEF IInv, TypeOK
  <2>4. outcome' \in [Packet -> Outcome]
    BY <1>3 DEF IInv, TypeOK, Outcome
  <2> QED BY <1>1, <2>1, <2>2, <2>3, <2>4 DEF IInv, TypeOK, IsMap
<1>6. QueueBounded'
  BY <1>1 DEF QueueBounded
<1>7. NothingSlipsAway'
  BY <1>1, <1>2, <1>3 DEF IInv, TypeOK, NothingSlipsAway, Flying, NotFlying
<1>8. FlightShape'
  BY DEF IInv, TypeOK, FlightShape, Flying, NotFlying
<1>9. NeverSentBack'
  <2>1. sentTo[p] = {}
    BY DEF IInv, HandedOffMeansSent
  <2> QED BY <2>1 DEF IInv, TypeOK, NeverSentBack, NotFlying
<1>10. HandedOffMeansSent'
  BY <1>2, <1>3 DEF IInv, HandedOffMeansSent, NothingSlipsAway
<1>11. Deadlines'
  BY <1>1, <1>2, <1>3, <1>4, DeadlineType, ConstantsAssumption
     DEF IInv, TypeOK, Deadlines, Rank
<1>12. OnlyRoutineExpires'
  BY <1>2, <1>3 DEF IInv, TypeOK, OnlyRoutineExpires, Rank
<1> QED BY <1>1, <1>5, <1>6, <1>7, <1>8, <1>9, <1>10, <1>11, <1>12 DEF IInv

\* A packet that is not queued starts its sends: floodExcept() finds a next
\* hop or somebody to flood to.
LEMMA LaunchStep ==
  ASSUME IInv, NEW p \in Packet, NEW e \in Peer \cup {NoPeer}, NEW f \in Flight,
         outcome[p] \in {"unseen", "accepted"}, p \notin queue.keys,
         f.phase # "none", f.to # {}, e \notin f.to,
         flight' = [flight EXCEPT ![p] = f],
         outcome' = [outcome EXCEPT ![p] = "accepted"],
         exceptPeer' = [exceptPeer EXCEPT ![p] = e],
         UNCHANGED <<connected, trusted, canRelay, now, queue, expiresAt, sentTo,
                     firstDeadline>>
  PROVE  IInv'
<1>1. TypeOK' /\ IsFiniteSet(queue'.keys) /\ QueueBounded'
  BY DEF IInv, TypeOK, QueueBounded, Outcome
<1>2. NothingSlipsAway'
  BY DEF IInv, TypeOK, NothingSlipsAway, Flying
<1>3. FlightShape'
  BY DEF IInv, TypeOK, FlightShape, Flying
<1>4. NeverSentBack'
  <2>1. sentTo[p] = {}
    BY DEF IInv, HandedOffMeansSent
  <2> QED BY <2>1 DEF IInv, TypeOK, NeverSentBack
<1>5. HandedOffMeansSent'
  BY DEF IInv, TypeOK, HandedOffMeansSent
<1>6. Deadlines' /\ OnlyRoutineExpires'
  BY DEF IInv, TypeOK, Deadlines, OnlyRoutineExpires, Rank
<1> QED BY <1>1, <1>2, <1>3, <1>4, <1>5, <1>6 DEF IInv

\* A send succeeded: the packet leaves the node.
LEMMA HandOffStep ==
  ASSUME IInv, NEW p \in Packet, Flying(p),
         NEW ok \in SUBSET flight[p].to, ok # {}, HandedOff(p, ok)
  PROVE  IInv'
<1>1. flight[p].to \in SUBSET Peer
  BY DEF IInv, TypeOK, Flight
<1>2. TypeOK' /\ IsFiniteSet(queue'.keys) /\ QueueBounded'
  BY <1>1 DEF IInv, TypeOK, QueueBounded, Outcome, HandedOff, env, Flight, NotFlying
<1>3. NothingSlipsAway'
  BY DEF IInv, TypeOK, NothingSlipsAway, Flying, HandedOff, NotFlying
<1>4. FlightShape'
  BY DEF IInv, TypeOK, FlightShape, Flying, HandedOff, NotFlying
<1>5. NeverSentBack' /\ HandedOffMeansSent'
  BY DEF IInv, TypeOK, NeverSentBack, HandedOffMeansSent, HandedOff, NotFlying
<1>6. Deadlines' /\ OnlyRoutineExpires'
  BY DEF IInv, TypeOK, Deadlines, OnlyRoutineExpires, Rank, HandedOff, env
<1> QED BY <1>2, <1>3, <1>4, <1>5, <1>6 DEF IInv

\* Both branches of floodExcept() on a packet that was never accepted.
LEMMA FloodExceptStep ==
  ASSUME IInv, NEW p \in Packet, NEW e \in Peer \cup {NoPeer},
         NEW via \in Peer \cup {NoPeer},
         outcome[p] = "unseen", FloodExcept(p, e, via),
         exceptPeer' = [exceptPeer EXCEPT ![p] = e],
         UNCHANGED <<env, sentTo>>
  PROVE  IInv'
<1> DEFINE f == Launch(via, e, connected)
<1>1. p \notin queue.keys /\ flight[p] = NotFlying
  BY DEF IInv, NothingSlipsAway, FlightShape
<1>2. f \in Flight /\ f.phase # "none" /\ e \notin f.to
  BY DEF Launch, IInv, TypeOK, Flight
<1>3. CASE f.to = {}
  <2>1. Enqueue(p) /\ flight' = [flight EXCEPT ![p] = NotFlying]
    BY <1>1, <1>3 DEF FloodExcept, IInv, TypeOK
  <2> QED BY <1>1, <2>1, EnqueueStep DEF env
<1>4. CASE f.to # {}
  <2>1. /\ flight' = [flight EXCEPT ![p] = f]
        /\ outcome' = [outcome EXCEPT ![p] = "accepted"]
        /\ UNCHANGED <<queue, expiresAt, firstDeadline>>
    BY <1>4 DEF FloodExcept
  <2> HIDE DEF f
  <2> QED BY <1>1, <1>2, <1>4, <2>1, LaunchStep DEF env
<1> QED BY <1>3, <1>4

\* A peer connects and the queue is flushed.
LEMMA FlushStep ==
  ASSUME IInv, NEW peer \in Peer, PeerConnected(peer)
  PROVE  IInv'
<1> DEFINE peers   == connected \cup {peer}
           expired == {p \in queue.keys : expiresAt[p] <= now}
           live    == queue.keys \ expired
           denied  == {p \in live : RelayDeniedFor(p)}
           retried == live \ denied
<1>1. PICK via \in [retried -> Peer \cup {NoPeer}] :
       LET launch == [p \in retried |-> Launch(via[p], exceptPeer[p], peers)]
           nobody == {p \in retried : launch[p].to = {}}
           last   == {p \in nobody : via[p] \in Peer \ peers}
       IN
       /\ queue' = MoveLast(MapDelete(queue, expired \cup (retried \ nobody)), last)
       /\ expiresAt' = [p \in Packet |->
                          IF p \in nobody THEN FreshDeadline(p)
                          ELSE IF p \in denied THEN RequeueDeadline(p)
                          ELSE expiresAt[p]]
       /\ flight' = [p \in Packet |->
                       IF p \in retried \ nobody THEN launch[p] ELSE flight[p]]
  BY DEF PeerConnected
<1> DEFINE launch == [p \in retried |-> Launch(via[p], exceptPeer[p], peers)]
           nobody == {p \in retried : launch[p].to = {}}
           last   == {p \in nobody : via[p] \in Peer \ peers}
           gone   == expired \cup (retried \ nobody)
<1>2. /\ queue' = MoveLast(MapDelete(queue, gone), last)
      /\ expiresAt' = [p \in Packet |-> IF p \in nobody THEN FreshDeadline(p)
                                        ELSE expiresAt[p]]
      /\ flight' = [p \in Packet |->
                      IF p \in retried \ nobody THEN launch[p] ELSE flight[p]]
      /\ outcome' = [p \in Packet |-> IF p \in expired THEN "expired" ELSE outcome[p]]
      /\ connected' = peers
      /\ UNCHANGED <<trusted, canRelay, now, exceptPeer, sentTo, firstDeadline>>
  BY <1>1 DEF PeerConnected, RequeueDeadline
<1>3. /\ expired \subseteq queue.keys /\ retried \subseteq queue.keys
      /\ nobody \subseteq retried /\ last \subseteq nobody
      /\ expired \cap retried = {}
      /\ queue.keys \in SUBSET Packet
  BY DEF IInv, TypeOK
<1>4. \A p \in retried : /\ launch[p] \in Flight
                         /\ launch[p].phase # "none"
                         /\ exceptPeer[p] \notin launch[p].to
  BY DEF Launch, IInv, TypeOK, Flight
<1>5. \A p \in retried \ nobody : launch[p].to # {}
  OBVIOUS
<1>6. /\ \A p \in expired : p \in Packet /\ expiresAt[p] <= now
      /\ now \in 0..MaxTime
  BY DEF IInv, TypeOK
<1> HIDE DEF launch, nobody, last, expired, live, denied, retried
<1>7. /\ queue'.keys = queue.keys \ gone
      /\ WellOrdered(queue') /\ IsMap(queue')
      /\ IsFiniteSet(queue'.keys) /\ Cardinality(queue'.keys) <= MaxSize
  <2> DEFINE d == MapDelete(queue, gone)
  <2>1. WellOrdered(d)
    BY DeleteWellOrdered DEF IInv, TypeOK
  <2>2. d.keys = queue.keys \ gone /\ last \subseteq d.keys
    BY <1>3 DEF MapDelete
  <2>3. WellOrdered(queue') /\ IsMap(queue') /\ queue'.keys = d.keys
    BY <1>2, <2>1, <2>2, MoveLastWellOrdered
  <2>4. IsFiniteSet(queue.keys \ gone) /\ Cardinality(queue.keys \ gone) <= Cardinality(queue.keys)
    BY FS_Subset DEF IInv
  <2>5. Cardinality(queue.keys \ gone) \in Nat /\ Cardinality(queue.keys) \in Nat
    BY <2>4, FS_CardinalityType DEF IInv
  <2>6. /\ IsFiniteSet(queue.keys \ gone)
        /\ Cardinality(queue.keys \ gone) <= MaxSize
    <3>1. Cardinality(queue.keys) <= MaxSize
      BY DEF IInv, QueueBounded
    <3>2. MaxSize \in Nat
      BY ConstantsAssumption
    <3> QED BY <2>4, <2>5, <3>1, <3>2
  <2>7. queue'.keys = queue.keys \ gone
    BY <2>2, <2>3
  <2> QED BY <2>3, <2>6, <2>7
<1>8. TypeOK'
  <2>1. expiresAt' \in [Packet -> Nat]
    BY <1>2, <1>3, <1>6, DeadlineType DEF IInv, TypeOK
  <2>2. flight' \in [Packet -> Flight]
    BY <1>2, <1>4 DEF IInv, TypeOK
  <2>3. outcome' \in [Packet -> Outcome]
    BY <1>2 DEF IInv, TypeOK, Outcome
  <2>4. connected' \in SUBSET Peer
    BY <1>2 DEF IInv, TypeOK
  <2> QED BY <1>2, <1>3, <1>7, <2>1, <2>2, <2>3, <2>4 DEF IInv, TypeOK, IsMap
<1>9. NothingSlipsAway'
  BY <1>2, <1>3, <1>4, <1>5, <1>7 DEF IInv, TypeOK, NothingSlipsAway, Flying
<1>10. FlightShape'
  BY <1>2, <1>4 DEF IInv, TypeOK, FlightShape, Flying
<1>11. NeverSentBack'
  BY <1>2, <1>4 DEF IInv, TypeOK, NeverSentBack
<1>12. HandedOffMeansSent'
  BY <1>2, <1>3 DEF IInv, TypeOK, HandedOffMeansSent, NothingSlipsAway
<1>13. Deadlines'
  <2>1. ASSUME NEW p \in Packet, p \in queue'.keys
        PROVE  firstDeadline[p] # Unqueued /\ firstDeadline[p] <= expiresAt'[p]
    <3>1. p \in queue.keys
      BY <1>7, <2>1
    <3>2. firstDeadline[p] # Unqueued /\ firstDeadline[p] <= expiresAt[p]
      BY <3>1 DEF IInv, Deadlines
    <3>3. CASE p \in nobody
      <4>1. expiresAt'[p] = FreshDeadline(p)
        BY <1>2, <3>3
      <4>2. firstDeadline[p] <= FreshDeadline(p)
        BY <1>6, <3>2, DeadlineType, ConstantsAssumption DEF IInv, TypeOK, Deadlines
      <4> QED BY <3>2, <4>1, <4>2
    <3>4. CASE p \notin nobody
      BY <1>2, <3>2, <3>4
    <3> QED BY <3>3, <3>4
  <2>2. \A p \in Packet :
          firstDeadline[p] # Unqueued =>
            IF Rank(p) = EMERGENCY THEN firstDeadline[p] = Never
            ELSE firstDeadline[p] \in Ttl..(now + Ttl)
    BY DEF IInv, Deadlines
  <2> QED BY <1>2, <2>1, <2>2 DEF Deadlines, Rank
<1>14. OnlyRoutineExpires'
  <2>1. \A p \in expired : /\ Rank(p) # EMERGENCY
                           /\ firstDeadline[p] >= Ttl
                           /\ firstDeadline[p] <= now
    BY <1>3, <1>6, DeadlineType, ConstantsAssumption
       DEF IInv, TypeOK, Deadlines
  <2> QED BY <1>2, <2>1 DEF IInv, TypeOK, OnlyRoutineExpires, Rank
<1> QED BY <1>7, <1>8, <1>9, <1>10, <1>11, <1>12, <1>13, <1>14 DEF IInv, QueueBounded

\* The initial state satisfies the inductive invariant.
LEMMA InitIInv == Init => IInv
<1> SUFFICES ASSUME Init PROVE IInv
  OBVIOUS
<1>1. queue.keys = {} /\ queue.older = {}
  BY DEF Init, EmptyMap
<1>2. IsFiniteSet(queue.keys) /\ Cardinality(queue.keys) = 0
  BY <1>1, FS_EmptySet
<1>3. WellOrdered(queue)
  BY <1>1 DEF WellOrdered
<1>4. TypeOK
  BY <1>1, <1>3, ConstantsAssumption
     DEF Init, TypeOK, EmptyMap, Flight, NotFlying, Outcome, Unqueued
<1>5. QueueBounded
  BY <1>2, ConstantsAssumption DEF QueueBounded
<1>6. NothingSlipsAway /\ FlightShape
  BY <1>1 DEF Init, NothingSlipsAway, FlightShape, Flying, NotFlying
<1>7. NeverSentBack /\ HandedOffMeansSent
  BY DEF Init, NeverSentBack, HandedOffMeansSent, NotFlying
<1>8. Deadlines /\ OnlyRoutineExpires
  BY <1>1 DEF Init, Deadlines, OnlyRoutineExpires
<1> QED BY <1>2, <1>4, <1>5, <1>6, <1>7, <1>8 DEF IInv

\* Every step preserves the inductive invariant.
LEMMA NextIInv == IInv /\ [Next]_vars => IInv'
<1> SUFFICES ASSUME IInv, [Next]_vars PROVE IInv'
  OBVIOUS
<1>1. ASSUME NEW p \in Packet, Originate(p) PROVE IInv'
  <2>1. PICK via \in Peer \cup {NoPeer} : FloodExcept(p, NoPeer, via)
    BY <1>1 DEF Originate
  <2> QED BY <1>1, <2>1, FloodExceptStep DEF Originate
<1>2. ASSUME NEW p \in Packet, NEW from \in connected, RelayAllowed(p, from)
      PROVE  IInv'
  <2>1. PICK via \in Peer \cup {NoPeer} : FloodExcept(p, from, via)
    BY <1>2 DEF RelayAllowed
  <2>2. from \in Peer \cup {NoPeer}
    BY DEF IInv, TypeOK
  <2> QED BY <1>2, <2>1, <2>2, FloodExceptStep DEF RelayAllowed
<1>3. ASSUME NEW p \in Packet, NEW from \in connected, RelayDenied(p, from)
      PROVE  IInv'
  <2>1. from \in Peer \cup {NoPeer}
    BY DEF IInv, TypeOK
  <2>2. p \notin queue.keys /\ flight[p] = NotFlying
    BY <1>3 DEF RelayDenied, IInv, NothingSlipsAway, FlightShape
  <2>3. flight' = [flight EXCEPT ![p] = NotFlying]
    BY <1>3, <2>2 DEF RelayDenied, IInv, TypeOK
  <2> QED BY <1>3, <2>1, <2>2, <2>3, EnqueueStep DEF RelayDenied, env
<1>4. ASSUME NEW p \in Packet, RoutedSent(p) PROVE IInv'
  <2>1. Flying(p) /\ flight[p].to # {}
    BY <1>4 DEF RoutedSent, Flying, IInv, NothingSlipsAway
  <2> QED BY <1>4, <2>1, HandOffStep DEF RoutedSent
<1>5. ASSUME NEW p \in Packet, RoutedFailed(p) PROVE IInv'
  <2> DEFINE to == connected \ {exceptPeer[p]}
  <2>1. outcome[p] = "accepted" /\ p \notin queue.keys
    BY <1>5 DEF RoutedFailed, IInv, NothingSlipsAway, Flying
  <2>2. /\ exceptPeer[p] \in Peer \cup {NoPeer}
        /\ exceptPeer' = [exceptPeer EXCEPT ![p] = exceptPeer[p]]
    BY <1>5 DEF RoutedFailed, IInv, TypeOK
  <2>3. CASE to = {}
    BY <1>5, <2>1, <2>2, <2>3, EnqueueStep DEF RoutedFailed, env
  <2>4. CASE to # {}
    <3> DEFINE f == [phase |-> "flood", to |-> to]
    <3>1. f \in Flight /\ f.phase # "none" /\ f.to # {} /\ exceptPeer[p] \notin f.to
      BY <2>4 DEF Flight, IInv, TypeOK
    <3>2. /\ flight' = [flight EXCEPT ![p] = f]
          /\ outcome' = [outcome EXCEPT ![p] = "accepted"]
      BY <1>5, <2>1, <2>4 DEF RoutedFailed, IInv, TypeOK
    <3> HIDE DEF f
    <3> QED BY <1>5, <2>1, <2>2, <2>4, <3>1, <3>2, LaunchStep DEF RoutedFailed, env
  <2> QED BY <2>3, <2>4
<1>6. ASSUME NEW p \in Packet, FloodSent(p) PROVE IInv'
  <2>1. Flying(p)
    BY <1>6 DEF FloodSent, Flying
  <2>2. PICK ok \in (SUBSET flight[p].to) \ {{}} : HandedOff(p, ok)
    BY <1>6 DEF FloodSent
  <2>3. ok \in SUBSET flight[p].to /\ ok # {}
    OBVIOUS
  <2> QED BY <2>1, <2>2, <2>3, HandOffStep
<1>7. ASSUME NEW p \in Packet, FloodFailed(p) PROVE IInv'
  <2>1. outcome[p] = "accepted" /\ p \notin queue.keys
    BY <1>7 DEF FloodFailed, IInv, NothingSlipsAway, Flying
  <2>2. /\ exceptPeer[p] \in Peer \cup {NoPeer}
        /\ exceptPeer' = [exceptPeer EXCEPT ![p] = exceptPeer[p]]
    BY <1>7 DEF FloodFailed, IInv, TypeOK
  <2> QED BY <1>7, <2>1, <2>2, EnqueueStep DEF FloodFailed, env
<1>8. ASSUME NEW peer \in Peer, PeerConnected(peer) PROVE IInv'
  BY <1>8, FlushStep
<1>9. ASSUME NEW peer \in Peer, PeerDisconnected(peer) PROVE IInv'
  BY <1>9 DEF PeerDisconnected, IInv, TypeOK, QueueBounded, NothingSlipsAway,
     FlightShape, NeverSentBack, HandedOffMeansSent, Deadlines, OnlyRoutineExpires,
     Flying, Rank
<1>10. CASE GateChanges
  <2>1. trusted' \in SUBSET Peer /\ canRelay' \in BOOLEAN
    BY <1>10 DEF GateChanges, IInv, TypeOK
  <2> QED BY <1>10, <2>1 DEF GateChanges, IInv, TypeOK, QueueBounded, NothingSlipsAway,
     FlightShape, NeverSentBack, HandedOffMeansSent, Deadlines, OnlyRoutineExpires,
     Flying, Rank
<1>11. CASE Tick
  <2>1. now \in Nat /\ now' = now + 1 /\ now' \in 0..MaxTime
    BY <1>11, ConstantsAssumption DEF Tick, IInv, TypeOK
  <2>2. TypeOK' /\ QueueBounded' /\ NothingSlipsAway' /\ FlightShape'
        /\ NeverSentBack' /\ HandedOffMeansSent'
    BY <1>11, <2>1 DEF Tick, IInv, TypeOK, QueueBounded, NothingSlipsAway,
       FlightShape, NeverSentBack, HandedOffMeansSent, Flying
  <2>3. \A d \in Nat \cup {Unqueued} :
          /\ d \in Ttl..(now + Ttl) => d \in Ttl..(now' + Ttl)
          /\ d <= now => d <= now'
    BY <2>1, ConstantsAssumption DEF Unqueued
  <2>4. \A p \in Packet : firstDeadline[p] \in Nat \cup {Unqueued}
    BY DEF IInv, TypeOK
  <2>5. Deadlines'
    BY <1>11, <2>3, <2>4 DEF Tick, IInv, Deadlines, Rank
  <2>6. OnlyRoutineExpires'
    BY <1>11, <2>3, <2>4 DEF Tick, IInv, OnlyRoutineExpires, Rank
  <2> QED BY <1>11, <2>2, <2>5, <2>6 DEF Tick, IInv
<1>12. CASE UNCHANGED vars
  BY <1>12 DEF vars, IInv, TypeOK, QueueBounded, NothingSlipsAway,
     FlightShape, NeverSentBack, HandedOffMeansSent, Deadlines, OnlyRoutineExpires,
     Flying, Rank
<1> QED BY <1>1, <1>2, <1>3, <1>4, <1>5, <1>6, <1>7, <1>8, <1>9, <1>10, <1>11, <1>12
     DEF Next

\* Every reachable state satisfies the inductive invariant.
THEOREM Invariance == Spec => []IInv
<1> QED BY InitIInv, NextIInv, PTL DEF Spec

\* Every variable keeps its type, and the queue's insertion order stays total.
THEOREM TypeCorrect == Spec => []TypeOK
<1>1. IInv => TypeOK
  BY DEF IInv
<1> QED BY <1>1, Invariance, PTL

\* The queue never exceeds maxPendingDeliveries.
THEOREM BoundHolds == Spec => []QueueBounded
<1>1. IInv => QueueBounded
  BY DEF IInv
<1> QED BY <1>1, Invariance, PTL

\* No packet is lost, duplicated or held twice between floodExcept(), the
\* queue and the flush.
THEOREM NothingIsLost == Spec => []NothingSlipsAway
<1>1. IInv => NothingSlipsAway
  BY DEF IInv
<1> QED BY <1>1, Invariance, PTL

\* No send, first or retried, goes back to the peer a packet came from.
THEOREM NoEcho == Spec => []NeverSentBack
<1>1. IInv => NeverSentBack
  BY DEF IInv
<1> QED BY <1>1, Invariance, PTL

\* The clock only ever drops routine packets, and none before its deadline.
THEOREM EmergencyOutlivesClock == Spec => []OnlyRoutineExpires
<1>1. IInv => OnlyRoutineExpires
  BY DEF IInv
<1> QED BY <1>1, Invariance, PTL

\* Every send of a relayed packet starts with the relay gates open.
THEOREM NoWayAroundTheGates == Spec => GateHonoured
<1> DEFINE A == \A p \in Packet :
                  ~Flying(p) /\ Flying(p)' /\ exceptPeer'[p] # NoPeer
                    => RelayGate(exceptPeer'[p])
<1>1. IInv /\ [Next]_vars => [A]_vars
  <2> SUFFICES ASSUME IInv, Next, NEW q \in Packet, ~Flying(q), Flying(q)',
                      exceptPeer'[q] # NoPeer
               PROVE  RelayGate(exceptPeer'[q])
    BY DEF vars
  <2> USE DEF Flying
  <2>1. ASSUME NEW p \in Packet, Originate(p) PROVE RelayGate(exceptPeer'[q])
    BY <2>1 DEF Originate, FloodExcept, Enqueue, IInv, TypeOK
  <2>2. ASSUME NEW p \in Packet, NEW from \in connected, RelayAllowed(p, from)
        PROVE  RelayGate(exceptPeer'[q])
    BY <2>2 DEF RelayAllowed, FloodExcept, Enqueue, IInv, TypeOK
  <2>3. ASSUME NEW p \in Packet, NEW from \in connected, RelayDenied(p, from)
        PROVE  RelayGate(exceptPeer'[q])
    BY <2>3 DEF RelayDenied
  <2>4. ASSUME NEW p \in Packet,
               RoutedSent(p) \/ RoutedFailed(p) \/ FloodSent(p) \/ FloodFailed(p)
        PROVE  RelayGate(exceptPeer'[q])
    BY <2>4 DEF RoutedSent, RoutedFailed, FloodSent, FloodFailed, HandedOff, NotFlying,
       IInv, TypeOK
  <2>5. ASSUME NEW peer \in Peer, PeerConnected(peer) PROVE RelayGate(exceptPeer'[q])
    BY <2>5 DEF PeerConnected, RelayDeniedFor, IInv, TypeOK
  <2>6. ASSUME NEW peer \in Peer, PeerDisconnected(peer)
        PROVE  RelayGate(exceptPeer'[q])
    BY <2>6 DEF PeerDisconnected
  <2>7. CASE GateChanges \/ Tick
    BY <2>7 DEF GateChanges, Tick
  <2> QED BY <2>1, <2>2, <2>3, <2>4, <2>5, <2>6, <2>7 DEF Next
<1> QED BY <1>1, Invariance, PTL DEF Spec, GateHonoured

\* What enqueue() evicts is the least urgent packet held, the oldest of those,
\* and only from a full queue.
LEMMA EvictedIsFirst ==
  ASSUME IInv, NEW p \in Packet, NEW v \in EvictedBy(queue, p, Score, MaxSize)
  PROVE  /\ v \in queue.keys
         /\ Cardinality(queue.keys) = MaxSize
         /\ \A q \in queue.keys \ {v} :
              Rank(q) < Rank(v) \/ (Rank(q) = Rank(v) /\ <<v, q>> \in queue.older)
<1>1. Cardinality(queue.keys) >= MaxSize /\ v = EvictionCandidate(queue, Score)
  BY DEF EvictedBy
<1>2. Cardinality(queue.keys) \in Nat /\ Cardinality(queue.keys) <= MaxSize
  BY FS_CardinalityType DEF IInv, QueueBounded
<1>3. queue.keys # {} /\ queue.keys \subseteq Packet
  BY <1>1, FS_EmptySet, ConstantsAssumption DEF IInv, TypeOK
<1>4. WellOrdered(queue) /\ \A k \in queue.keys : Score[k] \in -5..0
  BY RankType DEF IInv, TypeOK
<1>5. v \in queue.keys /\ \A q \in queue.keys \ {v} : EvictedBefore(queue, Score, v, q)
  BY <1>1, <1>3, <1>4, CandidateIsFirst
<1>6. ASSUME NEW q \in queue.keys \ {v}
      PROVE  Rank(q) < Rank(v) \/ (Rank(q) = Rank(v) /\ <<v, q>> \in queue.older)
  <2>1. Score[v] = -Rank(v) /\ Score[q] = -Rank(q) /\ Rank(v) \in 0..5 /\ Rank(q) \in 0..5
    BY <1>3, <1>5, RankType DEF Score
  <2>2. Score[v] < Score[q] \/ (Score[v] = Score[q] /\ <<v, q>> \in queue.older)
    BY <1>5 DEF EvictedBefore
  <2> QED BY <2>1, <2>2
<1> QED BY <1>1, <1>2, <1>5, <1>6, ConstantsAssumption

\* Memory pressure removes the least urgent packet held, the oldest of those, in
\* whatever order floods fail, packets arrive and peers connect.
THEOREM EvictionOrder == Spec => EvictsLeastUrgentOldest
<1> DEFINE First(v) == /\ v \in queue.keys
                       /\ Cardinality(queue.keys) = MaxSize
                       /\ \A q \in queue.keys \ {v} :
                            Rank(q) < Rank(v) \/ (Rank(q) = Rank(v) /\ <<v, q>> \in queue.older)
           A == \A v \in Packet : outcome'[v] = "evicted" /\ outcome[v] # "evicted" => First(v)
<1>1. IInv /\ [Next]_vars => [A]_vars
  <2> SUFFICES ASSUME IInv, Next, NEW v \in Packet, outcome'[v] = "evicted", outcome[v] # "evicted"
               PROVE  First(v)
    BY DEF vars
  <2> HIDE DEF First
  <2>1. ASSUME NEW p \in Packet, Enqueue(p) PROVE First(v)
    <3>1. v \in EvictedBy(queue, p, Score, MaxSize)
      BY <2>1 DEF Enqueue
    <3> QED BY <3>1, EvictedIsFirst DEF First
  <2>2. ASSUME NEW p \in Packet, NEW e, NEW via, FloodExcept(p, e, via) PROVE First(v)
    <3>1. Enqueue(p) \/ outcome' = [outcome EXCEPT ![p] = "accepted"]
      BY <2>2 DEF FloodExcept
    <3> QED BY <2>1, <3>1 DEF IInv, TypeOK
  <2>3. ASSUME NEW p \in Packet, Originate(p) PROVE First(v)
    BY <2>2, <2>3 DEF Originate
  <2>4. ASSUME NEW p \in Packet, NEW from \in connected, RelayAllowed(p, from) PROVE First(v)
    BY <2>2, <2>4 DEF RelayAllowed
  <2>5. ASSUME NEW p \in Packet, NEW from \in connected, RelayDenied(p, from) PROVE First(v)
    BY <2>1, <2>5 DEF RelayDenied
  <2>6. ASSUME NEW p \in Packet, RoutedFailed(p) \/ FloodFailed(p) PROVE First(v)
    BY <2>1, <2>6 DEF RoutedFailed, FloodFailed
  <2>7. ASSUME NEW p \in Packet, RoutedSent(p) \/ FloodSent(p) PROVE FALSE
    BY <2>7 DEF RoutedSent, FloodSent, HandedOff, IInv, TypeOK
  <2>8. ASSUME NEW peer \in Peer, PeerConnected(peer) PROVE FALSE
    <3>1. \E S : outcome' = [p \in Packet |-> IF p \in S THEN "expired" ELSE outcome[p]]
      BY <2>8 DEF PeerConnected
    <3> QED BY <3>1
  <2>9. ASSUME NEW peer \in Peer, PeerDisconnected(peer) PROVE FALSE
    BY <2>9 DEF PeerDisconnected
  <2>10. CASE GateChanges \/ Tick
    BY <2>10 DEF GateChanges, Tick
  <2> QED BY <2>3, <2>4, <2>5, <2>6, <2>7, <2>8, <2>9, <2>10 DEF Next
<1> QED BY <1>1, Invariance, PTL DEF Spec, EvictsLeastUrgentOldest

\* A packet kept back at a relay gate expires at its deadline, however often it is
\* drained and put back: it stays with that deadline, expires, or is evicted.
THEOREM DeniedOnSchedule == Spec => DeniedExpiresOnSchedule
<1> DEFINE Kept(p) == IF p \in queue'.keys THEN expiresAt'[p] = expiresAt[p]
                      ELSE outcome'[p] = "evicted" \/ expiresAt[p] <= now
           A == \A p \in queue.keys : exceptPeer[p] # NoPeer /\ ~RelayGate(exceptPeer[p]) => Kept(p)
<1>1. IInv /\ [Next]_vars => [A]_vars
  <2> SUFFICES ASSUME IInv, Next, NEW p \in queue.keys, exceptPeer[p] # NoPeer,
                      ~RelayGate(exceptPeer[p])
               PROVE  Kept(p)
    BY DEF vars
  <2>0. p \in Packet /\ outcome[p] = "accepted" /\ ~Flying(p)
    BY DEF IInv, TypeOK, NothingSlipsAway
  <2>1. ASSUME UNCHANGED <<queue, expiresAt>> PROVE Kept(p)
    BY <2>1
  <2>2. ASSUME NEW q \in Packet, q # p, Enqueue(q) PROVE Kept(p)
    <3> DEFINE ev == EvictedBy(queue, q, Score, MaxSize)
    <3>1. /\ queue'.keys = (IF q \in queue.keys THEN queue.keys
                            ELSE (queue.keys \ ev) \cup {q})
          /\ expiresAt' = [expiresAt EXCEPT ![q] = FreshDeadline(q)]
          /\ outcome' = [r \in Packet |-> IF r \in ev THEN "evicted"
                                          ELSE IF r = q THEN "accepted" ELSE outcome[r]]
      BY <2>2, ConstantsAssumption DEF Enqueue, MapSet
    <3> HIDE DEF ev
    <3> QED BY <2>0, <2>2, <3>1 DEF IInv, TypeOK
  <2> HIDE DEF Kept
  <2>3. ASSUME NEW q \in Packet, q # p, NEW e, NEW via, FloodExcept(q, e, via) PROVE Kept(p)
    BY <2>1, <2>2, <2>3 DEF FloodExcept
  <2>4. ASSUME NEW q \in Packet, Originate(q) PROVE Kept(p)
    BY <2>0, <2>3, <2>4 DEF Originate
  <2>5. ASSUME NEW q \in Packet, NEW from \in connected, RelayAllowed(q, from) PROVE Kept(p)
    BY <2>0, <2>3, <2>5 DEF RelayAllowed
  <2>6. ASSUME NEW q \in Packet, NEW from \in connected, RelayDenied(q, from) PROVE Kept(p)
    BY <2>0, <2>2, <2>6 DEF RelayDenied
  <2>7. ASSUME NEW q \in Packet, RoutedFailed(q) \/ FloodFailed(q) PROVE Kept(p)
    BY <2>0, <2>1, <2>2, <2>7 DEF RoutedFailed, FloodFailed, Flying
  <2>8. ASSUME NEW q \in Packet, RoutedSent(q) \/ FloodSent(q) PROVE Kept(p)
    BY <2>1, <2>8 DEF RoutedSent, FloodSent, HandedOff
  <2>9. ASSUME NEW peer \in Peer, PeerConnected(peer) PROVE Kept(p)
    <3> DEFINE expired == {r \in queue.keys : expiresAt[r] <= now}
               denied  == {r \in queue.keys \ expired : RelayDeniedFor(r)}
               retried == (queue.keys \ expired) \ denied
    <3>1. \E nobody \in SUBSET retried, last \in SUBSET retried :
            /\ queue' = MoveLast(MapDelete(queue, expired \cup (retried \ nobody)), last)
            /\ expiresAt' = [r \in Packet |-> IF r \in nobody THEN FreshDeadline(r)
                                              ELSE IF r \in denied THEN RequeueDeadline(r)
                                              ELSE expiresAt[r]]
      <4>1. PICK via \in [retried -> Peer \cup {NoPeer}] :
              LET launch == [r \in retried |-> Launch(via[r], exceptPeer[r], connected \cup {peer})]
                  nobody == {r \in retried : launch[r].to = {}}
                  last   == {r \in nobody : via[r] \in Peer \ (connected \cup {peer})}
              IN
              /\ queue' = MoveLast(MapDelete(queue, expired \cup (retried \ nobody)), last)
              /\ expiresAt' = [r \in Packet |-> IF r \in nobody THEN FreshDeadline(r)
                                                ELSE IF r \in denied THEN RequeueDeadline(r)
                                                ELSE expiresAt[r]]
        BY <2>9 DEF PeerConnected
      <4> DEFINE launch == [r \in retried |-> Launch(via[r], exceptPeer[r], connected \cup {peer})]
                 nobody == {r \in retried : launch[r].to = {}}
                 last   == {r \in nobody : via[r] \in Peer \ (connected \cup {peer})}
      <4>2. nobody \in SUBSET retried /\ last \in SUBSET retried
        OBVIOUS
      <4> QED BY <4>1, <4>2
    <3>2. p \notin retried
      BY DEF RelayDeniedFor
    <3> HIDE DEF retried, denied
    <3>3. p \in queue'.keys \/ p \in expired
      BY <3>1, <3>2 DEF MoveLast, MapDelete
    <3>4. expiresAt'[p] = expiresAt[p]
      BY <2>0, <3>1, <3>2 DEF RequeueDeadline
    <3> QED BY <3>3, <3>4 DEF Kept
  <2>10. ASSUME NEW peer \in Peer, PeerDisconnected(peer) PROVE Kept(p)
    BY <2>1, <2>10 DEF PeerDisconnected
  <2>11. CASE GateChanges \/ Tick
    BY <2>1, <2>11 DEF GateChanges, Tick
  <2> QED BY <2>4, <2>5, <2>6, <2>7, <2>8, <2>9, <2>10, <2>11 DEF Next
<1> QED BY <1>1, Invariance, PTL DEF Spec, DeniedExpiresOnSchedule

-----------------------------------------------------------------------------
(* The simulated radio links, beside the other components of the mesh. *)

\* The links are sound in a behaviour about them.
LinkSound == which = "link" => Link!LinkInv

\* Once nothing is on the air two simulated nodes agree on their connection, and send()
\* can use what the handlers were told, for any nodes, limits and number of connects.
THEOREM RadioEndsAgree == MCSpec => []LinkEndsAgree
<1>1. MCInit => LinkSound
  BY Link!LinkStart DEF MCInit, LinkSound
<1>2. LinkSound /\ [MCNext]_mcVars => LinkSound'
  <2> SUFFICES ASSUME LinkSound, [MCNext]_mcVars, which' = "link"
               PROVE  Link!LinkInv'
    BY DEF LinkSound
  <2>1. which = "link" /\ [Link!Next]_(Link!vars)
    BY DEF MCNext, mcVars, linkVars, Link!vars
  <2> QED BY <2>1, Link!LinkSteps DEF LinkSound
<1>3. LinkSound => LinkEndsAgree
  BY Link!LinkMeans DEF LinkEndsAgree, LinkSound
<1> QED BY <1>1, <1>2, <1>3, PTL DEF MCSpec

-----------------------------------------------------------------------------
(***************************************************************************)
(* Reading a list: a set of naturals has a least element, so a step that   *)
(* breaks a property for the first time can be looked at by itself.        *)
(***************************************************************************)

LEMMA LeastNat ==
  ASSUME NEW T, T \subseteq Nat, T # {}
  PROVE  \E x \in T : \A y \in T : x <= y
<1> DEFINE R == OpToRel(<, Nat)
<1>1. IsWellFoundedOn(R, Nat)
  BY NatLessThanWellFounded
<1>2. R = {ss \in Nat \X Nat : ss[1] < ss[2]}
  BY DEF OpToRel
<1> HIDE DEF R
<1>3. PICK x \in T : \A y \in T : <<y, x>> \notin R
  BY <1>1, WFMin
<1>4. \A y \in T : ~(y < x)
  BY <1>2, <1>3
<1> QED BY <1>3, <1>4

\* A list is read from its first announcement to its last: what each of them keeps,
\* the whole list keeps.
LEMMA ListRead ==
  ASSUME NEW n, NEW anns, Len(anns) \in Nat, NEW G, Msg!Known(n) \in G,
         \A s \in G : \A i \in 1 .. Len(anns) : Msg!Accept(n, s, anns[i]) \in G
  PROVE  /\ Msg!Learning(n, anns)[Len(anns)] \in G
         /\ Len(anns) = 1 => Msg!Learning(n, anns)[Len(anns)] = Msg!Accept(n, Msg!Known(n), anns[1])
<1> DEFINE L == Len(anns)
           Step(s, i) == Msg!Accept(n, s, anns[i])
           Solves(f, k) == f = [i \in 0 .. k |-> IF i = 0 THEN Msg!Known(n) ELSE Step(f[i - 1], i)]
           Unsolved == {k \in 0 .. L : ~ \E f \in [0 .. k -> G] : Solves(f, k)}
           st == Msg!Learning(n, anns)
<1>1. st = CHOOSE f : Solves(f, L)
  BY DEF Msg!Learning
<1>2. \A s \in G : \A i \in 1 .. L : Step(s, i) \in G
  OBVIOUS
<1> HIDE DEF Step, st, L
<1>3. L \in Nat
  BY DEF L
<1>4. Unsolved = {}
  <2> SUFFICES ASSUME Unsolved # {} PROVE FALSE
    OBVIOUS
  <2>0. Unsolved \subseteq Nat
    BY <1>3
  <2>1. PICK k \in Unsolved : \A y \in Unsolved : k <= y
    <3> HIDE DEF Unsolved
    <3> QED BY <2>0, LeastNat
  <2>2. CASE k = 0
    <3> DEFINE f == [i \in 0 .. 0 |-> Msg!Known(n)]
    <3>1. f \in [0 .. 0 -> G] /\ Solves(f, 0)
      OBVIOUS
    <3> QED BY <2>1, <2>2, <3>1
  <2>3. CASE k # 0
    <3>0. k \in 1 .. L /\ k - 1 \in 0 .. L /\ ~(k <= k - 1)
      BY <1>3, <2>1, <2>3
    <3>1. k - 1 \in 0 .. L /\ k - 1 \notin Unsolved /\ k \in 1 .. L
      <4> HIDE DEF Unsolved
      <4> QED BY <2>1, <3>0
    <3>2. PICK f \in [0 .. k - 1 -> G] : Solves(f, k - 1)
      BY <3>1
    <3> DEFINE g == [i \in 0 .. k |-> IF i = k THEN Step(f[k - 1], k) ELSE f[i]]
    <3>3. Step(f[k - 1], k) \in G
      BY <1>2, <3>1, <3>2
    <3>4. g \in [0 .. k -> G]
      BY <3>1, <3>3
    <3>5. \A i \in 0 .. k : g[i] = IF i = 0 THEN Msg!Known(n) ELSE Step(g[i - 1], i)
      <4> TAKE i \in 0 .. k
      <4>1. CASE i = k
        BY <3>1, <4>1
      <4>2. CASE i # k
        <5>1. i \in 0 .. k - 1 /\ (i # 0 => i - 1 \in 0 .. k - 1 /\ i - 1 # k)
          BY <3>1, <4>2
        <5>2. f[i] = IF i = 0 THEN Msg!Known(n) ELSE Step(f[i - 1], i)
          BY <3>2, <5>1
        <5>3. i - 1 \in 0 .. k \/ i = 0
          BY <5>1, <3>1
        <5> QED BY <4>2, <5>1, <5>2, <5>3
      <4> QED BY <4>1, <4>2
    <3>6. Solves(g, k)
      BY <3>5
    <3> HIDE DEF g
    <3> QED BY <2>1, <3>4, <3>6
  <2> QED BY <2>2, <2>3
<1>5. Solves(st, L)
  <2>1. \E f : Solves(f, L)
    BY <1>3, <1>4
  <2> QED BY <1>1, <2>1
<1>6. \A i \in 0 .. L : st[i] = IF i = 0 THEN Msg!Known(n) ELSE Step(st[i - 1], i)
  BY <1>5
<1> HIDE DEF Unsolved, Solves
<1>7. \A i \in 0 .. L : st[i] \in G
  <2> DEFINE Bad == {i \in 0 .. L : st[i] \notin G}
  <2> SUFFICES ASSUME Bad # {} PROVE FALSE
    OBVIOUS
  <2>0. Bad \subseteq Nat
    BY <1>3
  <2>1. PICK k \in Bad : \A y \in Bad : k <= y
    <3> HIDE DEF Bad
    <3> QED BY <2>0, LeastNat
  <2>2. k # 0
    BY <1>3, <1>6, <2>1
  <2>3. k - 1 \in 0 .. L /\ k \in 1 .. L /\ k - 1 \notin Bad
    BY <1>3, <2>1, <2>2
  <2>4. st[k - 1] \in G
    BY <2>3
  <2>5. st[k] \in G
    BY <1>2, <1>6, <2>1, <2>2, <2>3, <2>4
  <2> QED BY <2>1, <2>5
<1>8. L = 1 => st[L] = Step(Msg!Known(n), 1)
  BY <1>3, <1>6
<1> QED BY <1>3, <1>7, <1>8 DEF Step, st, L

-----------------------------------------------------------------------------
(***************************************************************************)
(* Keys and messages, for any nodes, administrators, connections, letters, *)
(* directory bound and faults.                                             *)
(***************************************************************************)

\* The directories a node may hold: not itself, one key of everyone while nobody
\* has restarted, everyone verified while nobody is forgotten.
Books(n) ==
  {s \in [map : Msg!Directory, key : [Users -> Nat], ver : SUBSET Users, new : SUBSET Users] :
     /\ n \notin s.map.keys
     /\ m_restarts = 0 => \A m \in s.map.keys : s.key[m] = 1
     /\ m_forgets = 0 => s.map.keys \subseteq s.ver}

Genuine(ann) == ann \in Msg!Announced /\ (m_restarts = 0 => ann.key = 1)

\* acceptIdentityAnnouncement() keeps a directory one of these, and the sender of an
\* announcement is listed after it.
LEMMA AcceptKeeps ==
  ASSUME NEW n \in Users, NEW s \in Books(n), NEW ann, Genuine(ann)
  PROVE  /\ Msg!Accept(n, s, ann) \in Books(n)
         /\ ann.id # n => ann.id \in Msg!Accept(n, s, ann).map.keys
<1> DEFINE score == Msg!TrustRank(n, s.ver)
           r == Msg!MapSet(s.map, ann.id, score, MaxPeers)
           t == Msg!Accept(n, s, ann)
<1>1. s.map \in Msg!Directory /\ s.key \in [Users -> Nat] /\ s.ver \in SUBSET Users
      /\ s.new \in SUBSET Users /\ ann.id \in Users /\ ann.key \in Nat
      /\ MaxPeers \in Nat \ {0}
  BY MsgConstants DEF Books, Genuine, Msg!Announced, Msg!MessagingAssumption
<1>2. CASE ann.id = n \/ ann.id \in s.map.keys
  BY <1>2 DEF Msg!Accept
<1>3. CASE ann.id # n /\ ann.id \notin s.map.keys
  <2>1. /\ r.keys \subseteq s.map.keys \cup {ann.id} /\ ann.id \in r.keys
        /\ r \in Msg!Directory
    BY <1>1, <1>3 DEF Msg!MapSet, Msg!OrderOn, Msg!Directory
  <2>2. t = [map |-> r, key |-> [s.key EXCEPT ![ann.id] = ann.key],
             ver |-> s.ver \cup {ann.id}, new |-> s.new \cup {ann.id}]
    BY <1>3 DEF Msg!Accept, Msg!MarkVerified
  <2> HIDE DEF r, t
  <2>3. t \in [map : Msg!Directory, key : [Users -> Nat], ver : SUBSET Users, new : SUBSET Users]
    BY <1>1, <2>1, <2>2
  <2>4. t.map = r /\ t.key = [s.key EXCEPT ![ann.id] = ann.key] /\ t.ver = s.ver \cup {ann.id}
    BY <2>2
  <2>5. /\ n \notin t.map.keys
        /\ m_restarts = 0 => \A m \in t.map.keys : t.key[m] = 1
        /\ m_forgets = 0 => t.map.keys \subseteq t.ver
    BY <1>1, <1>3, <2>1, <2>4 DEF Books, Genuine, Msg!Directory
  <2>6. ann.id \in t.map.keys
    BY <2>1, <2>4
  <2> QED BY <2>3, <2>5, <2>6 DEF Books, t
<1> QED BY <1>2, <1>3

BooksSound ==
  /\ m_dir \in [Users -> Msg!Directory] /\ m_keyOf \in [Users -> [Users -> Nat]]
  /\ m_verified \in [Users -> SUBSET Users]
  /\ \A n \in Users :
       /\ n \notin m_dir[n].keys
       /\ m_restarts = 0 => \A m \in m_dir[n].keys : m_keyOf[n][m] = 1
       /\ m_forgets = 0 => m_dir[n].keys \subseteq m_verified[n]

LEMMA MessagesBooks ==
  ASSUME Msg!MessagesInv
  PROVE  BooksSound
BY DEF Msg!MessagesInv, Msg!BookTypes, Msg!NobodyListsItself, Msg!OneKey, BooksSound

\* A list that is read leaves every directory as it should be; a sender that tells
\* its own key is listed afterwards.
LEMMA LearnKeeps ==
  ASSUME BooksSound, NEW n \in Users, NEW anns \in Seq(Msg!Announced),
         m_restarts = 0 => \A i \in DOMAIN anns : anns[i].key = 1,
         Msg!Learn(n, anns), UNCHANGED <<m_restarts, m_forgets>>
  PROVE  /\ BooksSound'
         /\ Len(anns) = 1 /\ anns[1].id # n => anns[1].id \in m_dir'[n].keys
<1> DEFINE st == Msg!Learning(n, anns)[Len(anns)]
           held == Msg!Known(n)
<1>1. held \in Books(n)
  BY DEF BooksSound, Books, Msg!Known
<1>2. Len(anns) \in Nat /\ \A i \in 1 .. Len(anns) : Genuine(anns[i])
  BY DEF Genuine
<1>3. \A s \in Books(n) : \A i \in 1 .. Len(anns) : Msg!Accept(n, s, anns[i]) \in Books(n)
  BY <1>2, AcceptKeeps
<1>4. st \in Books(n)
  BY <1>1, <1>2, <1>3, ListRead
<1>5. Len(anns) = 1 => st = Msg!Accept(n, held, anns[1])
  BY <1>1, <1>2, <1>3, ListRead
<1>6. Len(anns) = 1 /\ anns[1].id # n => anns[1].id \in st.map.keys
  <2>1. Len(anns) = 1 => Genuine(anns[1])
    BY <1>2
  <2> QED BY <1>1, <1>5, <2>1, AcceptKeeps
<1>7. /\ m_dir' = [m_dir EXCEPT ![n] = st.map]
      /\ m_keyOf' = [m_keyOf EXCEPT ![n] = [m \in Users |-> IF m \in st.map.keys THEN st.key[m] ELSE 0]]
      /\ m_verified' = [m_verified EXCEPT ![n] = st.ver]
  BY DEF Msg!Learn
<1> HIDE DEF st, held
<1>8. /\ st.map \in Msg!Directory /\ st.key \in [Users -> Nat] /\ st.ver \in SUBSET Users
      /\ n \notin st.map.keys
      /\ m_restarts = 0 => \A m \in st.map.keys : st.key[m] = 1
      /\ m_forgets = 0 => st.map.keys \subseteq st.ver
  BY <1>4 DEF Books
<1>9. \A m \in st.map.keys : m \in Users
  BY <1>8 DEF Msg!Directory
<1>10. BooksSound'
  <2>1. m_dir' \in [Users -> Msg!Directory]
    BY <1>7, <1>8 DEF BooksSound
  <2>2. m_keyOf' \in [Users -> [Users -> Nat]]
    <3>1. [m \in Users |-> IF m \in st.map.keys THEN st.key[m] ELSE 0] \in [Users -> Nat]
      BY <1>8
    <3> QED BY <1>7, <3>1 DEF BooksSound
  <2>3. m_verified' \in [Users -> SUBSET Users]
    BY <1>7, <1>8 DEF BooksSound
  <2>4. ASSUME NEW k \in Users
        PROVE  /\ k \notin m_dir'[k].keys
               /\ m_restarts = 0 => \A m \in m_dir'[k].keys : m_keyOf'[k][m] = 1
               /\ m_forgets = 0 => m_dir'[k].keys \subseteq m_verified'[k]
    <3>1. CASE k = n
      <4>1. m_dir'[k] = st.map /\ m_verified'[k] = st.ver
            /\ \A m \in Users : m_keyOf'[k][m] = IF m \in st.map.keys THEN st.key[m] ELSE 0
        BY <1>7, <3>1 DEF BooksSound
      <4> QED BY <1>8, <1>9, <3>1, <4>1
    <3>2. CASE k # n
      <4>1. m_dir'[k] = m_dir[k] /\ m_verified'[k] = m_verified[k] /\ m_keyOf'[k] = m_keyOf[k]
        BY <1>7, <3>2 DEF BooksSound
      <4> QED BY <4>1 DEF BooksSound
    <3> QED BY <3>1, <3>2
  <2> QED BY <2>1, <2>2, <2>3, <2>4 DEF BooksSound
<1>11. m_dir'[n] = st.map
  BY <1>7 DEF BooksSound
<1> QED BY <1>6, <1>10, <1>11

LEMMA MessagesStart ==
  ASSUME Msg!Init
  PROVE  Msg!MessagesInv
<1> USE DEF Msg!Init, Msg!NoKeys, Msg!EmptyMap
<1>1. Msg!WireTypes /\ Msg!BookTypes
  BY DEF Msg!WireTypes, Msg!BookTypes, Msg!Directory
<1>2. Msg!IdsOnce /\ Msg!ReplaysAreOld /\ Msg!CommandOnce
  BY DEF Msg!IdsOnce, Msg!ReplaysAreOld, Msg!CommandOnce, Msg!Commands, Msg!ActedOn, Msg!IsInjective
<1>3. Msg!NobodyListsItself /\ Msg!OneKey /\ Msg!FirstContactWorks
  BY DEF Msg!NobodyListsItself, Msg!OneKey, Msg!FirstContactWorks
<1>4. \A n \in Users : m_dir[n].keys \subseteq m_verified[n]
  OBVIOUS
<1> QED BY <1>1, <1>2, <1>3, <1>4 DEF Msg!MessagesInv

\* What only puts requests and answers on the wire, or takes from it, or changes
\* directories as it should, disturbs nothing.
LEMMA QuietStep ==
  ASSUME Msg!MessagesInv, BooksSound',
         UNCHANGED <<m_key, m_lastSent, m_lastAccepted, m_acted, m_unread, m_refused, m_now,
                     m_msgs, m_restarts>>,
         m_forgets' \in Nat, m_forgets' = 0 => m_forgets = 0,
         \A p \in m_wire' : \/ p \in m_wire
                            \/ /\ p \in Msg!Requests \cup Msg!Responses
                               /\ m_restarts = 0 => Msg!Tells(p)
  PROVE  Msg!MessagesInv'
<1> USE DEF Msg!MessagesInv
<1>1. Msg!WireTypes'
  BY DEF Msg!WireTypes
<1>2. Msg!BookTypes'
  BY DEF Msg!BookTypes, BooksSound
<1>3. \A p \in m_wire' : p.kind = "private" => p \in m_wire
  BY DEF Msg!Requests, Msg!Responses
<1>4. Msg!IdsOnce'
  <2>1. \A p \in m_wire' : p.kind = "private" => p.id < m_msgs'
    BY <1>3 DEF Msg!IdsOnce
  <2>2. \A n \in Users : \A id \in Msg!ActedOn(n)' : id < m_msgs'
    BY DEF Msg!IdsOnce, Msg!ActedOn
  <2>3. \A p \in Msg!Commands' : \A q \in m_wire' : q.kind = "private" /\ q.id = p.id => q = p
    BY <1>3 DEF Msg!IdsOnce, Msg!Commands
  <2> QED BY <2>1, <2>2, <2>3 DEF Msg!IdsOnce
<1>5. Msg!ReplaysAreOld'
  BY <1>3 DEF Msg!ReplaysAreOld, Msg!Commands, Msg!ActedOn
<1>6. Msg!CommandOnce'
  BY DEF Msg!CommandOnce
<1>7. Msg!NobodyListsItself'
  BY <1>3 DEF Msg!NobodyListsItself, BooksSound
<1>8. m_restarts' = 0 => Msg!OneKey'
  <2>1. m_restarts' = 0 => \A p \in m_wire' : Msg!Tells(p)
    BY DEF Msg!OneKey
  <2> QED BY <2>1 DEF Msg!OneKey, BooksSound, Msg!Tells
<1>9. m_forgets' = 0 => \A n \in Users : m_dir'[n].keys \subseteq m_verified'[n]
  BY DEF BooksSound
<1>10. Msg!FirstContactWorks'
  BY DEF Msg!FirstContactWorks
<1> QED BY <1>1, <1>2, <1>4, <1>5, <1>6, <1>7, <1>8, <1>9, <1>10

\* startIdentitySync() asks, at both ends.
LEMMA ConnectStep ==
  ASSUME Msg!MessagesInv, NEW m \in Users, NEW n \in Users, Msg!Connect(m, n)
  PROVE  Msg!MessagesInv'
<1>1. BooksSound'
  BY MessagesBooks DEF Msg!Connect, Msg!book, Msg!told, BooksSound
<1>2. \A p \in m_wire' : \/ p \in m_wire
                         \/ /\ p \in Msg!Requests
                            /\ p.kind = "request"
  <2>1. \A f \in Users : m_dir[f].keys \cup {f} \in SUBSET Users
    BY DEF Msg!MessagesInv, Msg!BookTypes, Msg!Directory
  <2>2. \A f \in Users : [kind |-> "request", from |-> f, to |-> IF f = m THEN n ELSE m,
                           known |-> m_dir[f].keys \cup {f}] \in Msg!Requests
    BY <2>1 DEF Msg!Requests
  <2>3. \A p \in m_wire' : p \in m_wire \/ \E f \in {m, n} :
          p = [kind |-> "request", from |-> f, to |-> IF f = m THEN n ELSE m,
               known |-> m_dir[f].keys \cup {f}]
    BY DEF Msg!Connect
  <2> QED BY <2>2, <2>3
<1>3. UNCHANGED <<m_key, m_lastSent, m_lastAccepted, m_acted, m_unread, m_refused, m_now,
                  m_msgs, m_restarts, m_forgets>>
  BY DEF Msg!Connect, Msg!told
<1>4. m_forgets \in Nat
  BY DEF Msg!MessagesInv, Msg!WireTypes
<1> QED BY <1>1, <1>2, <1>3, <1>4, QuietStep DEF Msg!Tells

\* The instance's notions of finite sets are the ones the theorems are about.
LEMMA SameFiniteSets ==
  ASSUME NEW S
  PROVE  /\ Msg!IsFiniteSet(S) <=> IsFiniteSet(S)
         /\ Msg!Cardinality(S) = Cardinality(S)
BY DEF Msg!IsFiniteSet, IsFiniteSet, Msg!Cardinality, Cardinality

\* handleIdentityRequest(): what the directory lists, and the node itself.
LEMMA RequestStep ==
  ASSUME Msg!MessagesInv, NEW p \in m_wire, Msg!HandleIdentityRequest(p)
  PROVE  Msg!MessagesInv'
<1> DEFINE n == p.to
<1>1. p \in Msg!Requests /\ n \in Users /\ p.from \in Users
  BY DEF Msg!MessagesInv, Msg!WireTypes, Msg!HandleIdentityRequest, Msg!Requests, Msg!Responses,
     Msg!Privates
<1> HIDE DEF n
<1>2. PICK listed \in Msg!Listings(n, m_dir[n].keys \ p.known) :
        LET anns == Msg!Answer(n, listed, p.known) IN
        m_wire' = (m_wire \ {p}) \cup
          (IF anns = <<>> THEN {}
           ELSE {[kind |-> "response", from |-> n, to |-> p.from, anns |-> anns]})
  BY DEF Msg!HandleIdentityRequest, n
<1> DEFINE anns == Msg!Answer(n, listed, p.known)
           first == [i \in 1 .. Len(listed) |-> [id |-> listed[i], key |-> m_keyOf[n][listed[i]]]]
           own == IF n \in p.known THEN <<>> ELSE <<Msg!Announcement(n)>>
<1>3. anns = first \o own
  BY DEF Msg!Answer
<1>4. /\ m_dir[n].keys \subseteq Users /\ m_keyOf[n] \in [Users -> Nat] /\ m_key[n] \in Nat
      /\ m_restarts = 0 => m_key[n] = 1 /\ \A m \in m_dir[n].keys : m_keyOf[n][m] = 1
  BY <1>1 DEF Msg!MessagesInv, Msg!BookTypes, Msg!Directory, Msg!OneKey
<1>5. /\ own \in Seq(Msg!Announced)
      /\ m_restarts = 0 => \A i \in DOMAIN own : own[i].key = 1
  <2>1. Msg!Announcement(n) \in Msg!Announced /\ (m_restarts = 0 => Msg!Announcement(n).key = 1)
    BY <1>1, <1>4 DEF Msg!Announcement, Msg!Announced
  <2> HIDE DEF Msg!Announcement
  <2> QED BY <2>1
<1>6. /\ first \in Seq(Msg!Announced)
      /\ m_restarts = 0 => \A i \in DOMAIN first : first[i].key = 1
  <2> DEFINE S == m_dir[n].keys \ p.known
  <2>0. S \in SUBSET Users /\ IsFiniteSet(Users)
    BY <1>4, MsgConstants, SameFiniteSets DEF Msg!MessagingAssumption
  <2>5. listed \in [1 .. Cardinality(S) -> S]
    BY <1>2, SameFiniteSets DEF Msg!Listings
  <2>1. Cardinality(S) \in Nat
    <3> HIDE DEF S
    <3>1. IsFiniteSet(S)
      BY <2>0, FS_Subset
    <3> QED BY <3>1, FS_CardinalityType
  <2>2. PICK d \in Nat : listed \in [1 .. d -> S]
    BY <2>1, <2>5
  <2>3. Len(listed) = d /\ \A i \in 1 .. d : listed[i] \in m_dir[n].keys
    BY <2>2
  <2>4. \A i \in 1 .. d : first[i] \in Msg!Announced /\ (m_restarts = 0 => first[i].key = 1)
    BY <1>4, <2>3 DEF Msg!Announced
  <2>6. first \in [1 .. d -> Msg!Announced]
    BY <1>4, <2>3 DEF Msg!Announced
  <2> HIDE DEF first
  <2> QED BY <2>4, <2>6
<1> HIDE DEF first, own
<1>7. /\ anns \in Seq(Msg!Announced)
      /\ m_restarts = 0 => \A i \in DOMAIN anns : anns[i].key = 1
  BY <1>3, <1>5, <1>6
<1> HIDE DEF anns
<1>8. \A q \in m_wire' : q \in m_wire \/ q = [kind |-> "response", from |-> n, to |-> p.from, anns |-> anns]
  BY <1>2 DEF anns
<1>9. /\ [kind |-> "response", from |-> n, to |-> p.from, anns |-> anns] \in Msg!Responses
      /\ m_restarts = 0 => Msg!Tells([kind |-> "response", from |-> n, to |-> p.from, anns |-> anns])
  BY <1>1, <1>7 DEF Msg!Responses, Msg!Tells
<1>10. BooksSound'
  BY MessagesBooks DEF Msg!HandleIdentityRequest, Msg!book, Msg!counts, BooksSound
<1>11. UNCHANGED <<m_key, m_lastSent, m_lastAccepted, m_acted, m_unread, m_refused, m_now,
                  m_msgs, m_restarts, m_forgets>> /\ m_forgets \in Nat
  BY DEF Msg!HandleIdentityRequest, Msg!told, Msg!counts, Msg!MessagesInv, Msg!WireTypes
<1> QED BY <1>8, <1>9, <1>10, <1>11, QuietStep

LEMMA ResponseStep ==
  ASSUME Msg!MessagesInv, NEW p \in m_wire, Msg!HandleIdentityResponse(p)
  PROVE  Msg!MessagesInv'
<1>1. p \in Msg!Responses
  BY DEF Msg!MessagesInv, Msg!WireTypes, Msg!HandleIdentityResponse, Msg!Requests, Msg!Responses,
     Msg!Privates
<1>2. p.to \in Users /\ p.anns \in Seq(Msg!Announced) /\ p.kind = "response"
  BY <1>1 DEF Msg!Responses
<1>3. m_restarts = 0 => \A i \in DOMAIN p.anns : p.anns[i].key = 1
  BY <1>2 DEF Msg!MessagesInv, Msg!OneKey, Msg!Tells
<1>4. UNCHANGED <<m_key, m_lastSent, m_lastAccepted, m_acted, m_unread, m_refused, m_now,
                  m_msgs, m_restarts, m_forgets>> /\ m_wire' \subseteq m_wire /\ m_forgets \in Nat
  BY DEF Msg!HandleIdentityResponse, Msg!told, Msg!counts, Msg!MessagesInv, Msg!WireTypes
<1>5. BooksSound'
  BY <1>2, <1>3, <1>4, MessagesBooks, LearnKeeps DEF Msg!HandleIdentityResponse
<1> QED BY <1>4, <1>5, QuietStep

LEMMA WaitStep ==
  ASSUME Msg!MessagesInv, Msg!WaitTimesOut \/ \E m \in Users : Msg!WaitForPeerKey(m)
  PROVE  Msg!MessagesInv'
<1>1. UNCHANGED <<m_key, m_dir, m_keyOf, m_verified, m_wire, m_lastSent, m_lastAccepted, m_acted,
                  m_unread, m_refused, m_now, m_msgs, m_restarts, m_forgets>>
  BY DEF Msg!WaitTimesOut, Msg!WaitForPeerKey, Msg!told, Msg!counts
<1>2. BooksSound' /\ m_forgets \in Nat
  BY <1>1, MessagesBooks DEF BooksSound, Msg!MessagesInv, Msg!WireTypes
<1> QED BY <1>1, <1>2, QuietStep

LEMMA ForgetStep ==
  ASSUME Msg!MessagesInv, NEW n \in Users, NEW m \in Users, Msg!ForgetTrust(n, m)
  PROVE  Msg!MessagesInv'
<1>1. /\ UNCHANGED <<m_key, m_dir, m_keyOf, m_wire, m_lastSent, m_lastAccepted, m_acted,
                     m_unread, m_refused, m_now, m_msgs, m_restarts>>
      /\ m_forgets' = m_forgets + 1 /\ m_forgets \in Nat
      /\ m_verified' = [m_verified EXCEPT ![n] = @ \ {m}]
  BY DEF Msg!ForgetTrust, Msg!told, Msg!MessagesInv, Msg!WireTypes
<1>2. BooksSound'
  BY <1>1, MessagesBooks DEF BooksSound
<1> QED BY <1>1, <1>2, QuietStep

\* New letters under the next id: one command, or any number of others, from a node
\* to others it lists.
LEMMA PostedStep ==
  ASSUME Msg!MessagesInv, NEW new, m_wire' = m_wire \cup new, new \subseteq Msg!Privates,
         \A p \in new : /\ p.id = m_msgs /\ p.to \in m_dir[p.from].keys
                        /\ p.fromKey = m_key[p.from] /\ p.toKey = m_keyOf[p.from][p.to],
         \A p, q \in new : p.body = "command" => q = p,
         m_msgs' = m_msgs + 1, m_lastSent' \in [Users -> Nat],
         UNCHANGED <<m_key, m_dir, m_keyOf, m_verified, m_lastAccepted, m_acted, m_unread,
                     m_refused, m_now, m_restarts, m_forgets>>
  PROVE  Msg!MessagesInv'
<1> USE DEF Msg!MessagesInv
<1>0. m_msgs \in Nat
  BY DEF Msg!WireTypes
<1>1. Msg!WireTypes'
  BY DEF Msg!WireTypes
<1>2. Msg!BookTypes'
  BY DEF Msg!BookTypes
<1>3. Msg!IdsOnce'
  <2>1. \A p \in m_wire' : p.kind = "private" => p.id < m_msgs'
    <3>1. \A p \in m_wire : p.kind = "private" => p.id \in Nat /\ p.id < m_msgs
      BY DEF Msg!IdsOnce, Msg!WireTypes, Msg!Requests, Msg!Responses, Msg!Privates
    <3> QED BY <1>0, <3>1
  <2>2. \A n \in Users : \A id \in Msg!ActedOn(n)' : id < m_msgs'
    <3>1. \A n \in Users : \A id \in Msg!ActedOn(n) : id \in Nat /\ id < m_msgs
      BY DEF Msg!IdsOnce, Msg!WireTypes, Msg!ActedOn
    <3> QED BY <1>0, <3>1 DEF Msg!ActedOn
  <2>3. ASSUME NEW p \in Msg!Commands', NEW q \in m_wire', q.kind = "private", q.id = p.id
        PROVE  q = p
    <3>1. \A r \in m_wire : r.kind = "private" => r.id \in Nat /\ r.id < m_msgs
      BY DEF Msg!IdsOnce, Msg!WireTypes, Msg!Requests, Msg!Responses, Msg!Privates
    <3>2. p \in m_wire' /\ p.kind = "private" /\ p.body = "command"
      BY DEF Msg!Commands
    <3>3. CASE p \in new /\ q \in new
      BY <3>2, <3>3
    <3>4. CASE p \in m_wire /\ q \in m_wire
      BY <2>3, <3>2, <3>4 DEF Msg!IdsOnce, Msg!Commands
    <3>5. ~(p \in m_wire /\ q \in new) /\ ~(p \in new /\ q \in m_wire)
      BY <1>0, <2>3, <3>1, <3>2
    <3> QED BY <3>2, <3>3, <3>4, <3>5
  <2> QED BY <2>1, <2>2, <2>3 DEF Msg!IdsOnce
<1>4. Msg!ReplaysAreOld'
  <2>1. ASSUME NEW p \in Msg!Commands', p.id \in Msg!ActedOn(p.to)'
        PROVE  p.ts <= m_lastAccepted'[p.to][p.from]
    <3>1. p \notin new
      <4> SUFFICES ASSUME p \in new PROVE FALSE
        OBVIOUS
      <4>1. p.to \in Users /\ p.id = m_msgs
        BY DEF Msg!Privates
      <4>2. p.id \in Msg!ActedOn(p.to)
        BY <2>1 DEF Msg!ActedOn
      <4>3. p.id < m_msgs
        BY <4>1, <4>2 DEF Msg!IdsOnce
      <4> QED BY <1>0, <4>1, <4>3
    <3> QED BY <2>1, <3>1 DEF Msg!Commands, Msg!ActedOn, Msg!ReplaysAreOld
  <2> QED BY <2>1 DEF Msg!ReplaysAreOld
<1>5. Msg!CommandOnce'
  BY DEF Msg!CommandOnce
<1>6. Msg!NobodyListsItself'
  <2>1. \A p \in new : p.from # p.to
    BY DEF Msg!Privates, Msg!NobodyListsItself
  <2> QED BY <2>1 DEF Msg!NobodyListsItself
<1>7. m_restarts' = 0 => Msg!OneKey'
  <2>1. \A p \in new : p.kind = "private" /\ p.from \in Users
    BY DEF Msg!Privates
  <2>2. m_restarts = 0 => \A p \in new : Msg!Tells(p)
    BY <2>1 DEF Msg!OneKey, Msg!Tells
  <2>3. m_restarts = 0 => \A p \in m_wire' : Msg!Tells(p)
    BY <2>2 DEF Msg!OneKey
  <2> QED BY <2>3 DEF Msg!OneKey, Msg!Tells
<1>8. m_forgets' = 0 => \A n \in Users : m_dir'[n].keys \subseteq m_verified'[n]
  OBVIOUS
<1>9. Msg!FirstContactWorks'
  BY DEF Msg!FirstContactWorks
<1> QED BY <1>1, <1>2, <1>3, <1>4, <1>5, <1>6, <1>7, <1>8, <1>9

LEMMA SendStep ==
  ASSUME Msg!MessagesInv, NEW f \in Users, NEW t \in Users, NEW body \in Msg!Bodies,
         Msg!SendPrivateMessage(f, t, body)
  PROVE  Msg!MessagesInv'
<1> DEFINE ts == IF body = "command" THEN Msg!NextTimestamp(f) ELSE 0
           p == Msg!Private(f, t, body, ts)
<1>1. /\ m_key[f] \in Nat /\ m_keyOf[f][t] \in Nat /\ m_lastSent \in [Users -> Nat]
      /\ m_msgs \in Nat /\ m_now \in Nat
  BY DEF Msg!MessagesInv, Msg!BookTypes, Msg!WireTypes
<1>2. Msg!NextTimestamp(f) \in Nat
  BY <1>1 DEF Msg!NextTimestamp
<1>3. p \in Msg!Privates /\ p.id = m_msgs /\ p.to = t /\ p.from = f /\ p.fromKey = m_key[f]
      /\ p.toKey = m_keyOf[f][t]
  BY <1>1, <1>2 DEF Msg!Private, Msg!Privates, Msg!Bodies
<1>4. m_lastSent' \in [Users -> Nat]
  BY <1>1, <1>2 DEF Msg!SendPrivateMessage
<1>5. /\ m_wire' = m_wire \cup {p} /\ t \in m_dir[f].keys /\ m_msgs' = m_msgs + 1
      /\ UNCHANGED <<m_key, m_dir, m_keyOf, m_verified, m_lastAccepted, m_acted, m_unread,
                     m_refused, m_now, m_restarts, m_forgets>>
  BY DEF Msg!SendPrivateMessage, Msg!book
<1> HIDE DEF p
<1> DEFINE new == {p}
<1>6. /\ m_wire' = m_wire \cup new /\ new \subseteq Msg!Privates
      /\ \A q \in new : /\ q.id = m_msgs /\ q.to \in m_dir[q.from].keys
                        /\ q.fromKey = m_key[q.from] /\ q.toKey = m_keyOf[q.from][q.to]
      /\ \A q, r \in new : q.body = "command" => r = q
  BY <1>3, <1>5
<1> HIDE DEF new
<1> QED BY <1>4, <1>5, <1>6, PostedStep

LEMMA GroupStep ==
  ASSUME Msg!MessagesInv, NEW f \in Users, Msg!CreateGroup(f)
  PROVE  Msg!MessagesInv'
<1> DEFINE new == {Msg!Private(f, t, "invite", 0) : t \in m_dir[f].keys}
<1>1. /\ m_key[f] \in Nat /\ m_keyOf[f] \in [Users -> Nat] /\ m_lastSent \in [Users -> Nat]
      /\ m_msgs \in Nat /\ m_dir[f].keys \subseteq Users
  BY DEF Msg!MessagesInv, Msg!BookTypes, Msg!WireTypes, Msg!Directory
<1>2. \A p \in new : /\ p \in Msg!Privates /\ p.id = m_msgs /\ p.to \in m_dir[p.from].keys
                     /\ p.fromKey = m_key[p.from] /\ p.toKey = m_keyOf[p.from][p.to]
                     /\ p.body # "command"
  BY <1>1 DEF Msg!Private, Msg!Privates
<1>3. /\ m_wire' = m_wire \cup new /\ m_msgs' = m_msgs + 1
      /\ UNCHANGED <<m_key, m_dir, m_keyOf, m_verified, m_lastAccepted, m_acted, m_unread,
                     m_refused, m_now, m_restarts, m_forgets, m_lastSent>>
  BY DEF Msg!CreateGroup, Msg!book
<1> HIDE DEF new
<1> QED BY <1>1, <1>2, <1>3, PostedStep

\* handlePrivateMessage(): a command that is obeyed was not obeyed before, for its
\* timestamp is past everything obeyed from its sender.
LEMMA ObeyedOnce ==
  ASSUME Msg!MessagesInv, NEW p \in Msg!Privates, p \in m_wire, m_wire' \subseteq m_wire,
         p.body = "command", Msg!Fresh(p),
         m_lastAccepted' = [m_lastAccepted EXCEPT ![p.to][p.from] = p.ts],
         m_acted' = [m_acted EXCEPT ![p.to] = Append(@, p.id)], m_msgs' = m_msgs
  PROVE  /\ m_acted' \in [Users -> Seq(Nat)] /\ m_lastAccepted' \in [Users -> [Users -> Nat]]
         /\ Msg!IdsOnce' /\ Msg!ReplaysAreOld' /\ Msg!CommandOnce'
<1> DEFINE n == p.to
<1>1. /\ p.id \in Nat /\ p.to \in Users /\ p.from \in Users /\ p.ts \in Nat /\ p.kind = "private"
      /\ p \in Msg!Commands
  BY DEF Msg!Privates, Msg!Commands
<1>2. /\ m_acted \in [Users -> Seq(Nat)] /\ m_lastAccepted \in [Users -> [Users -> Nat]]
      /\ m_msgs \in Nat
  BY DEF Msg!MessagesInv, Msg!WireTypes, Msg!BookTypes
<1>3. p.ts > m_lastAccepted[p.to][p.from]
  BY DEF Msg!Fresh
<1>4. p.id \notin Msg!ActedOn(p.to)
  <2>1. p.id \in Msg!ActedOn(p.to) => p.ts <= m_lastAccepted[p.to][p.from]
    BY <1>1 DEF Msg!MessagesInv, Msg!ReplaysAreOld
  <2> QED BY <1>1, <1>2, <1>3, <2>1
<1>5. m_acted' \in [Users -> Seq(Nat)] /\ m_lastAccepted' \in [Users -> [Users -> Nat]]
  BY <1>1, <1>2
<1>6. \A k \in Users : m_acted'[k] = IF k = n THEN Append(m_acted[n], p.id) ELSE m_acted[k]
  BY <1>2
<1>7. \A k \in Users : Msg!ActedOn(k)' = IF k = n THEN Msg!ActedOn(n) \cup {p.id} ELSE Msg!ActedOn(k)
  <2> TAKE k \in Users
  <2>1. CASE k # n
    BY <1>6, <2>1 DEF Msg!ActedOn
  <2>2. CASE k = n
    <3>1. m_acted'[k] = Append(m_acted[n], p.id) /\ m_acted[n] \in Seq(Nat)
      BY <1>1, <1>2, <1>6, <2>2
    <3>2. /\ DOMAIN m_acted'[k] = DOMAIN m_acted[n] \cup {Len(m_acted[n]) + 1}
          /\ \A i \in DOMAIN m_acted[n] : m_acted'[k][i] = m_acted[n][i]
          /\ m_acted'[k][Len(m_acted[n]) + 1] = p.id
      BY <1>1, <3>1
    <3> QED BY <2>2, <3>2 DEF Msg!ActedOn
  <2> QED BY <2>1, <2>2
<1>8. Msg!IdsOnce'
  <2>1. /\ p.id < m_msgs /\ \A q \in m_wire' : q.kind = "private" => q.id < m_msgs'
        /\ \A q \in Msg!Commands' : \A r \in m_wire' : r.kind = "private" /\ r.id = q.id => r = q
    BY <1>1 DEF Msg!MessagesInv, Msg!IdsOnce, Msg!Commands
  <2>2. \A k \in Users : \A id \in Msg!ActedOn(k)' : id < m_msgs'
    BY <1>7, <2>1 DEF Msg!MessagesInv, Msg!IdsOnce
  <2> QED BY <2>1, <2>2 DEF Msg!IdsOnce
<1>9. Msg!ReplaysAreOld'
  <2>1. ASSUME NEW q \in Msg!Commands', q.id \in Msg!ActedOn(q.to)'
        PROVE  q.ts <= m_lastAccepted'[q.to][q.from]
    <3>1. q \in m_wire /\ q.kind = "private" /\ q.body = "command" /\ q \in Msg!Commands
      BY DEF Msg!Commands
    <3>2. q.to \in Users /\ q.from \in Users /\ q.ts \in Nat
      BY <3>1 DEF Msg!MessagesInv, Msg!WireTypes, Msg!Requests, Msg!Responses, Msg!Privates
    <3>3. CASE q = p
      BY <1>1, <1>2, <3>3
    <3>4. CASE q # p
      <4>1. q.id # p.id
        BY <1>1, <3>1, <3>4 DEF Msg!MessagesInv, Msg!IdsOnce
      <4>2. q.id \in Msg!ActedOn(q.to)
        BY <1>7, <2>1, <3>2, <4>1
      <4>3. q.ts <= m_lastAccepted[q.to][q.from]
        BY <3>1, <4>2 DEF Msg!MessagesInv, Msg!ReplaysAreOld
      <4>4. m_lastAccepted[q.to][q.from] <= m_lastAccepted'[q.to][q.from]
        <5>1. CASE q.to = p.to /\ q.from = p.from
          <6>1. m_lastAccepted[p.to] \in [Users -> Nat] /\ m_lastAccepted'[p.to][p.from] = p.ts
            BY <1>1, <1>2
          <6>2. m_lastAccepted[p.to][p.from] \in Nat
            BY <1>1, <6>1
          <6> QED BY <1>1, <1>3, <5>1, <6>1, <6>2
        <5>2. CASE ~(q.to = p.to /\ q.from = p.from)
          <6>1. m_lastAccepted'[q.to][q.from] = m_lastAccepted[q.to][q.from]
            BY <1>2, <3>2, <5>2
          <6>2. m_lastAccepted[q.to] \in [Users -> Nat]
            BY <1>2, <3>2
          <6> QED BY <3>2, <6>1, <6>2
        <5> QED BY <5>1, <5>2
      <4>5. m_lastAccepted[q.to][q.from] \in Nat /\ m_lastAccepted'[q.to][q.from] \in Nat
        <5>1. m_lastAccepted[q.to] \in [Users -> Nat] /\ m_lastAccepted'[q.to] \in [Users -> Nat]
          BY <1>2, <1>5, <3>2
        <5> QED BY <3>2, <5>1
      <4> QED BY <3>2, <4>3, <4>4, <4>5
    <3> QED BY <3>3, <3>4
  <2> QED BY <2>1 DEF Msg!ReplaysAreOld
<1>10. Msg!CommandOnce'
  <2>1. ASSUME NEW k \in Users PROVE Msg!IsInjective(m_acted'[k])
    <3>1. Msg!IsInjective(m_acted[k])
      BY DEF Msg!MessagesInv, Msg!CommandOnce
    <3>2. CASE k # n
      BY <1>6, <3>1, <3>2
    <3>3. CASE k = n
      <4>1. m_acted'[k] = Append(m_acted[k], p.id) /\ m_acted[k] \in Seq(Nat)
        BY <1>1, <1>2, <1>6, <3>3
      <4>2. /\ DOMAIN m_acted'[k] = DOMAIN m_acted[k] \cup {Len(m_acted[k]) + 1}
            /\ \A i \in DOMAIN m_acted[k] : m_acted'[k][i] = m_acted[k][i]
            /\ m_acted'[k][Len(m_acted[k]) + 1] = p.id
        BY <1>1, <4>1
      <4>3. \A i \in DOMAIN m_acted[k] : m_acted[k][i] # p.id
        BY <1>4, <3>3 DEF Msg!ActedOn
      <4> QED BY <3>1, <4>2, <4>3 DEF Msg!IsInjective
    <3> QED BY <3>2, <3>3
  <2> QED BY <2>1 DEF Msg!CommandOnce
<1> QED BY <1>5, <1>8, <1>9, <1>10

LEMMA PrivateStep ==
  ASSUME Msg!MessagesInv, NEW p \in m_wire, NEW copy \in BOOLEAN, Msg!HandlePrivateMessage(p, copy)
  PROVE  Msg!MessagesInv'
<1> DEFINE n == p.to
           readable == m_keyOf'[n][p.from] = p.fromKey /\ p.toKey = m_key[n]
           obeyed == readable /\ p.body = "command" /\ p.from \in Admins[n] /\ Msg!Fresh(p)
           appended == p.from \in Admins[n] \/ p.from \in m_verified'[n]
           anns == <<[id |-> p.from, key |-> p.fromKey]>>
<1>1. p \in Msg!Privates /\ p.kind = "private"
  BY DEF Msg!MessagesInv, Msg!WireTypes, Msg!HandlePrivateMessage, Msg!Requests, Msg!Responses,
     Msg!Privates
<1>2. n \in Users /\ p.from \in Users /\ p.fromKey \in Nat /\ p.from # n
  BY <1>1 DEF Msg!Privates, Msg!MessagesInv, Msg!NobodyListsItself
<1>3. m_restarts = 0 => p.fromKey = 1 /\ p.toKey = 1 /\ m_key[n] = 1
  BY <1>1, <1>2 DEF Msg!MessagesInv, Msg!OneKey, Msg!Tells
<1>4. /\ m_wire' \subseteq m_wire
      /\ Msg!Learn(n, anns)
      /\ m_unread' = IF readable THEN m_unread ELSE m_unread \cup {<<p.from, n>>}
      /\ m_refused' = IF readable /\ p.body = "append" /\ ~appended
                        THEN m_refused \cup {<<p.from, n>>} ELSE m_refused
      /\ m_lastAccepted' = IF obeyed THEN [m_lastAccepted EXCEPT ![n][p.from] = p.ts] ELSE m_lastAccepted
      /\ m_acted' = IF obeyed THEN [m_acted EXCEPT ![n] = Append(@, p.id)] ELSE m_acted
      /\ UNCHANGED <<m_key, m_lastSent, m_now, m_links, m_msgs, m_restarts, m_forgets>>
  BY DEF Msg!HandlePrivateMessage, Msg!counts
<1>5. anns \in Seq(Msg!Announced) /\ Len(anns) = 1 /\ anns[1].id = p.from
      /\ DOMAIN anns = {1} /\ anns[1].key = p.fromKey
  BY <1>2 DEF Msg!Announced
<1> HIDE DEF anns, n
<1>6. BooksSound' /\ p.from \in m_dir'[n].keys
  BY <1>2, <1>3, <1>4, <1>5, MessagesBooks, LearnKeeps
<1>7. m_restarts = 0 => readable
  <2>1. m_restarts = 0 => m_keyOf'[n][p.from] = 1
    BY <1>2, <1>4, <1>6 DEF BooksSound
  <2> QED BY <1>3, <2>1
<1>8. m_forgets = 0 => appended
  BY <1>2, <1>4, <1>6 DEF BooksSound
<1> HIDE DEF readable, appended
<1>9. Msg!FirstContactWorks'
  BY <1>4, <1>7, <1>8 DEF Msg!MessagesInv, Msg!FirstContactWorks
<1>10. /\ m_acted' \in [Users -> Seq(Nat)] /\ m_lastAccepted' \in [Users -> [Users -> Nat]]
       /\ Msg!IdsOnce' /\ Msg!ReplaysAreOld' /\ Msg!CommandOnce'
  <2>1. CASE obeyed
    BY <1>1, <1>4, <2>1, ObeyedOnce DEF n
  <2>2. CASE ~obeyed
    <3>1. UNCHANGED <<m_acted, m_lastAccepted, m_msgs>>
      BY <1>4, <2>2
    <3>2. m_acted \in [Users -> Seq(Nat)] /\ m_lastAccepted \in [Users -> [Users -> Nat]]
      BY DEF Msg!MessagesInv, Msg!WireTypes, Msg!BookTypes
    <3>3. Msg!IdsOnce'
      BY <1>4, <3>1 DEF Msg!MessagesInv, Msg!IdsOnce, Msg!Commands, Msg!ActedOn
    <3>4. Msg!ReplaysAreOld'
      BY <1>4, <3>1 DEF Msg!MessagesInv, Msg!ReplaysAreOld, Msg!Commands, Msg!ActedOn
    <3>5. Msg!CommandOnce'
      BY <3>1 DEF Msg!MessagesInv, Msg!CommandOnce
    <3> QED BY <3>1, <3>2, <3>3, <3>4, <3>5
  <2> QED BY <2>1, <2>2
<1> HIDE DEF obeyed
<1>11. Msg!WireTypes'
  BY <1>4, <1>10 DEF Msg!MessagesInv, Msg!WireTypes
<1>12. Msg!BookTypes'
  BY <1>4, <1>6, <1>10 DEF Msg!MessagesInv, Msg!BookTypes, BooksSound
<1>13. Msg!NobodyListsItself'
  BY <1>4, <1>6 DEF Msg!MessagesInv, Msg!NobodyListsItself, BooksSound
<1>14. m_restarts' = 0 => Msg!OneKey'
  <2>1. m_restarts' = 0 => \A q \in m_wire' : Msg!Tells(q)
    BY <1>4 DEF Msg!MessagesInv, Msg!OneKey
  <2> QED BY <1>4, <1>6, <2>1 DEF Msg!MessagesInv, Msg!OneKey, BooksSound, Msg!Tells
<1>15. m_forgets' = 0 => \A k \in Users : m_dir'[k].keys \subseteq m_verified'[k]
  BY <1>6 DEF BooksSound
<1> QED BY <1>9, <1>10, <1>11, <1>12, <1>13, <1>14, <1>15 DEF Msg!MessagesInv

\* A node that starts again has forgotten what it obeyed; from now on nothing is
\* promised of keys.
LEMMA RestartStep ==
  ASSUME Msg!MessagesInv, NEW n \in Users, Msg!Restart(n)
  PROVE  Msg!MessagesInv'
<1> USE DEF Msg!MessagesInv
<1>1. /\ UNCHANGED <<m_wire, m_unread, m_refused, m_msgs, m_forgets>>
      /\ m_restarts' = m_restarts + 1 /\ m_restarts \in Nat /\ m_now' \in Nat
  BY MsgConstants DEF Msg!Restart, Msg!WireTypes, Msg!MessagingAssumption
<1>2. /\ m_key' = [m_key EXCEPT ![n] = @ + 1]
      /\ m_dir' = [m_dir EXCEPT ![n] = Msg!EmptyMap] /\ m_keyOf' = [m_keyOf EXCEPT ![n] = Msg!NoKeys]
      /\ m_verified' = [m_verified EXCEPT ![n] = {}]
      /\ m_lastSent' = [m_lastSent EXCEPT ![n] = 0]
      /\ m_lastAccepted' = [m_lastAccepted EXCEPT ![n] = Msg!NoKeys]
      /\ m_acted' = [m_acted EXCEPT ![n] = <<>>]
  BY DEF Msg!Restart
<1>3. Msg!EmptyMap \in Msg!Directory /\ Msg!NoKeys \in [Users -> Nat] /\ Msg!EmptyMap.keys = {}
  BY DEF Msg!EmptyMap, Msg!Directory, Msg!NoKeys
<1> HIDE DEF Msg!EmptyMap, Msg!NoKeys
<1>4. Msg!WireTypes'
  BY <1>1, <1>2 DEF Msg!WireTypes
<1>5. Msg!BookTypes'
  <2>1. m_key' \in [Users -> Nat] /\ m_dir' \in [Users -> Msg!Directory]
    BY <1>2, <1>3 DEF Msg!BookTypes
  <2>2. m_keyOf' \in [Users -> [Users -> Nat]] /\ m_verified' \in [Users -> SUBSET Users]
    BY <1>2, <1>3 DEF Msg!BookTypes
  <2>3. m_lastSent' \in [Users -> Nat] /\ m_lastAccepted' \in [Users -> [Users -> Nat]]
    BY <1>2, <1>3 DEF Msg!BookTypes
  <2> QED BY <2>1, <2>2, <2>3 DEF Msg!BookTypes
<1>6. \A k \in Users : Msg!ActedOn(k)' \subseteq Msg!ActedOn(k) /\ (k = n => Msg!ActedOn(k)' = {})
  BY <1>2 DEF Msg!ActedOn, Msg!WireTypes
<1>7. Msg!IdsOnce'
  BY <1>1, <1>6 DEF Msg!IdsOnce, Msg!Commands
<1>8. Msg!ReplaysAreOld'
  <2>1. ASSUME NEW p \in Msg!Commands', p.id \in Msg!ActedOn(p.to)'
        PROVE  p.ts <= m_lastAccepted'[p.to][p.from]
    <3>1. p \in Msg!Commands /\ p.to \in Users
      BY <1>1 DEF Msg!Commands, Msg!WireTypes, Msg!Requests, Msg!Responses, Msg!Privates
    <3>2. p.to # n /\ p.id \in Msg!ActedOn(p.to)
      BY <1>6, <2>1, <3>1
    <3> QED BY <1>2, <3>1, <3>2 DEF Msg!ReplaysAreOld, Msg!BookTypes
  <2> QED BY <2>1 DEF Msg!ReplaysAreOld
<1>9. Msg!CommandOnce'
  BY <1>2 DEF Msg!CommandOnce, Msg!IsInjective, Msg!WireTypes
<1>10. Msg!NobodyListsItself'
  BY <1>1, <1>2, <1>3 DEF Msg!NobodyListsItself, Msg!BookTypes
<1>11. m_forgets' = 0 => \A k \in Users : m_dir'[k].keys \subseteq m_verified'[k]
  BY <1>1, <1>2, <1>3 DEF Msg!BookTypes
<1>12. m_restarts' # 0
  BY <1>1
<1>13. Msg!FirstContactWorks'
  BY <1>12 DEF Msg!FirstContactWorks
<1> QED BY <1>4, <1>5, <1>7, <1>8, <1>9, <1>10, <1>11, <1>12, <1>13

LEMMA MessagesStep ==
  ASSUME Msg!MessagesInv, Msg!Next \/ UNCHANGED msgVars
  PROVE  Msg!MessagesInv'
<1>1. CASE UNCHANGED msgVars
  <2>1. UNCHANGED <<m_key, m_dir, m_keyOf, m_verified, m_wire, m_lastSent, m_lastAccepted, m_acted,
                    m_unread, m_refused, m_now, m_msgs, m_restarts, m_forgets>>
    BY <1>1 DEF msgVars
  <2>2. BooksSound' /\ m_forgets \in Nat
    BY <2>1, MessagesBooks DEF BooksSound, Msg!MessagesInv, Msg!WireTypes
  <2> QED BY <2>1, <2>2, QuietStep
<1>2. CASE Msg!Next
  <2>1. ASSUME NEW m \in Users, NEW n \in Users,
               \/ Msg!Connect(m, n) \/ Msg!ForgetTrust(m, n)
               \/ \E body \in Msg!Bodies : Msg!SendPrivateMessage(m, n, body)
        PROVE  Msg!MessagesInv'
    BY <2>1, ConnectStep, ForgetStep, SendStep
  <2>2. CASE Msg!WaitTimesOut \/ \E n \in Users : Msg!WaitForPeerKey(n)
    BY <2>2, WaitStep
  <2>3. ASSUME NEW n \in Users, Msg!CreateGroup(n) \/ Msg!Restart(n)
        PROVE  Msg!MessagesInv'
    BY <2>3, GroupStep, RestartStep
  <2>4. ASSUME NEW p \in m_wire,
               \/ Msg!HandleIdentityRequest(p) \/ Msg!HandleIdentityResponse(p)
               \/ \E copy \in BOOLEAN : Msg!HandlePrivateMessage(p, copy)
        PROVE  Msg!MessagesInv'
    BY <2>4, RequestStep, ResponseStep, PrivateStep
  <2> QED BY <1>2, <2>1, <2>2, <2>3, <2>4 DEF Msg!Next
<1> QED BY <1>1, <1>2

MessagesSound == which = "msg" => Msg!MessagesInv

\* NomadNode's identities and private messages: whoever met whom first and however
\* small the directories, a first message is decrypted and its sender verified while
\* nobody restarts or is forgotten; a command is acted on once, whatever comes again.
THEOREM FirstMessageReads == MCSpec => []FirstContactWorks
<1>1. MCInit => MessagesSound
  BY MessagesStart DEF MCInit, MessagesSound
<1>2. ASSUME MessagesSound, [MCNext]_mcVars
      PROVE  MessagesSound'
  <2>1. which' = which /\ (which = "msg" => Msg!Next \/ UNCHANGED msgVars)
    BY <1>2 DEF MCNext, mcVars
  <2> QED BY <1>2, <2>1, MessagesStep DEF MessagesSound
<1>3. MessagesSound => FirstContactWorks
  BY DEF MessagesSound, FirstContactWorks, Msg!MessagesInv
<1> QED BY <1>1, <1>2, <1>3, PTL DEF MCSpec

-----------------------------------------------------------------------------
(* The dual-role relay of the phone. *)

LEMMA DualStart == Dual!Init => Dual!SessionInv /\ Dual!HandshakeInv
<1> SUFFICES ASSUME Dual!Init PROVE Dual!SessionInv /\ Dual!HandshakeInv
  OBVIOUS
<1>1. Dual!SessionInv
  BY DEF Dual!Init, Dual!SessionInv, Dual!DualRadioOn, Dual!Parts
<1>2. Dual!HandshakeInv
  BY DEF Dual!Init, Dual!HandshakeInv
<1> QED BY <1>1, <1>2

\* The steps of an activation: what each adds, and when none is left.
LEMMA StepsOn ==
  /\ Dual!StepsTaken(1) = {}
  /\ \A k \in 1 .. 6 : Dual!StepsTaken(k + 1) = Dual!StepsTaken(k) \cup {Dual!On[k]}
  /\ Dual!Parts \subseteq Dual!StepsTaken(7)
  /\ Len(Dual!On) = 6
  /\ Dual!On[1] = "listeners" /\ \A k \in 2 .. 6 : Dual!On[k] # "listeners"
<1>1. Len(Dual!On) = 6
  BY DEF Dual!On
<1>2. Dual!StepsTaken(1) = {}
  BY DEF Dual!StepsTaken
<1>3. \A k \in 1 .. 6 : Dual!StepsTaken(k + 1) = Dual!StepsTaken(k) \cup {Dual!On[k]}
  <2> SUFFICES ASSUME NEW k \in 1 .. 6 PROVE Dual!StepsTaken(k + 1) = Dual!StepsTaken(k) \cup {Dual!On[k]}
    OBVIOUS
  <2>1. 1 .. (k + 1 - 1) = 1 .. (k - 1) \cup {k}
    OBVIOUS
  <2> QED BY <2>1 DEF Dual!StepsTaken
<1>4. Dual!On[1] = "listeners" /\ \A k \in 2 .. 6 : Dual!On[k] # "listeners"
  BY DEF Dual!On
<1>5. Dual!Parts \subseteq Dual!StepsTaken(7)
  <2>1. Dual!On[4] = "service" /\ Dual!On[5] = "advert" /\ Dual!On[6] = "scan"
    BY DEF Dual!On
  <2>2. 4 \in 1 .. (7 - 1) /\ 5 \in 1 .. (7 - 1) /\ 6 \in 1 .. (7 - 1)
    OBVIOUS
  <2> QED BY <2>1, <2>2 DEF Dual!Parts, Dual!StepsTaken
<1> QED BY <1>1, <1>2, <1>3, <1>4, <1>5

\* A new session begins, with its activation or its deactivation.
LEMMA SessionBegins ==
  ASSUME Dual!SessionInv, Dual!ActivateRelay \/ Dual!DeactivateRelay
  PROVE  Dual!SessionInv'
<1>1. d_dsession \in Nat /\ d_dsession' = d_dsession + 1 /\ 1 .. d_dsession \subseteq 1 .. d_dsession'
      /\ d_dsession' \in 1 .. d_dsession' /\ d_dsession' \notin 1 .. d_dsession
  BY DEF Dual!SessionInv, Dual!ActivateRelay, Dual!DeactivateRelay
<1>2. CASE Dual!ActivateRelay
  <2> DEFINE t == [sess |-> d_dsession', pc |-> 1]
  <2>1. /\ ~d_dactive /\ d_dactive' = TRUE /\ d_turningOn' = d_turningOn \cup {t}
        /\ UNCHANGED <<d_turningOff, d_radio, d_listeners>>
    BY <1>1, <1>2 DEF Dual!ActivateRelay
  <2>2. t \in [sess : 1 .. d_dsession', pc : 1 .. Len(Dual!On)] /\ t.sess = d_dsession' /\ t.pc = 1
    BY <1>1, StepsOn
  <2>3. \A u \in d_turningOn : u \in [sess : 1 .. d_dsession, pc : 1 .. Len(Dual!On)]
    BY DEF Dual!SessionInv
  <2>4. \A u \in d_turningOn : u \in [sess : 1 .. d_dsession', pc : 1 .. Len(Dual!On)] /\ u.sess # d_dsession'
    BY <1>1, <2>3
  <2> HIDE DEF t
  <2>5. \A u, w \in d_turningOn' : u.sess = w.sess => u = w
    BY <2>1, <2>2, <2>4 DEF Dual!SessionInv
  <2>6. \A u \in d_turningOff' : u.sess \in 1 .. d_dsession' /\ u.sess # d_dsession'
    BY <1>1, <2>1 DEF Dual!SessionInv
  <2>7. \A u \in d_turningOn' : u.sess = d_dsession' => u = t
    BY <2>1, <2>4
  <2>8. Dual!DualRadioOn'
    BY <2>1, <2>2 DEF Dual!DualRadioOn
  <2> QED BY <1>1, <2>1, <2>2, <2>4, <2>5, <2>6, <2>7, <2>8, StepsOn DEF Dual!SessionInv
<1>3. CASE Dual!DeactivateRelay
  <2>1. /\ d_dactive' = FALSE
        /\ d_turningOff' = d_turningOff \cup {[sess |-> d_dsession', pc |-> 1, todo |-> {}]}
        /\ UNCHANGED <<d_turningOn, d_radio, d_listeners>>
    BY <1>1, <1>3 DEF Dual!DeactivateRelay
  <2>2. \A u \in d_turningOn : u \in [sess : 1 .. d_dsession, pc : 1 .. Len(Dual!On)]
    BY DEF Dual!SessionInv
  <2>3. d_turningOn' \subseteq [sess : 1 .. d_dsession', pc : 1 .. Len(Dual!On)]
    BY <1>1, <2>1, <2>2
  <2>4. \A u \in d_turningOff' : u.sess \in 1 .. d_dsession'
    BY <1>1, <2>1 DEF Dual!SessionInv
  <2>5. Dual!DualRadioOn'
    BY <2>1 DEF Dual!DualRadioOn
  <2>6. /\ d_radio' \subseteq Dual!Parts /\ d_listeners' \subseteq 1 .. d_dsession'
        /\ \A u, w \in d_turningOn' : u.sess = w.sess => u = w
    BY <1>1, <2>1 DEF Dual!SessionInv
  <2>7. d_dsession' \in Nat
    BY <1>1
  <2>8. d_dactive' = FALSE
    BY <2>1
  <2> HIDE <2>1
  <2> QED BY <2>3, <2>4, <2>5, <2>6, <2>7, <2>8 DEF Dual!SessionInv
<1> QED BY <1>2, <1>3

\* A step of an activation, of this session or an earlier one, or its end.
LEMMA ActivationStep ==
  ASSUME Dual!SessionInv, NEW t \in d_turningOn, Dual!ActivateStep(t) \/ Dual!ActivateFails(t)
  PROVE  Dual!SessionInv'
<1>0. UNCHANGED <<d_dsession, d_turningOff>>
  BY DEF Dual!ActivateStep, Dual!ActivateFails
<1>1. t \in [sess : 1 .. d_dsession, pc : 1 .. 6]
  BY StepsOn DEF Dual!SessionInv
<1>2. \A u \in d_turningOn : u.sess = t.sess => u = t
  BY DEF Dual!SessionInv
<1>3. CASE Dual!ActivateFails(t)
  <2>1. d_turningOn' = d_turningOn \ {t} /\ d_dactive' = (d_dactive /\ t.sess # d_dsession) /\ UNCHANGED <<d_radio, d_listeners>>
    BY <1>3 DEF Dual!ActivateFails
  <2>2. Dual!DualRadioOn'
    BY <1>0, <2>1 DEF Dual!SessionInv, Dual!DualRadioOn
  <2> QED BY <1>0, <2>1, <2>2 DEF Dual!SessionInv
<1>4. CASE Dual!ActivateStep(t)
  <2> DEFINE step == Dual!On[t.pc]
             goes == t.sess = d_dsession \/ step = "listeners"
             next == [t EXCEPT !.pc = @ + 1]
  <2>1. /\ d_turningOn' = (d_turningOn \ {t}) \cup (IF goes /\ t.pc < 6 THEN {next} ELSE {})
        /\ d_radio' = IF goes /\ step \in Dual!Parts THEN d_radio \cup {step} ELSE d_radio
        /\ d_listeners' = IF step = "listeners" THEN d_listeners \cup {t.sess} ELSE d_listeners
        /\ d_dactive' = d_dactive
    BY <1>4, StepsOn DEF Dual!ActivateStep, Dual!RegisterListeners
  <2>2. next.sess = t.sess /\ next.pc = t.pc + 1 /\ (t.pc < 6 => next \in [sess : 1 .. d_dsession, pc : 1 .. 6])
    BY <1>1
  <2>3. Dual!StepsTaken(t.pc + 1) = Dual!StepsTaken(t.pc) \cup {step} /\ (step = "listeners" <=> t.pc = 1)
    BY <1>1, StepsOn
  <2> HIDE DEF step, next
  <2>4. d_turningOn' \subseteq [sess : 1 .. d_dsession, pc : 1 .. 6]
    BY <2>1, <2>2, StepsOn DEF Dual!SessionInv
  <2>5. \A u, w \in d_turningOn' : u.sess = w.sess => u = w
    BY <1>2, <2>1, <2>2 DEF Dual!SessionInv
  <2>6. d_radio' \subseteq Dual!Parts /\ d_radio \subseteq d_radio' /\ d_listeners \subseteq d_listeners'
    BY <2>1 DEF Dual!SessionInv
  <2>7. d_listeners' \subseteq 1 .. d_dsession
    BY <1>1, <2>1 DEF Dual!SessionInv
  <2>8. ASSUME d_dactive, t.sess = d_dsession
        PROVE  Dual!StepsTaken(t.pc + 1) \cap Dual!Parts \subseteq d_radio' /\ d_dsession \in d_listeners'
    <3>1. Dual!StepsTaken(t.pc) \cap Dual!Parts \subseteq d_radio /\ (t.pc > 1 => d_dsession \in d_listeners)
      BY <2>8 DEF Dual!SessionInv
    <3>2. d_dsession \in d_listeners'
      BY <1>1, <2>1, <2>3, <2>6, <2>8, <3>1
    <3> QED BY <2>1, <2>3, <2>8, <3>1, <3>2
  <2>9. ASSUME d_dactive, NEW u \in d_turningOn', u.sess = d_dsession
        PROVE  Dual!StepsTaken(u.pc) \cap Dual!Parts \subseteq d_radio' /\ (u.pc > 1 => d_dsession \in d_listeners')
    <3>1. CASE u = next
      BY <2>2, <2>8, <2>9, <3>1
    <3>2. CASE u \in d_turningOn
      <4>1. Dual!StepsTaken(u.pc) \cap Dual!Parts \subseteq d_radio /\ (u.pc > 1 => d_dsession \in d_listeners)
        BY <2>9, <3>2 DEF Dual!SessionInv
      <4> QED BY <2>6, <4>1
    <3> QED BY <2>1, <2>9, <3>1, <3>2
  <2>10. Dual!DualRadioOn'
    <3> SUFFICES ASSUME d_dactive, \A u \in d_turningOn' : u.sess # d_dsession
                 PROVE  d_radio' = Dual!Parts /\ d_dsession \in d_listeners'
      BY <1>0, <2>1 DEF Dual!DualRadioOn
    <3>1. CASE t.sess = d_dsession
      <4>1. ~(t.pc < 6)
        BY <2>1, <2>2, <3>1
      <4>2. t.pc + 1 = 7
        BY <1>1, <4>1
      <4> QED BY <2>6, <2>8, <3>1, <4>2, StepsOn
    <3>2. CASE t.sess # d_dsession
      <4>1. \A u \in d_turningOn : u.sess # d_dsession
        BY <2>1, <3>2
      <4>2. d_radio = Dual!Parts /\ d_dsession \in d_listeners
        BY <4>1 DEF Dual!SessionInv, Dual!DualRadioOn
      <4> QED BY <2>6, <4>2
    <3> QED BY <3>1, <3>2
  <2> QED BY <1>0, <2>1, <2>4, <2>5, <2>6, <2>7, <2>9, <2>10, StepsOn DEF Dual!SessionInv
<1> QED BY <1>3, <1>4

\* A step of a deactivation: it turns something off only while its own session is
\* the last, when no session is active.
LEMMA DeactivationStep ==
  ASSUME Dual!SessionInv, NEW t \in d_turningOff,
         Dual!DeactivateStep(t) \/ Dual!DeactivateEnds(t) \/ \E d \in t.todo : Dual!DeactivateDisconnects(t, d)
  PROVE  Dual!SessionInv'
<1>0. UNCHANGED <<d_dsession, d_dactive, d_turningOn>>
  BY DEF Dual!DeactivateStep, Dual!DeactivateEnds, Dual!DeactivateDisconnects
<1>1. \A u \in d_turningOff' : u.sess = t.sess \/ u \in d_turningOff
  <2>1. CASE Dual!DeactivateStep(t)
    <3> DEFINE S == IF Dual!Off[t.pc] = "links" THEN {e.dev : e \in Dual!Outbound} ELSE {}
    <3>1. \/ d_turningOff' = (d_turningOff \ {t}) \cup {[t EXCEPT !.pc = @ + 1, !.todo = S]}
          \/ d_turningOff' = d_turningOff \ {t}
      BY <2>1 DEF Dual!DeactivateStep
    <3> HIDE DEF S
    <3>2. [t EXCEPT !.pc = @ + 1, !.todo = S].sess = t.sess
      OBVIOUS
    <3> QED BY <3>1, <3>2
  <2>2. CASE Dual!DeactivateEnds(t)
    BY <2>2 DEF Dual!DeactivateEnds
  <2>3. ASSUME NEW d \in t.todo, Dual!DeactivateDisconnects(t, d) PROVE \A u \in d_turningOff' : u.sess = t.sess \/ u \in d_turningOff
    <3>1. PICK S : d_turningOff' = (d_turningOff \ {t}) \cup {[t EXCEPT !.todo = S]}
      BY <2>3 DEF Dual!DeactivateDisconnects
    <3>2. [t EXCEPT !.todo = S].sess = t.sess
      OBVIOUS
    <3> QED BY <3>1, <3>2
  <2> QED BY <2>1, <2>2, <2>3
<1>2. t.sess \in 1 .. d_dsession /\ (d_dactive => t.sess # d_dsession)
  BY DEF Dual!SessionInv
<1>3. d_radio' \subseteq d_radio /\ d_listeners' \subseteq d_listeners
  BY DEF Dual!DeactivateStep, Dual!DeactivateEnds, Dual!DeactivateDisconnects
<1>4. d_dactive => d_radio' = d_radio /\ d_listeners' = d_listeners
  BY <1>2 DEF Dual!DeactivateStep, Dual!DeactivateEnds, Dual!DeactivateDisconnects, Dual!StillMine
<1>5. Dual!DualRadioOn'
  BY <1>0, <1>4 DEF Dual!SessionInv, Dual!DualRadioOn
<1>6. \A u \in d_turningOff' : u.sess \in 1 .. d_dsession /\ (d_dactive => u.sess # d_dsession)
  BY <1>1, <1>2 DEF Dual!SessionInv
<1> QED BY <1>0, <1>3, <1>4, <1>5, <1>6 DEF Dual!SessionInv

\* Links and handshakes leave the sessions alone.
LEMMA SessionKept ==
  ASSUME Dual!SessionInv, Dual!Next
  PROVE  Dual!SessionInv'
<1>1. ASSUME \/ \E d \in Devices : Dual!DeviceScanned(d) \/ Dual!CentralConnected(d) \/ Dual!LinkDrops(d)
                  \/ Dual!DisconnectTold(d) \/ Dual!CentralLeaves(d)
             \/ \E c \in d_pend : Dual!HelloArrives(c) \/ Dual!HelloFails(c) \/ \E r \in Dual!ConnectAndConfirm : Dual!ConnectEnds(c, r)
      PROVE  Dual!SessionInv'
  <2>1. UNCHANGED <<d_dsession, d_dactive, d_turningOn, d_turningOff, d_radio, d_listeners>>
    BY <1>1 DEF Dual!DeviceScanned, Dual!CentralConnected, Dual!LinkDrops, Dual!DisconnectTold, Dual!CentralLeaves,
         Dual!HelloArrives, Dual!HelloFails, Dual!ConnectEnds
  <2> QED BY <2>1 DEF Dual!SessionInv, Dual!DualRadioOn
<1> QED BY <1>1, SessionBegins, ActivationStep, DeactivationStep DEF Dual!Next

DualEntry(k) == [dev : Devices, dir : {"out", "in"}, id : 1 .. k, named : BOOLEAN]

\* An entry is made for a handshake of its own.
LEMMA EntryMade ==
  ASSUME Dual!HandshakeInv, NEW d \in Devices, NEW dir \in {"out", "in"}, NEW stage, NEW Kept, Kept \subseteq d_entries,
         d_entries' = Kept \cup {Dual!New(d, dir)}, d_made' = d_made + 1,
         d_pend' = d_pend \cup {Dual!Handshake(d, dir, stage)}
  PROVE  Dual!HandshakeInv'
<1> DEFINE e == Dual!New(d, dir)
           h == Dual!Handshake(d, dir, stage)
<1>1. e.id = d_made + 1 /\ e.named = FALSE /\ h.id = d_made + 1
  BY DEF Dual!New, Dual!Handshake
<1>9. d_made \in Nat => e \in DualEntry(d_made + 1)
  BY DEF Dual!New, DualEntry
<1> HIDE DEF e, h
<1>2. /\ d_made \in Nat /\ d_made' = d_made + 1
      /\ d_entries \subseteq DualEntry(d_made)
      /\ \A c \in d_pend : c.id \in 1 .. d_made
      /\ \A c \in d_pend : \A f \in d_entries : f.id = c.id => ~f.named
      /\ \A c, k \in d_pend : c.id = k.id => c = k
  BY DEF Dual!HandshakeInv, Dual!Own, DualEntry, DualEntry
<1>3. d_entries' = Kept \cup {e} /\ d_pend' = d_pend \cup {h}
  BY DEF e, h
<1>4. d_made' \in Nat /\ d_made + 1 \in 1 .. d_made' /\ d_made + 1 \notin 1 .. d_made /\ 1 .. d_made \subseteq 1 .. d_made'
  BY <1>2
<1>5. d_entries' \subseteq DualEntry(d_made')
  <2>1. DualEntry(d_made) \subseteq DualEntry(d_made')
    BY <1>4 DEF DualEntry
  <2> QED BY <1>2, <1>3, <1>4, <1>9, <2>1
<1>10. \A f \in d_entries : f.id \in 1 .. d_made
  BY <1>2 DEF DualEntry
<1>6. \A c \in d_pend' : c.id \in 1 .. d_made'
  BY <1>1, <1>2, <1>3, <1>4
<1>7. \A c \in d_pend' : \A f \in d_entries' : f.id = c.id => ~f.named
  BY <1>1, <1>2, <1>3, <1>4, <1>10
<1>8. \A c, k \in d_pend' : c.id = k.id => c = k
  BY <1>1, <1>2, <1>3, <1>4
<1> QED BY <1>4, <1>5, <1>6, <1>7, <1>8 DEF Dual!HandshakeInv, Dual!Own, DualEntry

\* Entries and handshakes only go, or a handshake is at its next stage.
LEMMA EntriesGo ==
  ASSUME Dual!HandshakeInv, d_entries' \subseteq d_entries, d_made' = d_made,
         \/ d_pend' \subseteq d_pend
         \/ \E c \in d_pend : d_pend' = (d_pend \ {c}) \cup {[c EXCEPT !.stage = "hello"]}
  PROVE  Dual!HandshakeInv'
<1>1. /\ d_made \in Nat /\ d_made' = d_made
      /\ d_entries \subseteq DualEntry(d_made)
      /\ \A c \in d_pend : c.id \in 1 .. d_made
      /\ \A c \in d_pend : \A f \in d_entries : f.id = c.id => ~f.named
      /\ \A c, k \in d_pend : c.id = k.id => c = k
  BY DEF Dual!HandshakeInv, Dual!Own, DualEntry, DualEntry
<1>2. /\ \A c \in d_pend' : \E k \in d_pend : k.id = c.id
      /\ \A c, k \in d_pend' : c.id = k.id => c = k
  <2>1. CASE d_pend' \subseteq d_pend
    BY <1>1, <2>1
  <2>2. ASSUME NEW c \in d_pend, d_pend' = (d_pend \ {c}) \cup {[c EXCEPT !.stage = "hello"]}
        PROVE  /\ \A x \in d_pend' : \E k \in d_pend : k.id = x.id
               /\ \A x, k \in d_pend' : x.id = k.id => x = k
    <3> DEFINE h == [c EXCEPT !.stage = "hello"]
    <3>1. h.id = c.id
      OBVIOUS
    <3>2. d_pend' = (d_pend \ {c}) \cup {h}
      BY <2>2
    <3> HIDE DEF h
    <3> QED BY <1>1, <3>1, <3>2
  <2> QED BY <2>1, <2>2
<1> QED BY <1>1, <1>2 DEF Dual!HandshakeInv, Dual!Own, DualEntry

\* What a handshake takes out or names is its own entry, which has no name yet.
LEMMA HandshakeStep ==
  ASSUME Dual!HandshakeInv, NEW c \in d_pend,
         Dual!HelloArrives(c) \/ Dual!HelloFails(c) \/ \E r \in Dual!ConnectAndConfirm : Dual!ConnectEnds(c, r)
  PROVE  /\ Dual!HandshakeInv'
         /\ \A e \in d_entries : e.named => \E f \in d_entries' : f.id = e.id
<1>1. /\ d_made \in Nat /\ d_made' = d_made
      /\ d_entries \subseteq DualEntry(d_made)
      /\ \A k \in d_pend : k.id \in 1 .. d_made
      /\ \A k \in d_pend : \A f \in d_entries : f.id = k.id => ~f.named
      /\ \A x, k \in d_pend : x.id = k.id => x = k
  BY DEF Dual!HandshakeInv, Dual!Own, DualEntry, Dual!HelloArrives, Dual!HelloFails, Dual!ConnectEnds
<1> DEFINE own == Dual!Own(c)
<1>2. own = {e \in d_entries : e.id = c.id}
  BY DEF Dual!Own
<1> HIDE DEF own
<1> DEFINE named == (d_entries \ own) \cup {[e EXCEPT !.named = TRUE] : e \in own}
<1>3. \A k \in d_pend \ {c} : k.id # c.id
  BY <1>1
<1>4. CASE d_pend' = d_pend \ {c} /\ d_entries' = named
  <2>1. ASSUME NEW f \in d_entries'
        PROVE  /\ f \in DualEntry(d_made)
               /\ f \in d_entries \/ f.id = c.id
    <3>1. CASE f \in d_entries \ own
      BY <1>1, <3>1
    <3>2. CASE f \notin d_entries \ own
      <4>1. PICK e \in own : f = [e EXCEPT !.named = TRUE]
        BY <1>4, <3>2
      <4>2. e.id = c.id /\ e \in DualEntry(d_made)
        BY <1>1, <1>2, <4>1
      <4> QED BY <4>1, <4>2 DEF DualEntry
    <3> QED BY <3>1, <3>2
  <2>2. \A e \in d_entries : \E f \in d_entries' : f.id = e.id
    <3> SUFFICES ASSUME NEW e \in d_entries PROVE \E f \in d_entries' : f.id = e.id
      OBVIOUS
    <3>1. CASE e \in own
      <4>1. [e EXCEPT !.named = TRUE] \in d_entries'
        BY <1>4, <3>1
      <4>2. [e EXCEPT !.named = TRUE].id = e.id
        OBVIOUS
      <4> QED BY <4>1, <4>2
    <3>2. CASE e \notin own
      BY <1>4, <3>2
    <3> QED BY <3>1, <3>2
  <2> HIDE DEF named
  <2>3. \A k \in d_pend' : \A f \in d_entries' : f.id = k.id => ~f.named
    BY <1>1, <1>3, <1>4, <2>1
  <2>4. d_entries' \subseteq DualEntry(d_made')
    BY <1>1, <2>1
  <2> QED BY <1>1, <1>4, <2>2, <2>3, <2>4 DEF Dual!HandshakeInv, Dual!Own, DualEntry
<1>5. ASSUME d_entries' \in {d_entries, d_entries \ own},
             d_pend' = d_pend \ {c} \/ d_pend' = (d_pend \ {c}) \cup {[c EXCEPT !.stage = "hello"]}
      PROVE  /\ Dual!HandshakeInv'
             /\ \A e \in d_entries : e.named => \E f \in d_entries' : f.id = e.id
  <2>1. d_entries' \subseteq d_entries
    BY <1>5
  <2>2. Dual!HandshakeInv'
    BY <1>1, <1>5, <2>1, EntriesGo
  <2>3. \A e \in d_entries : e.named => e \in d_entries'
    BY <1>1, <1>2, <1>5
  <2> QED BY <2>2, <2>3
<1>6. \A link : Dual!Cleanup(c, link) => d_entries' = d_entries \ own
  BY DEF Dual!Cleanup, own
<1>7. CASE Dual!HelloArrives(c)
  <2>1. d_pend' = d_pend \ {c} /\ (d_entries' = named \/ d_entries' = d_entries \ own)
    BY <1>6, <1>7 DEF Dual!HelloArrives, own
  <2> HIDE DEF named
  <2> QED BY <1>4, <1>5, <2>1
<1>8. CASE Dual!HelloFails(c)
  <2>1. d_pend' = d_pend \ {c} /\ d_entries' \in {d_entries, d_entries \ own}
    BY <1>6, <1>8 DEF Dual!HelloFails, own
  <2> QED BY <1>5, <2>1
<1>9. ASSUME NEW r \in Dual!ConnectAndConfirm, Dual!ConnectEnds(c, r)
      PROVE  /\ Dual!HandshakeInv'
             /\ \A e \in d_entries : e.named => \E f \in d_entries' : f.id = e.id
  <2>1. /\ d_entries' \in {d_entries, d_entries \ own}
        /\ d_pend' = d_pend \ {c} \/ d_pend' = (d_pend \ {c}) \cup {[c EXCEPT !.stage = "hello"]}
    BY <1>6, <1>9 DEF Dual!ConnectEnds
  <2> QED BY <1>5, <2>1
<1> QED BY <1>7, <1>8, <1>9

\* Every step keeps what holds of the handshakes, and the entry of a peer that
\* has a name.
LEMMA HandshakeKept ==
  ASSUME Dual!SessionInv, Dual!HandshakeInv, Dual!Next
  PROVE  Dual!HandshakeInv' /\ Dual!NamedKept
<1>1. ASSUME NEW d \in Devices, Dual!DeviceScanned(d) \/ Dual!CentralConnected(d)
      PROVE  Dual!HandshakeInv' /\ d_made' # d_made
  <2>0. d_made \in Nat /\ d_made' = d_made + 1
    BY <1>1 DEF Dual!HandshakeInv, Dual!DeviceScanned, Dual!CentralConnected
  <2>1. CASE Dual!DeviceScanned(d)
    <3>1. d_entries' = d_entries \cup {Dual!New(d, "out")} /\ d_pend' = d_pend \cup {Dual!Handshake(d, "out", "connect")}
      BY <2>1 DEF Dual!DeviceScanned
    <3> QED BY <2>0, <3>1, EntryMade
  <2>2. CASE Dual!CentralConnected(d)
    <3> DEFINE K == Dual!EvictOldestInboundIfFull
    <3>1. d_entries' = K \cup {Dual!New(d, "in")} /\ d_pend' = d_pend \cup {Dual!Handshake(d, "in", "hello")}
      BY <2>2 DEF Dual!CentralConnected
    <3>2. K \subseteq d_entries
      BY DEF Dual!EvictOldestInboundIfFull
    <3> HIDE DEF K
    <3> QED BY <2>0, <3>1, <3>2, EntryMade
  <2> QED BY <1>1, <2>0, <2>1, <2>2
<1>2. ASSUME Dual!ActivateRelay \/ Dual!DeactivateRelay \/ \E t \in d_turningOn : Dual!ActivateStep(t) \/ Dual!ActivateFails(t)
      PROVE  Dual!HandshakeInv' /\ Dual!NamedKept
  <2>1. d_entries' \subseteq d_entries /\ d_pend' = d_pend /\ d_made' = d_made
    BY <1>2 DEF Dual!ActivateRelay, Dual!DeactivateRelay, Dual!ActivateStep, Dual!ActivateFails
  <2>2. d_dactive => d_entries' = d_entries
    BY <1>2 DEF Dual!ActivateRelay, Dual!DeactivateRelay, Dual!ActivateStep, Dual!ActivateFails
  <2> QED BY <2>1, <2>2, EntriesGo DEF Dual!NamedKept
<1>3. ASSUME NEW t \in d_turningOff,
             Dual!DeactivateStep(t) \/ Dual!DeactivateEnds(t) \/ \E d \in t.todo : Dual!DeactivateDisconnects(t, d)
      PROVE  Dual!HandshakeInv' /\ Dual!NamedKept
  <2>1. d_entries' \in {{}, d_entries} /\ d_pend' = d_pend /\ d_made' = d_made
    BY <1>3 DEF Dual!DeactivateStep, Dual!DeactivateEnds, Dual!DeactivateDisconnects
  <2>2. d_dactive => t.sess # d_dsession
    BY DEF Dual!SessionInv
  <2>3. d_dactive => d_entries' = d_entries
    BY <1>3, <2>2 DEF Dual!DeactivateStep, Dual!DeactivateEnds, Dual!DeactivateDisconnects, Dual!StillMine
  <2>4. d_entries' \subseteq d_entries
    BY <2>1
  <2> QED BY <2>1, <2>3, <2>4, EntriesGo DEF Dual!NamedKept
<1>4. ASSUME NEW d \in Devices, Dual!LinkDrops(d) \/ Dual!DisconnectTold(d) \/ Dual!CentralLeaves(d)
      PROVE  Dual!HandshakeInv' /\ Dual!NamedKept
  <2>1. d_entries' \subseteq d_entries /\ d_pend' = d_pend /\ d_made' = d_made
    BY <1>4 DEF Dual!LinkDrops, Dual!DisconnectTold, Dual!CentralLeaves
  <2>2. \A e \in d_entries : e.dev # d => e \in d_entries'
    BY <1>4 DEF Dual!LinkDrops, Dual!DisconnectTold, Dual!CentralLeaves, Dual!At
  <2>3. Dual!NamedKept
    <3> SUFFICES ASSUME NEW e \in d_entries, ~ \E f \in d_entries' : f.id = e.id
                 PROVE  Dual!DisconnectTold(e.dev) \/ Dual!CentralLeaves(e.dev)
      BY DEF Dual!NamedKept
    <3>1. e.dev = d
      BY <2>2
    <3>2. ~ Dual!LinkDrops(d)
      BY DEF Dual!LinkDrops
    <3> QED BY <1>4, <3>1, <3>2
  <2> QED BY <2>1, <2>3, EntriesGo
<1>5. ASSUME NEW c \in d_pend,
             Dual!HelloArrives(c) \/ Dual!HelloFails(c) \/ \E r \in Dual!ConnectAndConfirm : Dual!ConnectEnds(c, r)
      PROVE  Dual!HandshakeInv' /\ Dual!NamedKept
  BY <1>5, HandshakeStep DEF Dual!NamedKept
<1>6. d_made' # d_made => Dual!NamedKept
  BY DEF Dual!NamedKept
<1> QED BY <1>1, <1>2, <1>3, <1>4, <1>5, <1>6 DEF Dual!Next

\* Whatever sessions of the dual-role relay overlap, the radio of an active one stays
\* on and an identified peer keeps its entry.
THEOREM DualSessionsHold == MCSpec => DualSessionsApart
<1> DEFINE I == which = "dual" => Dual!SessionInv /\ Dual!HandshakeInv
           K == which = "dual" => Dual!NamedKept
<1>1. MCInit => I
  BY DualStart DEF MCInit
<1>2. I /\ [MCNext]_mcVars => I' /\ [K]_mcVars
  <2> SUFFICES ASSUME I, [MCNext]_mcVars PROVE I' /\ [K]_mcVars
    OBVIOUS
  <2>1. CASE which = "dual" /\ Dual!Next /\ UNCHANGED which
    BY <2>1, SessionKept, HandshakeKept
  <2>2. CASE which # "dual" /\ UNCHANGED which
    BY <2>2
  <2>3. CASE UNCHANGED mcVars
    <3>1. UNCHANGED <<which, d_dsession, d_dactive, d_turningOn, d_turningOff, d_radio, d_listeners, d_entries, d_pend, d_made>>
      BY <2>3 DEF mcVars, dualVars
    <3>2. Dual!SessionInv' <=> Dual!SessionInv
      BY <3>1 DEF Dual!SessionInv, Dual!DualRadioOn
    <3>3. Dual!HandshakeInv' <=> Dual!HandshakeInv
      BY <3>1 DEF Dual!HandshakeInv, Dual!Own
    <3> QED BY <2>3, <3>1, <3>2, <3>3
  <2>4. (UNCHANGED which /\ (which = "dual" => Dual!Next)) \/ UNCHANGED mcVars
    BY DEF MCNext
  <2> QED BY <2>1, <2>2, <2>3, <2>4
<1>3. I => (which = "dual" => Dual!DualRadioOn)
  BY DEF Dual!SessionInv
<1> QED BY <1>1, <1>2, <1>3, PTL DEF MCSpec, DualSessionsApart

-----------------------------------------------------------------------------
(***************************************************************************)
(* Packets in fragments: what was written of a packet has its place in the *)
(* reassembler, or there is a packet it may be lost to.                    *)
(***************************************************************************)
MessageOf == [id : 0 .. (IdSpace - 1), total : Sizes, next : Nat]

LEMMA MessageTyped ==
  ASSUME Frag!MessagesSound, NEW m \in DOMAIN g_msgs
  PROVE  /\ g_msgs[m] \in MessageOf /\ g_msgs[m].id \in Int /\ g_msgs[m].next \in Nat /\ g_msgs[m].total \in Nat \ {0}
         /\ g_msgs[m].next <= g_msgs[m].total
<1>1. g_msgs \in Seq(MessageOf)
  BY DEF Frag!MessagesSound, MessageOf
<1>2. g_msgs[m] \in MessageOf
  BY <1>1
<1>3. g_msgs[m].id \in 0 .. (IdSpace - 1) /\ g_msgs[m].next \in Nat /\ g_msgs[m].total \in Sizes
  BY <1>2 DEF MessageOf
<1>4. g_msgs[m].next <= g_msgs[m].total
  BY DEF Frag!MessagesSound
<1>5. g_msgs[m].id \in Int
  BY <1>3
<1>6. g_msgs[m].total \in Nat \ {0}
  BY <1>3, FragConstants DEF Frag!FragmentsAssumption
<1> QED BY <1>2, <1>3, <1>4, <1>5, <1>6

\* While not too many are, packets being written at once have ids of their own.
LEMMA IdsApart ==
  ASSUME Frag!MessagesSound, NEW k \in Frag!InFlight, NEW m \in Frag!InFlight, k # m,
         k \notin g_crowded \/ m \notin g_crowded
  PROVE  g_msgs[k].id # g_msgs[m].id
<1>0. ~Frag!TooMany(Frag!InFlight)
  BY DEF Frag!MessagesSound
<1>1. /\ k \in DOMAIN g_msgs /\ m \in DOMAIN g_msgs /\ k \in Nat /\ m \in Nat /\ IdSpace \in Nat
      /\ ~(m >= k + IdSpace) /\ ~(k >= m + IdSpace)
  BY <1>0, FragConstants DEF Frag!MessagesSound, Frag!InFlight, Frag!FragmentsAssumption, Frag!TooMany
<1>2. g_msgs[k].id \in Int /\ g_msgs[m].id \in Int
  BY <1>1, MessageTyped
<1>3. \A h, l \in DOMAIN g_msgs : h <= l /\ l < h + IdSpace =>
         g_msgs[l].id = g_msgs[h].id + (l - h) \/ g_msgs[l].id = g_msgs[h].id + (l - h) - IdSpace
  BY DEF Frag!MessagesSound
<1>4. CASE k < m
  <2>1. k <= m /\ m < k + IdSpace
    BY <1>1, <1>4
  <2>2. g_msgs[m].id = g_msgs[k].id + (m - k) \/ g_msgs[m].id = g_msgs[k].id + (m - k) - IdSpace
    BY <1>1, <1>3, <2>1
  <2> HIDE <1>3
  <2> QED BY <1>1, <1>2, <1>4, <2>1, <2>2
<1>5. CASE m < k
  <2>1. m <= k /\ k < m + IdSpace
    BY <1>1, <1>5
  <2>2. g_msgs[k].id = g_msgs[m].id + (k - m) \/ g_msgs[k].id = g_msgs[m].id + (k - m) - IdSpace
    BY <1>1, <1>3, <2>1
  <2> HIDE <1>3
  <2> QED BY <1>1, <1>2, <1>5, <2>1, <2>2
<1> QED BY <1>1, <1>4, <1>5

\* A packet with a fragment in some place is written no more, and did not come out:
\* others may be lost to it.
LEMMA StaleIsExcuse ==
  ASSUME Frag!MessagesSound, Frag!EntriesSound, NEW i \in DOMAIN g_entries, NEW x \in DOMAIN g_entries[i].chunks,
         g_entries[i].chunks[x] \notin Frag!InFlight
  PROVE  g_entries[i].chunks[x] \in g_failed \cup Frag!Lost
<1> DEFINE k == g_entries[i].chunks[x]
<1>1. k \in DOMAIN g_msgs /\ k \notin g_out /\ k \notin Frag!InFlight
  BY DEF Frag!EntriesSound
<1> HIDE DEF k
<1>2. g_msgs[k].next \in Nat /\ g_msgs[k].total \in Nat /\ g_msgs[k].next <= g_msgs[k].total
  BY <1>1, MessageTyped
<1>4. k \in g_failed \/ g_msgs[k].next = g_msgs[k].total
  BY <1>1, <1>2 DEF Frag!InFlight
<1>5. k \in g_failed \cup Frag!Lost
  BY <1>1, <1>4 DEF Frag!Lost
<1> QED BY <1>5 DEF k

\* When a packet that has no place finds them all taken, and not too many are being
\* written, one is of none of these.
LEMMA StalePlace ==
  ASSUME Frag!MessagesSound, Frag!EntriesSound, ~Frag!TooMany(Frag!InFlight), NEW n \in Frag!InFlight,
         \A i \in DOMAIN g_entries : g_entries[i].id # g_msgs[n].id, Len(g_entries) >= MaxReassemblies
  PROVE  \E i \in DOMAIN g_entries : \A k \in Frag!InFlight : g_msgs[k].id # g_entries[i].id
<1> SUFFICES ASSUME \A i \in DOMAIN g_entries : \E k \in Frag!InFlight : g_msgs[k].id = g_entries[i].id
             PROVE  FALSE
  OBVIOUS
<1> DEFINE I == DOMAIN g_entries
           T == Frag!InFlight \ {n}
           g == [i \in I |-> CHOOSE k \in Frag!InFlight : g_msgs[k].id = g_entries[i].id]
<1>1. /\ Len(g_entries) \in Nat /\ I = 1 .. Len(g_entries)
      /\ \A i, j \in I : g_entries[i].id = g_entries[j].id => i = j
  BY DEF Frag!EntriesSound
<1>2. \A i \in I : g[i] \in Frag!InFlight /\ g_msgs[g[i]].id = g_entries[i].id
  OBVIOUS
<1>3. \A i \in I : g[i] \in T
  BY <1>2
<1>4. g \in Injection(I, T)
  <2>1. g \in [I -> T]
    BY <1>3
  <2>2. \A i, j \in I : g[i] = g[j] => i = j
    BY <1>1, <1>2
  <2> QED BY <2>1, <2>2 DEF Injection, IsInjective
<1>5. IsFiniteSet(Frag!InFlight) /\ ~(Cardinality(Frag!InFlight) > MaxReassemblies) /\ MaxReassemblies \in Nat
  <2>1. DOMAIN g_msgs = 1 .. Len(g_msgs) /\ Len(g_msgs) \in Nat
    BY DEF Frag!MessagesSound
  <2>2. IsFiniteSet(DOMAIN g_msgs)
    BY <2>1, FS_Interval
  <2>3. IsFiniteSet(Frag!InFlight)
    BY <2>2, FS_Subset DEF Frag!InFlight
  <2> QED BY <2>3, FragConstants DEF Frag!TooMany, Frag!FragmentsAssumption, Frag!Cardinality, Cardinality
<1>6. IsFiniteSet(T) /\ Cardinality(T) = Cardinality(Frag!InFlight) - 1
  BY <1>5, FS_RemoveElement
<1>7. Cardinality(I) <= Cardinality(T) /\ Cardinality(I) = Len(g_entries)
  <2>1. Cardinality(I) <= Cardinality(T)
    BY <1>4, <1>6, FS_Injection
  <2> HIDE DEF I, T, g
  <2>2. Cardinality(1 .. Len(g_entries)) = Len(g_entries)
    BY <1>1, FS_Interval
  <2> QED BY <1>1, <2>1, <2>2
<1>8. Cardinality(T) \in Nat /\ Cardinality(Frag!InFlight) \in Nat
  BY <1>5, <1>6, FS_CardinalityType
<1> HIDE DEF I, T, g
<1> QED BY <1>1, <1>5, <1>6, <1>7, <1>8

\* A list without one of its places.
LEMMA PlaceRemoved ==
  ASSUME NEW S, NEW es \in Seq(S), NEW i \in 1 .. Len(es)
  PROVE  /\ Frag!RemoveAt(es, i) \in Seq(S) /\ DOMAIN Frag!RemoveAt(es, i) = 1 .. (Len(es) - 1)
         /\ \A j \in 1 .. (Len(es) - 1) : Frag!RemoveAt(es, i)[j] = IF j < i THEN es[j] ELSE es[j + 1]
<1>1. Frag!RemoveAt(es, i) = SubSeq(es, 1, i - 1) \o SubSeq(es, i + 1, Len(es))
  BY DEF Frag!RemoveAt
<1>2. Len(es) \in Nat /\ i \in Nat
  OBVIOUS
<1>3. /\ SubSeq(es, 1, i - 1) \in Seq(S) /\ Len(SubSeq(es, 1, i - 1)) = i - 1
      /\ \A j \in 1 .. (i - 1) : SubSeq(es, 1, i - 1)[j] = es[j]
  BY <1>2
<1>4. /\ SubSeq(es, i + 1, Len(es)) \in Seq(S) /\ Len(SubSeq(es, i + 1, Len(es))) = Len(es) - i
      /\ \A j \in 1 .. (Len(es) - i) : SubSeq(es, i + 1, Len(es))[j] = es[j + i]
  BY <1>2
<1> DEFINE p == SubSeq(es, 1, i - 1)
           q == SubSeq(es, i + 1, Len(es))
<1>5. /\ p \in Seq(S) /\ q \in Seq(S) /\ Len(p) = i - 1 /\ Len(q) = Len(es) - i
      /\ \A j \in 1 .. (i - 1) : p[j] = es[j]
      /\ \A j \in 1 .. (Len(es) - i) : q[j] = es[j + i]
  BY <1>3, <1>4
<1>6. Frag!RemoveAt(es, i) = p \o q
  BY <1>1
<1> HIDE DEF p, q
<1>7. /\ p \o q \in Seq(S) /\ DOMAIN (p \o q) = 1 .. (Len(es) - 1)
      /\ \A j \in 1 .. (Len(es) - 1) : (p \o q)[j] = IF j <= i - 1 THEN p[j] ELSE q[j - (i - 1)]
  BY <1>2, <1>5
<1>8. ASSUME NEW j \in 1 .. (Len(es) - 1) PROVE (p \o q)[j] = IF j < i THEN es[j] ELSE es[j + 1]
  <2>1. CASE j < i
    BY <1>2, <1>5, <1>7, <2>1
  <2>2. CASE ~(j < i)
    <3>1. j - (i - 1) \in 1 .. (Len(es) - i) /\ ~(j <= i - 1) /\ (j - (i - 1)) + i = j + 1
      BY <1>2, <2>2
    <3>2. (p \o q)[j] = q[j - (i - 1)]
      BY <1>7, <3>1
    <3>3. q[j - (i - 1)] = es[(j - (i - 1)) + i]
      BY <1>5, <3>1
    <3> QED BY <2>2, <3>1, <3>2, <3>3
  <2> QED BY <2>1, <2>2
<1> QED BY <1>6, <1>7, <1>8

\* The places after a fragment is added: the one it went to, unless that is complete
\* and free again, and the others in the order they had, except the oldest if all were
\* taken and the fragment needed a new one.
Others(es, f, i) ==
  /\ f \in [DOMAIN es -> Nat] /\ \A j, k \in DOMAIN es : j < k => f[j] < f[k]
  /\ \A j \in DOMAIN es : f[j] # i => f[j] \in DOMAIN g_entries /\ es[j] = g_entries[f[j]]

Added(m, f, i, total, got, all) ==
  /\ g_entries' \in Seq({g_entries'[j] : j \in DOMAIN g_entries'})
  /\ Others(g_entries', f, i)
  /\ \A j \in DOMAIN g_entries' : f[j] = i => ~all /\ g_entries'[j] = [id |-> g_msgs[m].id, total |-> total, chunks |-> got]
  /\ ~all => \E j \in DOMAIN g_entries' : f[j] = i
  /\ \A k \in DOMAIN g_entries : k # i =>
       \/ \E j \in DOMAIN g_entries' : f[j] = k
       \/ /\ k = 1 /\ i \notin DOMAIN g_entries /\ Len(g_entries) >= MaxReassemblies
  /\ \/ /\ i = Len(g_entries) + 1 /\ \A k \in DOMAIN g_entries : g_entries[k].id # g_msgs[m].id
        /\ total = g_msgs[m].total /\ got = [x \in {g_msgs[m].next} |-> m]
     \/ /\ i \in DOMAIN g_entries /\ g_entries[i].id = g_msgs[m].id /\ total = g_entries[i].total
        /\ got = [x \in DOMAIN g_entries[i].chunks \cup {g_msgs[m].next} |->
                    IF x = g_msgs[m].next THEN m ELSE g_entries[i].chunks[x]]
  /\ all <=> 0 .. (total - 1) \subseteq DOMAIN got
  /\ g_out' = IF all /\ total = g_msgs[m].total /\ (\A x \in 0 .. (total - 1) : got[x] = m)
              THEN g_out \cup {m} ELSE g_out

LEMMA FragmentAdded ==
  ASSUME Frag!MessagesSound, Frag!EntriesSound, NEW m \in DOMAIN g_msgs, Frag!AddFragment(m)
  PROVE  \E f, i, total, got : \E all \in BOOLEAN : Added(m, f, i, total, got, all)
<1> DEFINE S == {g_entries[k] : k \in DOMAIN g_entries}
           id == g_msgs[m].id
           size == g_msgs[m].total
           new == [id |-> id, total |-> size, chunks |-> <<>>]
           room == IF Len(g_entries) >= MaxReassemblies THEN Tail(g_entries) ELSE g_entries
           chunks(x) == [k \in DOMAIN x.chunks \cup {g_msgs[m].next} |-> IF k = g_msgs[m].next THEN m ELSE x.chunks[k]]
           d == IF Len(g_entries) >= MaxReassemblies THEN 1 ELSE 0
<1>1. /\ g_entries \in Seq(S) /\ Len(g_entries) \in Nat /\ DOMAIN g_entries = 1 .. Len(g_entries)
      /\ \A j, k \in DOMAIN g_entries : g_entries[j].id = g_entries[k].id => j = k
  BY DEF Frag!EntriesSound
<1>2. PICK p \in DOMAIN Frag!Opened(m) :
        /\ Frag!Opened(m)[p].id = id
        /\ g_entries' = IF 0 .. (Frag!Opened(m)[p].total - 1) \subseteq DOMAIN chunks(Frag!Opened(m)[p])
                        THEN Frag!RemoveAt(Frag!Opened(m), p)
                        ELSE [Frag!Opened(m) EXCEPT ![p] = [id |-> Frag!Opened(m)[p].id, total |-> Frag!Opened(m)[p].total,
                                                            chunks |-> chunks(Frag!Opened(m)[p])]]
        /\ g_out' = IF /\ 0 .. (Frag!Opened(m)[p].total - 1) \subseteq DOMAIN chunks(Frag!Opened(m)[p])
                       /\ Frag!Opened(m)[p].total = size
                       /\ \A k \in 0 .. (Frag!Opened(m)[p].total - 1) : chunks(Frag!Opened(m)[p])[k] = m
                    THEN g_out \cup {m} ELSE g_out
  BY DEF Frag!AddFragment
<1>3. PICK es : es = Frag!Opened(m)
  OBVIOUS
<1>4. PICK total : total = es[p].total
  OBVIOUS
<1>5. PICK got : got = chunks(es[p])
  OBVIOUS
<1>6. PICK all \in BOOLEAN : all <=> 0 .. (total - 1) \subseteq DOMAIN got
  OBVIOUS
<1>7. /\ p \in DOMAIN es /\ es[p].id = id
      /\ g_entries' = IF all THEN Frag!RemoveAt(es, p) ELSE [es EXCEPT ![p] = [id |-> id, total |-> total, chunks |-> got]]
      /\ g_out' = IF all /\ total = size /\ (\A k \in 0 .. (total - 1) : got[k] = m) THEN g_out \cup {m} ELSE g_out
  <2>1. p \in DOMAIN es /\ es[p].id = id
    BY <1>2, <1>3
  <2>2. g_entries' = IF 0 .. (total - 1) \subseteq DOMAIN got THEN Frag!RemoveAt(es, p)
                     ELSE [es EXCEPT ![p] = [id |-> id, total |-> total, chunks |-> got]]
    BY <1>2, <1>3, <1>4, <1>5
  <2>3. g_out' = IF 0 .. (total - 1) \subseteq DOMAIN got /\ total = size /\ (\A k \in 0 .. (total - 1) : got[k] = m)
                 THEN g_out \cup {m} ELSE g_out
    BY <1>2, <1>3, <1>4, <1>5
  <2> HIDE DEF id, size
  <2> QED BY <1>6, <2>1, <2>2, <2>3
<1> DEFINE Shifted(e) ==
        /\ es \in Seq(S \cup {new}) /\ Len(es) \in Nat /\ DOMAIN es = 1 .. Len(es) /\ p \in 1 .. Len(es)
        /\ \A j \in 1 .. Len(es) : j # p => j + e \in DOMAIN g_entries /\ es[j] = g_entries[j + e]
        /\ \A k \in DOMAIN g_entries : k # p + e => k - e \in 1 .. Len(es) \/ (k = 1 /\ e = 1)
        /\ e = 1 => p + e \notin DOMAIN g_entries /\ Len(g_entries) >= MaxReassemblies
        /\ \/ /\ p + e = Len(g_entries) + 1 /\ \A k \in DOMAIN g_entries : g_entries[k].id # id
              /\ total = size /\ got = [x \in {g_msgs[m].next} |-> m]
           \/ /\ p + e \in DOMAIN g_entries /\ g_entries[p + e].id = id /\ total = g_entries[p + e].total
              /\ got = [x \in DOMAIN g_entries[p + e].chunks \cup {g_msgs[m].next} |->
                          IF x = g_msgs[m].next THEN m ELSE g_entries[p + e].chunks[x]]
<1>8. \E e \in {0, 1} : Shifted(e)
  <2>1. CASE Frag!At(id) = {}
    <3>1. es = Append(room, new)
      BY <1>3, <2>1 DEF Frag!Opened
    <3>2. \A k \in DOMAIN g_entries : g_entries[k].id # id
      BY <2>1 DEF Frag!At
    <3>3. /\ room \in Seq(S) /\ Len(room) = Len(g_entries) - d /\ d \in {0, 1} /\ Len(room) \in Nat
          /\ \A j \in 1 .. Len(room) : room[j] = g_entries[j + d] /\ j + d \in DOMAIN g_entries
      <4>1. CASE Len(g_entries) >= MaxReassemblies
        <5>1. MaxReassemblies >= 1 /\ MaxReassemblies \in Nat
          BY FragConstants DEF Frag!FragmentsAssumption
        <5>2. g_entries # <<>> /\ room = Tail(g_entries) /\ d = 1
          BY <1>1, <4>1, <5>1
        <5>3. /\ Tail(g_entries) \in Seq(S) /\ Len(Tail(g_entries)) = Len(g_entries) - 1
              /\ \A j \in 1 .. Len(Tail(g_entries)) : Tail(g_entries)[j] = g_entries[j + 1]
          <6>1. g_entries # <<>>
            BY <5>2
          <6> HIDE DEF S
          <6> QED BY <1>1, <6>1
        <5> QED BY <1>1, <5>1, <5>2, <5>3, <4>1
      <4>2. CASE ~(Len(g_entries) >= MaxReassemblies)
        <5>1. room = g_entries /\ d = 0
          BY <4>2
        <5> HIDE DEF S, d, room
        <5> QED BY <1>1, <5>1
      <4> QED BY <4>1, <4>2
    <3>4. d = 1 => Len(g_entries) >= MaxReassemblies
      OBVIOUS
    <3> HIDE DEF S, new, room, d
    <3>5. /\ es \in Seq(S \cup {new}) /\ Len(es) = Len(room) + 1 /\ es[Len(room) + 1] = new
          /\ \A j \in 1 .. Len(room) : es[j] = room[j]
      BY <3>1, <3>3
    <3>6. p = Len(room) + 1
      <4> SUFFICES ASSUME p # Len(room) + 1 PROVE FALSE
        OBVIOUS
      <4>1. p \in 1 .. Len(room)
        BY <1>7, <3>3, <3>5
      <4> QED BY <1>7, <3>2, <3>3, <3>5, <4>1
    <3>7. /\ Len(es) \in Nat /\ DOMAIN es = 1 .. Len(es) /\ p \in 1 .. Len(es) /\ p + d = Len(g_entries) + 1
          /\ p + d \notin DOMAIN g_entries
      BY <1>1, <3>3, <3>5, <3>6
    <3>8. \A j \in 1 .. Len(es) : j # p => j + d \in DOMAIN g_entries /\ es[j] = g_entries[j + d]
      BY <3>3, <3>5, <3>6
    <3>9. \A k \in DOMAIN g_entries : k # p + d => k - d \in 1 .. Len(es) \/ (k = 1 /\ d = 1)
      <4>1. Len(g_entries) \in Nat /\ d \in {0, 1} /\ Len(es) = (Len(g_entries) - d) + 1
        BY <1>1, <3>3, <3>5
      <4>2. ASSUME NEW k \in 1 .. Len(g_entries) PROVE k - d \in 1 .. Len(es) \/ (k = 1 /\ d = 1)
        <5>1. CASE d = 0
          BY <4>1, <5>1
        <5>2. CASE d = 1
          <6>1. Len(es) = Len(g_entries)
            BY <4>1, <5>2
          <6>2. k = 1 \/ k - 1 \in 1 .. Len(g_entries)
            BY <4>1
          <6> QED BY <5>2, <6>1, <6>2
        <5> QED BY <4>1, <5>1, <5>2
      <4> QED BY <1>1, <4>2
    <3>10. total = size /\ got = [x \in {g_msgs[m].next} |-> m]
      <4>1. es[p].total = size /\ es[p].chunks = <<>>
        BY <3>5, <3>6 DEF new
      <4>2. DOMAIN es[p].chunks = {}
        BY <4>1
      <4>3. got = [k \in DOMAIN es[p].chunks \cup {g_msgs[m].next} |-> IF k = g_msgs[m].next THEN m ELSE es[p].chunks[k]]
        BY <1>5
      <4>4. \A k \in {g_msgs[m].next} : k = g_msgs[m].next
        OBVIOUS
      <4>5. got = [k \in {g_msgs[m].next} |-> IF k = g_msgs[m].next THEN m ELSE es[p].chunks[k]]
        BY <4>2, <4>3
      <4> QED BY <1>4, <4>1, <4>5
    <3> HIDE DEF id, size
    <3>11. Shifted(d)
      <4>1. d = 1 => p + d \notin DOMAIN g_entries /\ Len(g_entries) >= MaxReassemblies
        BY <3>4, <3>7
      <4> QED BY <3>2, <3>5, <3>7, <3>8, <3>9, <3>10, <4>1
    <3> HIDE DEF Shifted
    <3> QED BY <3>3, <3>11
  <2>2. CASE Frag!At(id) # {}
    <3>1. es = g_entries
      BY <1>3, <2>2 DEF Frag!Opened
    <3>2. es \in Seq(S \cup {new})
      BY <1>1, <3>1
    <3>3. /\ p + 0 = p /\ p + 0 \in DOMAIN g_entries /\ g_entries[p + 0].id = id /\ total = g_entries[p + 0].total
          /\ \A j \in DOMAIN es : j + 0 = j /\ j - 0 = j
      BY <1>1, <1>4, <1>7, <3>1
    <3>4. got = [x \in DOMAIN g_entries[p].chunks \cup {g_msgs[m].next} |->
                   IF x = g_msgs[m].next THEN m ELSE g_entries[p].chunks[x]]
      BY <1>5, <3>1
    <3> HIDE DEF S, new, id, size
    <3>5. Len(es) \in Nat /\ DOMAIN es = 1 .. Len(es) /\ p \in 1 .. Len(es)
      BY <1>1, <1>7, <3>1
    <3>6. /\ \A j \in 1 .. Len(es) : j # p => j + 0 \in DOMAIN g_entries /\ es[j] = g_entries[j + 0]
          /\ \A k \in DOMAIN g_entries : k # p + 0 => k - 0 \in 1 .. Len(es) \/ (k = 1 /\ 0 = 1)
      <4>1. \A j \in 1 .. Len(g_entries) : j + 0 = j /\ j - 0 = j
        OBVIOUS
      <4>2. \A j \in 1 .. Len(es) : j + 0 \in DOMAIN g_entries /\ es[j] = g_entries[j + 0]
        BY <1>1, <3>1, <4>1
      <4>3. \A k \in DOMAIN g_entries : k - 0 \in 1 .. Len(es)
        BY <1>1, <3>1, <4>1
      <4> QED BY <4>2, <4>3
    <3>7. got = [x \in DOMAIN g_entries[p + 0].chunks \cup {g_msgs[m].next} |->
                   IF x = g_msgs[m].next THEN m ELSE g_entries[p + 0].chunks[x]]
      BY <3>3, <3>4
    <3>8. Shifted(0)
      BY <3>2, <3>3, <3>5, <3>6, <3>7
    <3> HIDE DEF Shifted
    <3> QED BY <3>8
  <2> QED BY <2>1, <2>2
<1> HIDE DEF S, new, id, size, room, d
<1>9. PICK e \in {0, 1} : Shifted(e)
  BY <1>8
<1>10. /\ es \in Seq(S \cup {new}) /\ Len(es) \in Nat /\ DOMAIN es = 1 .. Len(es) /\ p \in 1 .. Len(es)
       /\ \A j \in 1 .. Len(es) : j # p => j + e \in DOMAIN g_entries /\ es[j] = g_entries[j + e]
  BY <1>9
<1>11. /\ \A k \in DOMAIN g_entries : k # p + e => k - e \in 1 .. Len(es) \/ (k = 1 /\ e = 1)
       /\ e = 1 => p + e \notin DOMAIN g_entries /\ Len(g_entries) >= MaxReassemblies
  BY <1>9
<1>12. \/ /\ p + e = Len(g_entries) + 1 /\ \A k \in DOMAIN g_entries : g_entries[k].id # id
          /\ total = size /\ got = [x \in {g_msgs[m].next} |-> m]
       \/ /\ p + e \in DOMAIN g_entries /\ g_entries[p + e].id = id /\ total = g_entries[p + e].total
          /\ got = [x \in DOMAIN g_entries[p + e].chunks \cup {g_msgs[m].next} |->
                      IF x = g_msgs[m].next THEN m ELSE g_entries[p + e].chunks[x]]
  BY <1>9
<1> HIDE DEF Shifted
<1> DEFINE rec == [id |-> id, total |-> total, chunks |-> got]
           T == S \cup {new, rec}
<1>13. g_entries' = IF all THEN Frag!RemoveAt(es, p) ELSE [es EXCEPT ![p] = rec]
  BY <1>7
<1>14. es \in Seq(T) /\ rec \in T
  BY <1>10
<1> HIDE DEF rec, T
<1>15. \E h \in [DOMAIN g_entries' -> 1 .. Len(es)] :
         /\ g_entries' \in Seq(T)
         /\ \A j, k \in DOMAIN g_entries' : j < k => h[j] < h[k]
         /\ \A j \in DOMAIN g_entries' : IF h[j] = p THEN ~all /\ g_entries'[j] = rec ELSE g_entries'[j] = es[h[j]]
         /\ \A k \in 1 .. Len(es) : k # p \/ ~all => \E j \in DOMAIN g_entries' : h[j] = k
  <2>1. CASE all
    <3> DEFINE h == [j \in 1 .. (Len(es) - 1) |-> IF j < p THEN j ELSE j + 1]
    <3>1. g_entries' = Frag!RemoveAt(es, p)
      BY <1>13, <2>1
    <3>2. /\ g_entries' \in Seq(T) /\ DOMAIN g_entries' = 1 .. (Len(es) - 1)
          /\ \A j \in 1 .. (Len(es) - 1) : g_entries'[j] = IF j < p THEN es[j] ELSE es[j + 1]
      BY <1>10, <1>14, <3>1, PlaceRemoved
    <3>3. Len(es) \in Nat /\ p \in 1 .. Len(es)
      BY <1>10
    <3>4. h \in [DOMAIN g_entries' -> 1 .. Len(es)]
      BY <3>2, <3>3
    <3>5. \A j \in 1 .. (Len(es) - 1) : h[j] = IF j < p THEN j ELSE j + 1
      OBVIOUS
    <3> HIDE DEF h
    <3>6. \A j, k \in DOMAIN g_entries' : j < k => h[j] < h[k]
      BY <3>2, <3>3, <3>5
    <3>7. \A j \in DOMAIN g_entries' : h[j] # p /\ g_entries'[j] = es[h[j]]
      BY <3>2, <3>3, <3>5
    <3>8. ASSUME NEW k \in 1 .. Len(es), k # p PROVE \E j \in DOMAIN g_entries' : h[j] = k
      <4>1. CASE k < p
        <5>1. k \in 1 .. (Len(es) - 1)
          BY <3>3, <4>1
        <5> QED BY <3>2, <3>5, <4>1, <5>1
      <4>2. CASE k > p
        <5>1. k - 1 \in 1 .. (Len(es) - 1) /\ ~(k - 1 < p) /\ (k - 1) + 1 = k
          BY <3>3, <4>2
        <5> QED BY <3>2, <3>5, <5>1
      <4> QED BY <3>3, <3>8, <4>1, <4>2
    <3>9. \A k \in 1 .. Len(es) : k # p \/ ~all => \E j \in DOMAIN g_entries' : h[j] = k
      BY <2>1, <3>8
    <3> QED BY <3>2, <3>4, <3>6, <3>7, <3>9
  <2>2. CASE ~all
    <3> DEFINE h == [j \in 1 .. Len(es) |-> j]
    <3>1. g_entries' = [es EXCEPT ![p] = rec]
      BY <1>13, <2>2
    <3>2. /\ g_entries' \in Seq(T) /\ DOMAIN g_entries' = 1 .. Len(es)
          /\ \A j \in 1 .. Len(es) : g_entries'[j] = IF j = p THEN rec ELSE es[j]
      BY <1>10, <1>14, <3>1
    <3>3. h \in [DOMAIN g_entries' -> 1 .. Len(es)] /\ \A j \in 1 .. Len(es) : h[j] = j
      BY <3>2
    <3> HIDE DEF h
    <3>4. \A j, k \in DOMAIN g_entries' : j < k => h[j] < h[k]
      BY <3>2, <3>3
    <3> QED BY <2>2, <3>2, <3>3, <3>4
  <2> QED BY <2>1, <2>2
<1>16. PICK h \in [DOMAIN g_entries' -> 1 .. Len(es)] :
         /\ g_entries' \in Seq(T)
         /\ \A j, k \in DOMAIN g_entries' : j < k => h[j] < h[k]
         /\ \A j \in DOMAIN g_entries' : IF h[j] = p THEN ~all /\ g_entries'[j] = rec ELSE g_entries'[j] = es[h[j]]
         /\ \A k \in 1 .. Len(es) : k # p \/ ~all => \E j \in DOMAIN g_entries' : h[j] = k
  BY <1>15
<1> DEFINE f == [j \in DOMAIN g_entries' |-> h[j] + e]
           i == p + e
<1>17. \A j \in DOMAIN g_entries' : /\ f[j] = h[j] + e /\ h[j] \in Nat /\ f[j] \in Nat /\ (f[j] = i <=> h[j] = p)
  BY <1>10, <1>16
<1>18. f \in [DOMAIN g_entries' -> Nat]
  BY <1>17
<1> HIDE DEF f, i
<1>19. g_entries' \in Seq({g_entries'[j] : j \in DOMAIN g_entries'})
  <2>1. g_entries' \in Seq(T)
    BY <1>16
  <2> QED BY <2>1
<1>20. Others(g_entries', f, i)
  <2>1. \A j, k \in DOMAIN g_entries' : j < k => f[j] < f[k]
    BY <1>16, <1>17
  <2>2. ASSUME NEW j \in DOMAIN g_entries', f[j] # i PROVE f[j] \in DOMAIN g_entries /\ g_entries'[j] = g_entries[f[j]]
    <3>1. h[j] # p /\ h[j] \in 1 .. Len(es) /\ f[j] = h[j] + e
      BY <1>16, <1>17, <2>2
    <3>2. g_entries'[j] = es[h[j]]
      BY <1>16, <3>1
    <3> QED BY <1>10, <3>1, <3>2
  <2> QED BY <1>18, <2>1, <2>2 DEF Others
<1>21. \A j \in DOMAIN g_entries' : f[j] = i => ~all /\ g_entries'[j] = [id |-> g_msgs[m].id, total |-> total, chunks |-> got]
  <2>1. rec = [id |-> g_msgs[m].id, total |-> total, chunks |-> got]
    BY DEF rec, id
  <2> QED BY <1>16, <1>17, <2>1
<1>22. ~all => \E j \in DOMAIN g_entries' : f[j] = i
  BY <1>10, <1>16, <1>17
<1>23. ASSUME NEW k \in DOMAIN g_entries, k # i
       PROVE  \/ \E j \in DOMAIN g_entries' : f[j] = k
              \/ k = 1 /\ i \notin DOMAIN g_entries /\ Len(g_entries) >= MaxReassemblies
  <2>1. k - e \in 1 .. Len(es) \/ (k = 1 /\ e = 1)
    BY <1>11, <1>23 DEF i
  <2>2. CASE k - e \in 1 .. Len(es)
    <3>1. k \in Nat /\ (k - e) + e = k /\ k - e # p
      BY <1>1, <1>10, <1>23 DEF i
    <3>2. PICK j \in DOMAIN g_entries' : h[j] = k - e
      BY <1>16, <2>2, <3>1
    <3> QED BY <1>17, <3>1, <3>2
  <2>3. CASE k = 1 /\ e = 1
    BY <1>11, <2>3 DEF i
  <2> QED BY <2>1, <2>2, <2>3
<1>24. \/ /\ i = Len(g_entries) + 1 /\ \A k \in DOMAIN g_entries : g_entries[k].id # g_msgs[m].id
          /\ total = g_msgs[m].total /\ got = [x \in {g_msgs[m].next} |-> m]
       \/ /\ i \in DOMAIN g_entries /\ g_entries[i].id = g_msgs[m].id /\ total = g_entries[i].total
          /\ got = [x \in DOMAIN g_entries[i].chunks \cup {g_msgs[m].next} |->
                      IF x = g_msgs[m].next THEN m ELSE g_entries[i].chunks[x]]
  BY <1>12 DEF i, id, size
<1>25. /\ all <=> 0 .. (total - 1) \subseteq DOMAIN got
       /\ g_out' = IF all /\ total = g_msgs[m].total /\ (\A x \in 0 .. (total - 1) : got[x] = m)
                   THEN g_out \cup {m} ELSE g_out
  BY <1>6, <1>7 DEF size
<1>26. Added(m, f, i, total, got, all)
  BY <1>19, <1>20, <1>21, <1>22, <1>23, <1>24, <1>25 DEF Added
<1> QED BY <1>26

\* A packet that was written by one fragment more.
LEMMA Written ==
  ASSUME Frag!MessagesSound, NEW m, Frag!Write(m)
  PROVE  /\ m \in Frag!InFlight /\ m \in DOMAIN g_msgs /\ m \notin g_failed /\ m \notin g_out
         /\ g_msgs[m].next < g_msgs[m].total
         /\ g_msgs' \in Seq(MessageOf) /\ DOMAIN g_msgs' = DOMAIN g_msgs /\ g_failed' = g_failed
         /\ g_crowded' = g_crowded
         /\ \A n \in DOMAIN g_msgs :
              /\ g_msgs'[n].id = g_msgs[n].id /\ g_msgs'[n].total = g_msgs[n].total
              /\ g_msgs'[n].next = IF n = m THEN g_msgs[n].next + 1 ELSE g_msgs[n].next
<1>1. /\ m \in Frag!InFlight /\ m \in DOMAIN g_msgs /\ m \notin g_failed /\ g_msgs[m].next < g_msgs[m].total
      /\ g_msgs' = [g_msgs EXCEPT ![m].next = @ + 1] /\ g_failed' = g_failed /\ g_crowded' = g_crowded
  BY DEF Frag!Write, Frag!InFlight
<1>2. m \notin g_out
  <2>1. g_msgs[m].next \in Nat /\ g_msgs[m].total \in Nat
    BY <1>1, MessageTyped
  <2>2. \A k \in g_out : g_msgs[k].next = g_msgs[k].total
    BY DEF Frag!MessagesSound
  <2> QED BY <1>1, <2>1, <2>2
<1>3. g_msgs \in Seq(MessageOf)
  BY DEF Frag!MessagesSound, MessageOf
<1>4. PICK r : r = g_msgs[m]
  OBVIOUS
<1>5. r \in MessageOf /\ g_msgs' = [g_msgs EXCEPT ![m] = [r EXCEPT !.next = r.next + 1]]
  BY <1>1, <1>3, <1>4
<1>6. PICK s : s = [r EXCEPT !.next = r.next + 1]
  OBVIOUS
<1>7. s \in MessageOf /\ s.id = r.id /\ s.total = r.total /\ s.next = r.next + 1
  BY <1>5, <1>6 DEF MessageOf
<1>8. g_msgs' = [g_msgs EXCEPT ![m] = s]
  BY <1>5, <1>6
<1> HIDE DEF MessageOf
<1>9. /\ g_msgs' \in Seq(MessageOf) /\ DOMAIN g_msgs' = DOMAIN g_msgs
      /\ \A n \in DOMAIN g_msgs : g_msgs'[n] = IF n = m THEN s ELSE g_msgs[n]
  BY <1>1, <1>3, <1>7, <1>8
<1> QED BY <1>1, <1>2, <1>4, <1>7, <1>9

\* What others may be lost to they may be lost to ever after.
LEMMA ExcusesStay ==
  ASSUME Frag!MessagesSound, DOMAIN g_msgs \subseteq DOMAIN g_msgs', g_failed \subseteq g_failed', g_crowded \subseteq g_crowded',
         \A n \in DOMAIN g_msgs : g_msgs'[n].id = g_msgs[n].id,
         \A n \in Frag!Lost : n \in Frag!Lost',
         NEW n \in DOMAIN g_msgs, Frag!Excused(n)
  PROVE  Frag!Excused(n)'
<1> SUFFICES ASSUME n \notin g_crowded PROVE Frag!Excused(n)'
  BY DEF Frag!Excused
<1>1. PICK k \in (g_failed \cup Frag!Lost) \ {n} : g_msgs[k].id = g_msgs[n].id \/ k + MaxLag >= n
  BY DEF Frag!Excused
<1>2. k \in DOMAIN g_msgs
  BY <1>1 DEF Frag!MessagesSound, Frag!Lost
<1>3. k \in (g_failed' \cup Frag!Lost') \ {n}
  BY <1>1
<1>4. g_msgs'[k].id = g_msgs'[n].id \/ k + MaxLag >= n
  BY <1>1, <1>2
<1> QED BY <1>3, <1>4 DEF Frag!Excused

\* Who wrote a fragment that has a place.
LEMMA Author ==
  ASSUME Frag!EntriesSound, NEW i \in DOMAIN g_entries, NEW x \in DOMAIN g_entries[i].chunks
  PROVE  /\ g_entries[i].chunks[x] \in DOMAIN g_msgs /\ g_entries[i].chunks[x] \notin g_out
         /\ g_msgs[g_entries[i].chunks[x]].id = g_entries[i].id
         /\ x \in 0 .. (g_msgs[g_entries[i].chunks[x]].next - 1)
BY DEF Frag!EntriesSound

\* A packet being written has all it wrote in a place of its own, or may be lost to another.
LEMMA OwnPlace ==
  ASSUME Frag!FragmentsInv, NEW m \in Frag!InFlight, NEW f, NEW i, NEW total, NEW got, NEW all, Added(m, f, i, total, got, all)
  PROVE  \/ Frag!Excused(m)
         \/ /\ total = g_msgs[m].total /\ got = [x \in 0 .. g_msgs[m].next |-> m]
            /\ \A j \in DOMAIN g_entries : j > i =>
                 \A x \in DOMAIN g_entries[j].chunks : g_entries[j].chunks[x] + MaxLag >= m
<1> SUFFICES ASSUME ~Frag!Excused(m)
             PROVE  /\ total = g_msgs[m].total /\ got = [x \in 0 .. g_msgs[m].next |-> m]
                    /\ \A j \in DOMAIN g_entries : j > i =>
                         \A x \in DOMAIN g_entries[j].chunks : g_entries[j].chunks[x] + MaxLag >= m
  OBVIOUS
<1>1. /\ Frag!MessagesSound /\ Frag!EntriesSound /\ m \in DOMAIN g_msgs
      /\ g_msgs[m].next > 0 => Frag!Placed(m)
  BY DEF Frag!FragmentsInv, Frag!InFlight
<1>2. g_msgs[m].next \in Nat
  BY <1>1, MessageTyped
<1>3. DOMAIN g_entries = 1 .. Len(g_entries) /\ Len(g_entries) \in Nat
  BY <1>1 DEF Frag!EntriesSound
<1>4. \/ /\ i = Len(g_entries) + 1 /\ \A k \in DOMAIN g_entries : g_entries[k].id # g_msgs[m].id
         /\ total = g_msgs[m].total /\ got = [x \in {g_msgs[m].next} |-> m]
      \/ /\ i \in DOMAIN g_entries /\ g_entries[i].id = g_msgs[m].id /\ total = g_entries[i].total
         /\ got = [x \in DOMAIN g_entries[i].chunks \cup {g_msgs[m].next} |->
                     IF x = g_msgs[m].next THEN m ELSE g_entries[i].chunks[x]]
  BY DEF Added
<1>5. CASE g_msgs[m].next = 0
  <2>1. \A k \in DOMAIN g_entries : g_entries[k].id # g_msgs[m].id
    <3> SUFFICES ASSUME NEW k \in DOMAIN g_entries, g_entries[k].id = g_msgs[m].id PROVE FALSE
      OBVIOUS
    <3>1. PICK x : x \in DOMAIN g_entries[k].chunks
      BY <1>1 DEF Frag!EntriesSound
    <3>2. PICK h : h = g_entries[k].chunks[x]
      OBVIOUS
    <3>3. h \in DOMAIN g_msgs /\ g_msgs[h].id = g_msgs[m].id /\ x \in 0 .. (g_msgs[h].next - 1)
      BY <1>1, <3>1, <3>2, Author
    <3>4. h # m
      BY <1>5, <3>3
    <3>5. h \notin Frag!InFlight
      BY <1>1, <3>3, <3>4, IdsApart DEF Frag!Excused
    <3>6. h \in g_failed \cup Frag!Lost
      BY <1>1, <3>1, <3>2, <3>5, StaleIsExcuse
    <3> QED BY <3>3, <3>4, <3>6 DEF Frag!Excused
  <2>2. i = Len(g_entries) + 1 /\ total = g_msgs[m].total /\ got = [x \in {0} |-> m]
    BY <1>4, <1>5, <2>1
  <2>3. {0} = 0 .. g_msgs[m].next
    BY <1>5
  <2> QED BY <1>3, <2>2, <2>3
<1>6. CASE g_msgs[m].next # 0
  <2>1. g_msgs[m].next > 0
    BY <1>2, <1>6
  <2>2. PICK p \in DOMAIN g_entries :
          /\ g_entries[p].id = g_msgs[m].id /\ g_entries[p].total = g_msgs[m].total
          /\ g_entries[p].chunks = [j \in 0 .. (g_msgs[m].next - 1) |-> m]
          /\ \A j \in DOMAIN g_entries : j > p =>
               \A x \in DOMAIN g_entries[j].chunks : g_entries[j].chunks[x] + MaxLag >= m
    BY <1>1, <2>1 DEF Frag!Placed
  <2>3. i = p
    <3>1. i \in DOMAIN g_entries /\ g_entries[i].id = g_msgs[m].id
      BY <1>4, <2>2
    <3> QED BY <1>1, <2>2, <3>1 DEF Frag!EntriesSound
  <2>4. /\ total = g_entries[p].total
        /\ got = [x \in DOMAIN g_entries[p].chunks \cup {g_msgs[m].next} |->
                    IF x = g_msgs[m].next THEN m ELSE g_entries[p].chunks[x]]
    BY <1>4, <2>2, <2>3
  <2>5. PICK c : c = g_entries[p].chunks
    OBVIOUS
  <2>6. PICK n : n = g_msgs[m].next
    OBVIOUS
  <2>7. n \in Nat /\ c = [j \in 0 .. (n - 1) |-> m]
    BY <1>2, <2>2, <2>5, <2>6
  <2>8. DOMAIN c \cup {n} = 0 .. n
    BY <2>7
  <2>9. got = [x \in 0 .. n |-> IF x = n THEN m ELSE c[x]]
    BY <2>4, <2>5, <2>6, <2>8
  <2>10. \A x \in 0 .. n : (IF x = n THEN m ELSE c[x]) = m
    BY <2>7
  <2>11. got = [x \in 0 .. n |-> m]
    BY <2>9, <2>10
  <2> QED BY <2>2, <2>3, <2>4, <2>6, <2>11
<1> QED BY <1>5, <1>6

\* The packet whose last fragment was written came out, or may be lost to another.
LEMMA LastFragment ==
  ASSUME Frag!FragmentsInv, NEW m \in Frag!InFlight, NEW f, NEW i, NEW total, NEW got, NEW all, Added(m, f, i, total, got, all),
         ~Frag!Excused(m)
  PROVE  /\ all <=> g_msgs[m].next + 1 = g_msgs[m].total
         /\ g_out' = IF all THEN g_out \cup {m} ELSE g_out
<1>1. total = g_msgs[m].total /\ got = [x \in 0 .. g_msgs[m].next |-> m]
  BY OwnPlace
<1>2. /\ all <=> 0 .. (total - 1) \subseteq DOMAIN got
      /\ g_out' = IF all /\ total = g_msgs[m].total /\ (\A x \in 0 .. (total - 1) : got[x] = m)
                  THEN g_out \cup {m} ELSE g_out
  BY DEF Added
<1>3. Frag!MessagesSound /\ m \in DOMAIN g_msgs
  BY DEF Frag!FragmentsInv, Frag!InFlight
<1>4. PICK n : n = g_msgs[m].next
  OBVIOUS
<1>5. PICK t : t = g_msgs[m].total
  OBVIOUS
<1>6. n \in Nat /\ t \in Nat /\ n < t
  BY <1>3, <1>4, <1>5, MessageTyped DEF Frag!InFlight
<1>7. DOMAIN got = 0 .. n /\ \A x \in DOMAIN got : got[x] = m
  BY <1>1, <1>4
<1>8. 0 .. (t - 1) \subseteq 0 .. n <=> n + 1 = t
  <2>1. t - 1 \in 0 .. (t - 1)
    BY <1>6
  <2> QED BY <1>6, <2>1
<1>9. 0 .. (t - 1) \subseteq DOMAIN got => \A x \in 0 .. (t - 1) : got[x] = m
  BY <1>7
<1>10. total = t
  BY <1>1, <1>5
<1> QED BY <1>2, <1>4, <1>5, <1>7, <1>8, <1>9, <1>10

\* It comes out only then.
LEMMA OutWhole ==
  ASSUME Frag!FragmentsInv, NEW m \in Frag!InFlight, NEW f, NEW i, NEW total, NEW got, NEW all \in BOOLEAN,
         Added(m, f, i, total, got, all), g_out' # g_out
  PROVE  g_out' = g_out \cup {m} /\ all /\ g_msgs[m].next + 1 = g_msgs[m].total
<1>1. /\ all <=> 0 .. (total - 1) \subseteq DOMAIN got
      /\ g_out' = g_out \cup {m} /\ all /\ total = g_msgs[m].total /\ \A x \in 0 .. (total - 1) : got[x] = m
  BY DEF Added
<1>2. Frag!MessagesSound /\ Frag!EntriesSound /\ m \in DOMAIN g_msgs
  BY DEF Frag!FragmentsInv, Frag!InFlight
<1>3. PICK n : n = g_msgs[m].next
  OBVIOUS
<1>4. PICK t : t = g_msgs[m].total
  OBVIOUS
<1>5. n \in Nat /\ t \in Nat /\ n < t
  BY <1>2, <1>3, <1>4, MessageTyped DEF Frag!InFlight
<1>6. \/ got = [x \in {n} |-> m]
      \/ /\ i \in DOMAIN g_entries
         /\ got = [x \in DOMAIN g_entries[i].chunks \cup {n} |-> IF x = n THEN m ELSE g_entries[i].chunks[x]]
  BY <1>3 DEF Added
<1>7. t - 1 \in DOMAIN got /\ got[t - 1] = m
  BY <1>1, <1>4, <1>5
<1>8. CASE got = [x \in {n} |-> m]
  BY <1>1, <1>3, <1>4, <1>5, <1>7, <1>8
<1>9. CASE i \in DOMAIN g_entries /\ t - 1 # n
           /\ got = [x \in DOMAIN g_entries[i].chunks \cup {n} |-> IF x = n THEN m ELSE g_entries[i].chunks[x]]
  <2>1. t - 1 \in DOMAIN g_entries[i].chunks /\ g_entries[i].chunks[t - 1] = m
    BY <1>7, <1>9
  <2>2. t - 1 \in 0 .. (n - 1)
    BY <1>2, <1>3, <1>9, <2>1, Author
  <2> QED BY <1>5, <2>2
<1> QED BY <1>1, <1>3, <1>4, <1>5, <1>6, <1>8, <1>9

\* More are too many if fewer are.
LEMMA TooManyGrows ==
  ASSUME NEW S, NEW T, S \subseteq T, IsFiniteSet(T), Frag!TooMany(S)
  PROVE  Frag!TooMany(T)
<1>1. CASE \E k, m \in S : m >= k + IdSpace
  BY <1>1 DEF Frag!TooMany
<1>2. CASE Cardinality(S) > MaxReassemblies
  <2>1. IsFiniteSet(S) /\ Cardinality(S) <= Cardinality(T)
    BY FS_Subset
  <2>2. Cardinality(S) \in Nat /\ Cardinality(T) \in Nat /\ MaxReassemblies \in Nat
    BY <2>1, FS_CardinalityType, FragConstants DEF Frag!FragmentsAssumption
  <2>3. Cardinality(T) > MaxReassemblies
    BY <1>2, <2>1, <2>2
  <2> QED BY <2>3 DEF Frag!TooMany, Frag!Cardinality, Cardinality
<1> QED BY <1>1, <1>2 DEF Frag!TooMany, Frag!Cardinality, Cardinality

LEMMA InFlightFinite ==
  ASSUME Frag!MessagesSound
  PROVE  IsFiniteSet(Frag!InFlight)
<1>1. DOMAIN g_msgs = 1 .. Len(g_msgs) /\ Len(g_msgs) \in Nat
  BY DEF Frag!MessagesSound
<1>2. IsFiniteSet(DOMAIN g_msgs)
  BY <1>1, FS_Interval
<1> QED BY <1>2, FS_Subset DEF Frag!InFlight

\* Where too many are still being written, too many were.
LEMMA FewerInFlight ==
  ASSUME Frag!MessagesSound, Frag!InFlight' \subseteq Frag!InFlight, g_crowded' = g_crowded
  PROVE  (Frag!TooMany(Frag!InFlight) => Frag!InFlight \subseteq g_crowded)'
<1> SUFFICES ASSUME Frag!TooMany(Frag!InFlight)' PROVE Frag!InFlight' \subseteq g_crowded
  OBVIOUS
<1>1. Frag!TooMany(Frag!InFlight')
  BY DEF Frag!TooMany
<1>2. Frag!TooMany(Frag!InFlight)
  BY <1>1, InFlightFinite, TooManyGrows
<1> QED BY <1>2 DEF Frag!MessagesSound

LEMMA WriteMessages ==
  ASSUME Frag!FragmentsInv, NEW m, Frag!Write(m), NEW f, NEW i, NEW total, NEW got, NEW all \in BOOLEAN,
         Added(m, f, i, total, got, all)
  PROVE  /\ Frag!MessagesSound' /\ Frag!InFlight' \subseteq Frag!InFlight
         /\ \A n \in DOMAIN g_msgs : Frag!Excused(n) => Frag!Excused(n)'
         /\ g_out \subseteq g_out' /\ g_out' \subseteq g_out \cup {m}
<1>1. Frag!MessagesSound /\ Frag!EntriesSound
  BY DEF Frag!FragmentsInv
<1>2. /\ m \in Frag!InFlight /\ m \in DOMAIN g_msgs /\ m \notin g_failed /\ m \notin g_out
      /\ g_msgs[m].next < g_msgs[m].total
      /\ g_msgs' \in Seq(MessageOf) /\ DOMAIN g_msgs' = DOMAIN g_msgs /\ g_failed' = g_failed
      /\ g_crowded' = g_crowded
  BY <1>1, Written
<1>3. \A n \in DOMAIN g_msgs :
        /\ g_msgs'[n].id = g_msgs[n].id /\ g_msgs'[n].total = g_msgs[n].total
        /\ g_msgs'[n].next = IF n = m THEN g_msgs[n].next + 1 ELSE g_msgs[n].next
  BY <1>1, Written
<1>4. g_out' = g_out \/ (g_out' = g_out \cup {m} /\ g_msgs[m].next + 1 = g_msgs[m].total)
  BY <1>2, OutWhole
<1>5. \A n \in DOMAIN g_msgs : g_msgs[n].next \in Nat /\ g_msgs[n].total \in Nat /\ g_msgs[n].next <= g_msgs[n].total
  BY <1>1, MessageTyped
<1>6. Frag!InFlight' \subseteq Frag!InFlight
  BY <1>2, <1>3, <1>5 DEF Frag!InFlight
<1>7. \A n \in Frag!Lost : n \in Frag!Lost'
  <2> SUFFICES ASSUME NEW n \in Frag!Lost PROVE n \in Frag!Lost'
    OBVIOUS
  <2>1. n \in DOMAIN g_msgs /\ g_msgs[n].next = g_msgs[n].total /\ n \notin g_out
    BY DEF Frag!Lost
  <2>2. n # m
    BY <1>2, <1>5, <2>1
  <2>3. n \notin g_out'
    BY <1>4, <2>1, <2>2
  <2> QED BY <1>2, <1>3, <2>1, <2>2, <2>3 DEF Frag!Lost
<1>8. ASSUME NEW n \in DOMAIN g_msgs, Frag!Excused(n) PROVE Frag!Excused(n)'
  BY <1>1, <1>2, <1>3, <1>7, <1>8, ExcusesStay
<1>9. Frag!MessagesSound'
  <2>1. g_msgs' \in Seq([id : 0 .. (IdSpace - 1), total : Sizes, next : Nat])
    BY <1>2 DEF MessageOf
  <2>2. \A n \in DOMAIN g_msgs' : g_msgs'[n].next <= g_msgs'[n].total
    BY <1>2, <1>3, <1>5
  <2>3. \A k, n \in DOMAIN g_msgs' : k <= n /\ n < k + IdSpace =>
          g_msgs'[n].id = g_msgs'[k].id + (n - k) \/ g_msgs'[n].id = g_msgs'[k].id + (n - k) - IdSpace
    <3>1. \A k, n \in DOMAIN g_msgs : k <= n /\ n < k + IdSpace =>
            g_msgs[n].id = g_msgs[k].id + (n - k) \/ g_msgs[n].id = g_msgs[k].id + (n - k) - IdSpace
      BY <1>1 DEF Frag!MessagesSound
    <3> QED BY <1>2, <1>3, <3>1
  <2>4. g_failed' \subseteq DOMAIN g_msgs' /\ g_out' \subseteq DOMAIN g_msgs'
    BY <1>1, <1>2, <1>4 DEF Frag!MessagesSound
  <2>5. \A n \in g_out' : g_msgs'[n].next = g_msgs'[n].total
    <3> SUFFICES ASSUME NEW n \in g_out' PROVE g_msgs'[n].next = g_msgs'[n].total
      OBVIOUS
    <3>1. \A k \in g_out : g_msgs[k].next = g_msgs[k].total /\ k \in DOMAIN g_msgs
      BY <1>1 DEF Frag!MessagesSound
    <3>2. CASE n \in g_out
      BY <1>2, <1>3, <3>1, <3>2
    <3>3. CASE n \notin g_out
      BY <1>2, <1>3, <1>4, <3>3
    <3> QED BY <3>2, <3>3
  <2>6. (Frag!TooMany(Frag!InFlight) => Frag!InFlight \subseteq g_crowded)'
    BY <1>1, <1>2, <1>6, FewerInFlight
  <2>7. \A k, n \in Frag!InFlight' : n <= k + MaxLag
    BY <1>1, <1>6 DEF Frag!MessagesSound
  <2> QED BY <2>1, <2>2, <2>3, <2>4, <2>5, <2>6, <2>7 DEF Frag!MessagesSound
<1>10. g_out \subseteq g_out' /\ g_out' \subseteq g_out \cup {m}
  BY <1>4
<1> QED BY <1>6, <1>8, <1>9, <1>10

LEMMA WriteEntries ==
  ASSUME Frag!FragmentsInv, NEW m, Frag!Write(m), NEW f, NEW i, NEW total, NEW got, NEW all \in BOOLEAN,
         Added(m, f, i, total, got, all)
  PROVE  Frag!EntriesSound'
<1>1. Frag!MessagesSound /\ Frag!EntriesSound
  BY DEF Frag!FragmentsInv
<1>2. /\ m \in Frag!InFlight /\ m \in DOMAIN g_msgs /\ m \notin g_out /\ DOMAIN g_msgs' = DOMAIN g_msgs
      /\ \A n \in DOMAIN g_msgs :
           /\ g_msgs'[n].id = g_msgs[n].id
           /\ g_msgs'[n].next = IF n = m THEN g_msgs[n].next + 1 ELSE g_msgs[n].next
  BY <1>1, Written
<1>3. \A n \in DOMAIN g_msgs : g_msgs[n].next \in Nat
  BY <1>1, MessageTyped
<1>4. g_out' = g_out \/ (g_out' = g_out \cup {m} /\ all)
  BY <1>2, OutWhole
<1>5. /\ \A j \in DOMAIN g_entries' : f[j] = i => ~all /\ g_entries'[j] = [id |-> g_msgs[m].id, total |-> total, chunks |-> got]
      /\ \A j \in DOMAIN g_entries' : f[j] # i => f[j] \in DOMAIN g_entries /\ g_entries'[j] = g_entries[f[j]]
  BY DEF Added, Others
<1>6. \A j, k \in DOMAIN g_entries' : f[j] = f[k] => j = k
  <2>1. f \in [DOMAIN g_entries' -> Nat] /\ \A j, k \in DOMAIN g_entries' : j < k => f[j] < f[k]
    BY DEF Added, Others
  <2>2. g_entries' \in Seq({g_entries'[j] : j \in DOMAIN g_entries'})
    BY DEF Added
  <2>3. DOMAIN g_entries' \subseteq Nat
    BY <2>2
  <2> QED BY <2>1, <2>3
<1>7. \/ /\ i \notin DOMAIN g_entries /\ \A k \in DOMAIN g_entries : g_entries[k].id # g_msgs[m].id
         /\ got = [x \in {g_msgs[m].next} |-> m]
      \/ /\ i \in DOMAIN g_entries /\ g_entries[i].id = g_msgs[m].id
         /\ got = [x \in DOMAIN g_entries[i].chunks \cup {g_msgs[m].next} |->
                     IF x = g_msgs[m].next THEN m ELSE g_entries[i].chunks[x]]
  <2>1. DOMAIN g_entries = 1 .. Len(g_entries) /\ Len(g_entries) \in Nat
    BY <1>1 DEF Frag!EntriesSound
  <2> QED BY <2>1 DEF Added
<1>8. \A k \in DOMAIN g_entries : g_entries[k].id = g_msgs[m].id => k = i
  BY <1>1, <1>7 DEF Frag!EntriesSound
<1>9. g_entries' \in Seq({g_entries'[j] : j \in DOMAIN g_entries'})
  BY DEF Added
<1>10. \A j, k \in DOMAIN g_entries' : g_entries'[j].id = g_entries'[k].id => j = k
  <2> SUFFICES ASSUME NEW j \in DOMAIN g_entries', NEW k \in DOMAIN g_entries', g_entries'[j].id = g_entries'[k].id
               PROVE  f[j] = f[k]
    BY <1>6
  <2>1. \A l \in DOMAIN g_entries' : f[l] = i => g_entries'[l].id = g_msgs[m].id
    BY <1>5
  <2>2. \A h, l \in DOMAIN g_entries : g_entries[h].id = g_entries[l].id => h = l
    BY <1>1 DEF Frag!EntriesSound
  <2>3. CASE f[j] = i \/ f[k] = i
    BY <1>5, <1>8, <2>1, <2>3
  <2>4. CASE f[j] # i /\ f[k] # i
    BY <1>5, <2>2, <2>4
  <2> QED BY <2>3, <2>4
<1>11. ASSUME NEW j \in DOMAIN g_entries', f[j] # i
       PROVE  /\ DOMAIN g_entries'[j].chunks # {}
              /\ \A x \in DOMAIN g_entries'[j].chunks : LET k == g_entries'[j].chunks[x] IN
                   k \in DOMAIN g_msgs' \ g_out' /\ g_msgs'[k].id = g_entries'[j].id /\ x \in 0 .. (g_msgs'[k].next - 1)
  <2>1. f[j] \in DOMAIN g_entries /\ g_entries'[j] = g_entries[f[j]]
    BY <1>5, <1>11
  <2>2. DOMAIN g_entries'[j].chunks # {}
    BY <1>1, <2>1 DEF Frag!EntriesSound
  <2>3. ASSUME NEW x \in DOMAIN g_entries'[j].chunks, NEW k, k = g_entries'[j].chunks[x]
        PROVE  k \in DOMAIN g_msgs' \ g_out' /\ g_msgs'[k].id = g_entries'[j].id /\ x \in 0 .. (g_msgs'[k].next - 1)
    <3>1. k \in DOMAIN g_msgs /\ k \notin g_out /\ g_msgs[k].id = g_entries'[j].id /\ x \in 0 .. (g_msgs[k].next - 1)
      BY <1>1, <2>1, <2>3, Author
    <3>2. k # m
      BY <1>8, <1>11, <2>1, <3>1
    <3> QED BY <1>2, <1>4, <3>1, <3>2
  <2> QED BY <2>2, <2>3
<1>12. ASSUME NEW j \in DOMAIN g_entries', f[j] = i
       PROVE  /\ DOMAIN g_entries'[j].chunks # {}
              /\ \A x \in DOMAIN g_entries'[j].chunks : LET k == g_entries'[j].chunks[x] IN
                   k \in DOMAIN g_msgs' \ g_out' /\ g_msgs'[k].id = g_entries'[j].id /\ x \in 0 .. (g_msgs'[k].next - 1)
  <2>1. g_entries'[j].id = g_msgs[m].id /\ g_entries'[j].chunks = got /\ g_out' = g_out
    BY <1>4, <1>5, <1>12
  <2>2. DOMAIN got # {}
    BY <1>7
  <2>3. ASSUME NEW x \in DOMAIN got
        PROVE  got[x] \in DOMAIN g_msgs /\ got[x] \notin g_out /\ g_msgs'[got[x]].id = g_msgs[m].id
               /\ x \in 0 .. (g_msgs'[got[x]].next - 1)
    <3>1. CASE x = g_msgs[m].next
      <4>1. got[x] = m
        BY <1>7, <2>3, <3>1
      <4> QED BY <1>2, <1>3, <3>1, <4>1
    <3>2. CASE x # g_msgs[m].next
      <4>1. i \in DOMAIN g_entries /\ g_entries[i].id = g_msgs[m].id /\ x \in DOMAIN g_entries[i].chunks
            /\ got[x] = g_entries[i].chunks[x]
        BY <1>7, <2>3, <3>2
      <4>2. PICK k : k = got[x]
        OBVIOUS
      <4>3. k \in DOMAIN g_msgs /\ k \notin g_out /\ g_msgs[k].id = g_msgs[m].id /\ x \in 0 .. (g_msgs[k].next - 1)
        BY <1>1, <4>1, <4>2, Author
      <4> QED BY <1>2, <1>3, <4>2, <4>3
    <3> QED BY <3>1, <3>2
  <2> QED BY <1>2, <2>1, <2>2, <2>3
<1>13. \A j \in DOMAIN g_entries' :
         /\ DOMAIN g_entries'[j].chunks # {}
         /\ \A x \in DOMAIN g_entries'[j].chunks : LET k == g_entries'[j].chunks[x] IN
              k \in DOMAIN g_msgs' \ g_out' /\ g_msgs'[k].id = g_entries'[j].id /\ x \in 0 .. (g_msgs'[k].next - 1)
  BY <1>11, <1>12
<1> QED BY <1>9, <1>10, <1>13 DEF Frag!EntriesSound

\* The packets being written keep their places.
LEMMA WritePlaced ==
  ASSUME Frag!FragmentsInv, NEW m, Frag!Write(m), NEW f, NEW i, NEW total, NEW got, NEW all \in BOOLEAN,
         Added(m, f, i, total, got, all), NEW n \in Frag!InFlight', g_msgs'[n].next > 0, ~Frag!Excused(n)
  PROVE  Frag!Placed(n)'
<1>1. Frag!MessagesSound /\ Frag!EntriesSound
  BY DEF Frag!FragmentsInv
<1>2. /\ m \in Frag!InFlight /\ m \in DOMAIN g_msgs /\ DOMAIN g_msgs' = DOMAIN g_msgs
      /\ \A k \in DOMAIN g_msgs :
           /\ g_msgs'[k].id = g_msgs[k].id /\ g_msgs'[k].total = g_msgs[k].total
           /\ g_msgs'[k].next = IF k = m THEN g_msgs[k].next + 1 ELSE g_msgs[k].next
  BY <1>1, Written
<1>3. n \in Frag!InFlight /\ n \in DOMAIN g_msgs
  BY WriteMessages DEF Frag!InFlight
<1>4. /\ f \in [DOMAIN g_entries' -> Nat] /\ \A j, k \in DOMAIN g_entries' : j < k => f[j] < f[k]
      /\ \A j \in DOMAIN g_entries' : f[j] = i => ~all /\ g_entries'[j] = [id |-> g_msgs[m].id, total |-> total, chunks |-> got]
      /\ \A j \in DOMAIN g_entries' : f[j] # i => f[j] \in DOMAIN g_entries /\ g_entries'[j] = g_entries[f[j]]
  BY DEF Added, Others
<1>5. /\ ~all => \E j \in DOMAIN g_entries' : f[j] = i
      /\ \A k \in DOMAIN g_entries : k # i =>
           \/ \E j \in DOMAIN g_entries' : f[j] = k
           \/ (k = 1 /\ i \notin DOMAIN g_entries /\ Len(g_entries) >= MaxReassemblies)
  BY DEF Added
<1>6. \/ /\ i = Len(g_entries) + 1 /\ \A k \in DOMAIN g_entries : g_entries[k].id # g_msgs[m].id
         /\ got = [x \in {g_msgs[m].next} |-> m]
      \/ /\ i \in DOMAIN g_entries /\ g_entries[i].id = g_msgs[m].id
         /\ got = [x \in DOMAIN g_entries[i].chunks \cup {g_msgs[m].next} |->
                     IF x = g_msgs[m].next THEN m ELSE g_entries[i].chunks[x]]
  BY DEF Added
<1>7. DOMAIN g_entries = 1 .. Len(g_entries) /\ Len(g_entries) \in Nat /\ i \in Nat
  <2>1. DOMAIN g_entries = 1 .. Len(g_entries) /\ Len(g_entries) \in Nat
    BY <1>1 DEF Frag!EntriesSound
  <2> QED BY <1>6, <2>1
<1>8. DOMAIN g_entries' \subseteq Nat
  <2>1. g_entries' \in Seq({g_entries'[j] : j \in DOMAIN g_entries'})
    BY DEF Added
  <2> QED BY <2>1
<1>9. CASE n = m
  <2>1. /\ total = g_msgs[m].total /\ got = [x \in 0 .. g_msgs[m].next |-> m]
        /\ \A j \in DOMAIN g_entries : j > i =>
             \A x \in DOMAIN g_entries[j].chunks : g_entries[j].chunks[x] + MaxLag >= m
    BY <1>2, <1>9, OwnPlace
  <2>2. g_msgs[m].next \in Nat /\ g_msgs'[m].next = g_msgs[m].next + 1 /\ g_msgs'[m].next < g_msgs'[m].total
    BY <1>1, <1>2, <1>9, MessageTyped DEF Frag!InFlight
  <2>3. ~all
    <3>1. g_msgs[m].next + 1 # g_msgs[m].total
      BY <1>2, <2>2
    <3> QED BY <1>2, <1>9, <3>1, LastFragment
  <2>4. PICK j \in DOMAIN g_entries' : f[j] = i
    BY <1>5, <2>3
  <2>5. g_entries'[j].id = g_msgs[m].id /\ g_entries'[j].total = g_msgs[m].total /\ g_entries'[j].chunks = got
    <3>1. g_entries'[j] = [id |-> g_msgs[m].id, total |-> total, chunks |-> got]
      BY <1>4, <2>4
    <3> QED BY <2>1, <3>1
  <2>6. got = [x \in 0 .. (g_msgs'[m].next - 1) |-> m]
    <3>1. PICK k : k = g_msgs[m].next
      OBVIOUS
    <3>2. PICK l : l = g_msgs'[m].next
      OBVIOUS
    <3>3. k \in Nat /\ l = k + 1 /\ got = [x \in 0 .. k |-> m]
      BY <2>1, <2>2, <3>1, <3>2
    <3>4. 0 .. (l - 1) = 0 .. k
      BY <3>3
    <3> QED BY <3>2, <3>3, <3>4
  <2>7. ASSUME NEW l \in DOMAIN g_entries', l > j
        PROVE  \A x \in DOMAIN g_entries'[l].chunks : g_entries'[l].chunks[x] + MaxLag >= m
    <3>1. f[l] > i
      BY <1>4, <1>7, <1>8, <2>4, <2>7
    <3>2. f[l] # i
      BY <1>4, <1>7, <3>1
    <3> QED BY <1>4, <2>1, <3>1, <3>2
  <2> QED BY <1>2, <1>9, <2>4, <2>5, <2>6, <2>7 DEF Frag!Placed
<1>10. CASE n # m
  <2>1. g_msgs[n].next > 0 /\ g_msgs'[n].next = g_msgs[n].next /\ g_msgs[n].id # g_msgs[m].id
    BY <1>1, <1>2, <1>3, <1>10, IdsApart DEF Frag!Excused
  <2>2. Frag!Placed(n)
    BY <1>3, <2>1 DEF Frag!FragmentsInv
  <2>3. PICK p \in DOMAIN g_entries :
          /\ g_entries[p].id = g_msgs[n].id /\ g_entries[p].total = g_msgs[n].total
          /\ g_entries[p].chunks = [j \in 0 .. (g_msgs[n].next - 1) |-> n]
          /\ \A j \in DOMAIN g_entries : j > p =>
               \A x \in DOMAIN g_entries[j].chunks : g_entries[j].chunks[x] + MaxLag >= n
    BY <2>2 DEF Frag!Placed
  <2>4. p # i
    BY <1>6, <1>7, <2>1, <2>3
  <2>5. \E j \in DOMAIN g_entries' : f[j] = p
    <3> SUFFICES ASSUME p = 1, i \notin DOMAIN g_entries, Len(g_entries) >= MaxReassemblies PROVE FALSE
      BY <1>5, <2>4
    <3>1. \A k \in DOMAIN g_entries : g_entries[k].id # g_msgs[m].id
      BY <1>6
    <3>2. PICK l \in DOMAIN g_entries : \A k \in Frag!InFlight : g_msgs[k].id # g_entries[l].id
      <4>1. ~Frag!TooMany(Frag!InFlight)
        BY <1>1, <1>3 DEF Frag!MessagesSound, Frag!Excused
      <4> QED BY <1>1, <1>2, <3>1, <4>1, StalePlace
    <3>3. l > p
      BY <1>3, <1>7, <2>3, <3>2
    <3>4. PICK x : x \in DOMAIN g_entries[l].chunks
      BY <1>1 DEF Frag!EntriesSound
    <3>5. PICK h : h = g_entries[l].chunks[x]
      OBVIOUS
    <3>6. h \notin Frag!InFlight
      <4>1. g_msgs[h].id = g_entries[l].id
        BY <1>1, <3>4, <3>5, Author
      <4> QED BY <3>2, <4>1
    <3>7. h \in g_failed \cup Frag!Lost
      BY <1>1, <3>4, <3>5, <3>6, StaleIsExcuse
    <3>8. h + MaxLag >= n
      BY <2>3, <3>3, <3>4, <3>5
    <3> QED BY <1>3, <3>6, <3>7, <3>8 DEF Frag!Excused
  <2>6. PICK j \in DOMAIN g_entries' : f[j] = p
    BY <2>5
  <2>7. g_entries'[j] = g_entries[p]
    BY <1>4, <2>4, <2>6
  <2>8. ASSUME NEW l \in DOMAIN g_entries', l > j, NEW x \in DOMAIN g_entries'[l].chunks
        PROVE  g_entries'[l].chunks[x] + MaxLag >= n
    <3>1. f[l] > p
      BY <1>4, <1>7, <1>8, <2>6, <2>8
    <3>2. CASE f[l] # i
      BY <1>4, <2>3, <2>8, <3>1, <3>2
    <3>3. CASE f[l] = i
      <4>1. g_entries'[l].chunks = got
        BY <1>4, <3>3
      <4>2. m + MaxLag >= n
        <5>1. n <= m + MaxLag
          BY <1>1, <1>2, <1>3 DEF Frag!MessagesSound
        <5>2. n \in Nat /\ m \in Nat /\ MaxLag \in Nat
          BY <1>1, <1>2, <1>3, FragConstants DEF Frag!MessagesSound, Frag!FragmentsAssumption
        <5> QED BY <5>1, <5>2
      <4>3. CASE x = g_msgs[m].next
        BY <1>6, <2>8, <4>1, <4>2, <4>3
      <4>4. CASE x # g_msgs[m].next
        <5>1. i \in DOMAIN g_entries /\ x \in DOMAIN g_entries[i].chunks /\ got[x] = g_entries[i].chunks[x]
          BY <1>6, <2>8, <4>1, <4>4
        <5> QED BY <2>3, <3>1, <3>3, <4>1, <5>1
      <4> QED BY <4>3, <4>4
    <3> QED BY <3>2, <3>3
  <2>9. /\ g_entries'[j].id = g_msgs'[n].id /\ g_entries'[j].total = g_msgs'[n].total
        /\ g_entries'[j].chunks = [x \in 0 .. (g_msgs'[n].next - 1) |-> n]
    BY <1>2, <1>3, <2>1, <2>3, <2>7
  <2> QED BY <2>8, <2>9 DEF Frag!Placed
<1> QED BY <1>9, <1>10

LEMMA WriteStep ==
  ASSUME Frag!FragmentsInv, NEW m, Frag!Write(m)
  PROVE  Frag!FragmentsInv'
<1>1. Frag!MessagesSound /\ Frag!EntriesSound
  BY DEF Frag!FragmentsInv
<1>2. /\ m \in Frag!InFlight /\ m \in DOMAIN g_msgs /\ m \notin g_out /\ DOMAIN g_msgs' = DOMAIN g_msgs
      /\ g_failed' = g_failed /\ g_crowded' = g_crowded
      /\ \A n \in DOMAIN g_msgs :
           /\ g_msgs'[n].total = g_msgs[n].total
           /\ g_msgs'[n].next = IF n = m THEN g_msgs[n].next + 1 ELSE g_msgs[n].next
  BY <1>1, Written
<1>3. Frag!AddFragment(m)
  BY DEF Frag!Write
<1>4. \E f, i, total, got : \E all \in BOOLEAN : Added(m, f, i, total, got, all)
  BY <1>1, <1>2, <1>3, FragmentAdded
<1>5. PICK f, i, total, got : \E all \in BOOLEAN : Added(m, f, i, total, got, all)
  BY <1>4
<1>6. PICK all \in BOOLEAN : Added(m, f, i, total, got, all)
  BY <1>5
<1>7. /\ Frag!MessagesSound' /\ Frag!InFlight' \subseteq Frag!InFlight
      /\ \A n \in DOMAIN g_msgs : Frag!Excused(n) => Frag!Excused(n)'
      /\ g_out \subseteq g_out' /\ g_out' \subseteq g_out \cup {m}
  BY <1>6, WriteMessages
<1>8. Frag!EntriesSound'
  BY <1>6, WriteEntries
<1>9. ASSUME NEW n \in Frag!InFlight', g_msgs'[n].next > 0 PROVE Frag!Placed(n)' \/ Frag!Excused(n)'
  <2>1. n \in DOMAIN g_msgs
    BY <1>2 DEF Frag!InFlight
  <2>2. CASE Frag!Excused(n)
    BY <1>7, <2>1, <2>2
  <2>3. CASE ~Frag!Excused(n)
    BY <1>6, <1>9, <2>3, WritePlaced
  <2> QED BY <2>2, <2>3
<1>10. ASSUME NEW n \in DOMAIN g_msgs, g_msgs'[n].next = g_msgs'[n].total, n \notin g_out'
       PROVE  Frag!Excused(n)
  <2>1. CASE n = m
    <3> SUFFICES ASSUME ~Frag!Excused(m) PROVE FALSE
      BY <2>1
    <3>1. g_msgs[m].next + 1 = g_msgs[m].total
      BY <1>2, <1>10, <2>1
    <3>2. g_out' = g_out \cup {m}
      BY <1>2, <1>6, <3>1, LastFragment
    <3> QED BY <1>10, <2>1, <3>2
  <2>2. CASE n # m
    <3>1. g_msgs[n].next = g_msgs[n].total /\ n \notin g_out
      BY <1>2, <1>7, <1>10, <2>2
    <3>2. n \in Frag!Lost
      BY <3>1 DEF Frag!Lost
    <3> QED BY <3>2 DEF Frag!FragmentsInv, Frag!LostToUnfinished
  <2> QED BY <2>1, <2>2
<1>11. Frag!LostToUnfinished'
  <2> SUFFICES ASSUME NEW n \in Frag!Lost' PROVE Frag!Excused(n)'
    BY DEF Frag!LostToUnfinished
  <2>1. n \in DOMAIN g_msgs /\ g_msgs'[n].next = g_msgs'[n].total /\ n \notin g_out'
    BY <1>2 DEF Frag!Lost
  <2> QED BY <1>7, <1>10, <2>1
<1>12. Frag!FaultFreeReassembled'
  <2> SUFFICES ASSUME g_failed' = {}, g_crowded' = {}, NEW n \in DOMAIN g_msgs', g_msgs'[n].next = g_msgs'[n].total, n \notin g_out' PROVE FALSE
    BY DEF Frag!FaultFreeReassembled
  <2>1. Frag!Excused(n)
    BY <1>2, <1>10
  <2>2. g_failed = {} /\ g_crowded = {} /\ Frag!Lost = {}
    BY <1>2 DEF Frag!FragmentsInv, Frag!FaultFreeReassembled, Frag!Lost
  <2> QED BY <2>1, <2>2 DEF Frag!Excused
<1> QED BY <1>7, <1>8, <1>9, <1>11, <1>12 DEF Frag!FragmentsInv

LEMMA WriteFailsStep ==
  ASSUME Frag!FragmentsInv, NEW m, Frag!WriteFails(m)
  PROVE  Frag!FragmentsInv'
<1>1. /\ m \in Frag!InFlight /\ m \in DOMAIN g_msgs /\ g_failed' = g_failed \cup {m}
      /\ g_msgs' = g_msgs /\ g_entries' = g_entries /\ g_out' = g_out /\ g_crowded' = g_crowded
  BY DEF Frag!WriteFails, Frag!InFlight
<1>2. Frag!MessagesSound /\ Frag!EntriesSound
  BY DEF Frag!FragmentsInv
<1>3. Frag!InFlight' \subseteq Frag!InFlight /\ Frag!Lost' = Frag!Lost
  BY <1>1 DEF Frag!InFlight, Frag!Lost
<1>4. ASSUME NEW n \in DOMAIN g_msgs, Frag!Excused(n) PROVE Frag!Excused(n)'
  BY <1>1, <1>2, <1>3, <1>4, ExcusesStay
<1>5. Frag!MessagesSound'
  <2>1. (Frag!TooMany(Frag!InFlight) => Frag!InFlight \subseteq g_crowded)'
    BY <1>1, <1>2, <1>3, FewerInFlight
  <2>2. \A k, n \in Frag!InFlight' : n <= k + MaxLag
    BY <1>2, <1>3 DEF Frag!MessagesSound
  <2> QED BY <1>1, <1>2, <2>1, <2>2 DEF Frag!MessagesSound
<1>6. Frag!EntriesSound'
  BY <1>1, <1>2 DEF Frag!EntriesSound
<1>7. ASSUME NEW n \in Frag!InFlight', g_msgs'[n].next > 0 PROVE Frag!Placed(n)' \/ Frag!Excused(n)'
  <2>1. Frag!Placed(n) \/ Frag!Excused(n)
    BY <1>1, <1>3, <1>7 DEF Frag!FragmentsInv
  <2>2. n \in DOMAIN g_msgs
    BY <1>1 DEF Frag!InFlight
  <2>3. Frag!Placed(n) => Frag!Placed(n)'
    BY <1>1 DEF Frag!Placed
  <2> QED BY <1>4, <2>1, <2>2, <2>3
<1>8. Frag!LostToUnfinished'
  <2>1. \A n \in Frag!Lost : n \in DOMAIN g_msgs
    BY DEF Frag!Lost
  <2> QED BY <1>3, <1>4, <2>1 DEF Frag!FragmentsInv, Frag!LostToUnfinished
<1>9. Frag!FaultFreeReassembled'
  BY <1>1 DEF Frag!FaultFreeReassembled
<1> QED BY <1>5, <1>6, <1>7, <1>8, <1>9 DEF Frag!FragmentsInv

LEMMA BeginStep ==
  ASSUME Frag!FragmentsInv, NEW size \in Sizes, Frag!Begin(size)
  PROVE  Frag!FragmentsInv'
<1>1. Frag!MessagesSound /\ Frag!EntriesSound
  BY DEF Frag!FragmentsInv
<1>2. g_entries' = g_entries /\ g_out' = g_out /\ g_failed' = g_failed
  BY DEF Frag!Begin
<1>3. PICK N : N = Len(g_msgs)
  OBVIOUS
<1>4. PICK id : id = IF g_msgs = <<>> THEN 0 ELSE Frag!IdAfter(Frag!Last(g_msgs).id)
  OBVIOUS
<1>5. /\ g_msgs \in Seq(MessageOf) /\ N \in Nat /\ DOMAIN g_msgs = 1 .. N
      /\ \A n \in 1 .. N : /\ g_msgs[n].next \in Nat /\ g_msgs[n].total \in Nat \ {0}
                           /\ g_msgs[n].id \in Int /\ g_msgs[n].id \in 0 .. (IdSpace - 1)
  <2>1. g_msgs \in Seq(MessageOf) /\ N \in Nat /\ DOMAIN g_msgs = 1 .. N
    BY <1>1, <1>3 DEF Frag!MessagesSound, MessageOf
  <2>2. \A n \in 1 .. N : /\ g_msgs[n].next \in Nat /\ g_msgs[n].total \in Nat \ {0} /\ g_msgs[n].id \in Int
                          /\ g_msgs[n] \in MessageOf
    BY <1>1, <2>1, MessageTyped
  <2> QED BY <2>1, <2>2 DEF MessageOf
<1>6. IdSpace \in Nat \ {0} /\ MaxLag \in Nat
  BY FragConstants DEF Frag!FragmentsAssumption
<1>7. N > 0 => id = IF g_msgs[N].id + 1 = IdSpace THEN 0 ELSE g_msgs[N].id + 1
  <2>1. N > 0 => g_msgs # <<>> /\ Frag!Last(g_msgs) = g_msgs[N]
    BY <1>3, <1>5 DEF Frag!Last
  <2> QED BY <1>4, <2>1 DEF Frag!IdAfter
<1>8. N = 0 => id = 0
  BY <1>3, <1>4, <1>5
<1>9. id \in 0 .. (IdSpace - 1)
  BY <1>5, <1>6, <1>7, <1>8
<1>10. PICK r : r = [id |-> id, total |-> size, next |-> 0]
  OBVIOUS
<1>11. r \in MessageOf /\ r.id = id /\ r.total = size /\ r.next = 0
  BY <1>9, <1>10 DEF MessageOf
<1>12. g_msgs' = Append(g_msgs, r)
  BY <1>4, <1>10 DEF Frag!Begin
<1> HIDE DEF MessageOf
<1>13. /\ g_msgs' \in Seq(MessageOf) /\ DOMAIN g_msgs' = 1 .. (N + 1) /\ g_msgs'[N + 1] = r
       /\ \A n \in 1 .. N : g_msgs'[n] = g_msgs[n]
  BY <1>3, <1>5, <1>11, <1>12
<1>14. size \in Nat \ {0}
  BY FragConstants DEF Frag!FragmentsAssumption
<1>15. \A n \in 1 .. (N + 1) : n \in 1 .. N \/ n = N + 1
  BY <1>5
<1>16. Frag!InFlight' \subseteq Frag!InFlight \cup {N + 1} /\ Frag!Lost' = Frag!Lost
  <2>1. g_out \subseteq 1 .. N /\ g_failed \subseteq 1 .. N
    BY <1>1, <1>5 DEF Frag!MessagesSound
  <2>2. Frag!InFlight' \subseteq Frag!InFlight \cup {N + 1}
    BY <1>2, <1>5, <1>13, <1>15 DEF Frag!InFlight
  <2>3. 1 .. N \subseteq 1 .. (N + 1)
    BY <1>5
  <2>4. Frag!Lost' = Frag!Lost
    BY <1>2, <1>5, <1>11, <1>13, <1>14, <1>15, <2>3 DEF Frag!Lost
  <2> QED BY <2>2, <2>4
<1>17. DOMAIN g_msgs \subseteq DOMAIN g_msgs' /\ g_crowded \subseteq g_crowded'
  BY <1>5, <1>13 DEF Frag!Begin
<1>18. ASSUME NEW n \in DOMAIN g_msgs, Frag!Excused(n) PROVE Frag!Excused(n)'
  BY <1>1, <1>2, <1>5, <1>13, <1>16, <1>17, <1>18, ExcusesStay
<1>19. ASSUME NEW k \in 1 .. (N + 1), NEW n \in 1 .. (N + 1), k <= n, n < k + IdSpace
       PROVE  g_msgs'[n].id = g_msgs'[k].id + (n - k) \/ g_msgs'[n].id = g_msgs'[k].id + (n - k) - IdSpace
  <2>0. \A j, l \in 1 .. N : j <= l /\ l < j + IdSpace =>
          g_msgs[l].id = g_msgs[j].id + (l - j) \/ g_msgs[l].id = g_msgs[j].id + (l - j) - IdSpace
    BY <1>1, <1>5 DEF Frag!MessagesSound
  <2>1. CASE n \in 1 .. N
    <3>1. k \in 1 .. N
      BY <1>5, <1>19, <2>1
    <3> QED BY <1>13, <1>19, <2>0, <2>1, <3>1
  <2>2. CASE n = N + 1 /\ k = N + 1
    BY <1>6, <1>9, <1>11, <1>13, <2>2
  <2>3. CASE n = N + 1 /\ k \in 1 .. N
    <3>1. N \in 1 .. N /\ k <= N /\ N < k + IdSpace /\ N > 0
      BY <1>5, <1>6, <1>19, <2>3
    <3>2. g_msgs[N].id = g_msgs[k].id + (N - k) \/ g_msgs[N].id = g_msgs[k].id + (N - k) - IdSpace
      BY <2>0, <2>3, <3>1
    <3>3. PICK q : q = g_msgs[k].id
      OBVIOUS
    <3>4. PICK l : l = g_msgs[N].id
      OBVIOUS
    <3>5. q \in 0 .. (IdSpace - 1) /\ l \in 0 .. (IdSpace - 1) /\ (l = q + (N - k) \/ l = q + (N - k) - IdSpace)
      BY <1>5, <2>3, <3>1, <3>2, <3>3, <3>4
    <3>6. id = IF l + 1 = IdSpace THEN 0 ELSE l + 1
      BY <1>7, <3>1, <3>4
    <3>7. id = q + ((N + 1) - k) \/ id = q + ((N + 1) - k) - IdSpace
      BY <1>5, <1>6, <1>19, <2>3, <3>1, <3>5, <3>6
    <3> QED BY <1>11, <1>13, <2>3, <3>3, <3>7
  <2> QED BY <1>15, <2>1, <2>2, <2>3
<1>20. (Frag!TooMany(Frag!InFlight) => Frag!InFlight \subseteq g_crowded)'
  <2> DEFINE T == Frag!InFlight \cup {N + 1}
  <2>1. IsFiniteSet(T)
    BY <1>1, InFlightFinite, FS_AddElement
  <2>2. g_crowded' = IF Frag!TooMany(T) THEN g_crowded \cup T ELSE g_crowded
    BY <1>3 DEF Frag!Begin
  <2> HIDE DEF T
  <2> SUFFICES ASSUME Frag!TooMany(Frag!InFlight)' PROVE Frag!InFlight' \subseteq g_crowded'
    OBVIOUS
  <2>3. Frag!TooMany(Frag!InFlight')
    BY DEF Frag!TooMany
  <2>4. Frag!TooMany(T)
    BY <1>16, <2>1, <2>3, TooManyGrows DEF T
  <2> QED BY <1>16, <2>2, <2>4 DEF T
<1>21. \A k, n \in Frag!InFlight' : n <= k + MaxLag
  <2> SUFFICES ASSUME NEW k \in Frag!InFlight', NEW n \in Frag!InFlight' PROVE n <= k + MaxLag
    OBVIOUS
  <2>1. /\ \A l \in Frag!InFlight : N - l < MaxLag /\ l \in 1 .. N
        /\ \A j, l \in Frag!InFlight : l <= j + MaxLag
    BY <1>1, <1>3, <1>5 DEF Frag!Begin, Frag!InFlight, Frag!MessagesSound
  <2>2. (k \in Frag!InFlight \/ k = N + 1) /\ (n \in Frag!InFlight \/ n = N + 1)
    BY <1>16
  <2>3. CASE k \in Frag!InFlight /\ n \in Frag!InFlight
    BY <2>1, <2>3
  <2>4. CASE k \in Frag!InFlight /\ n = N + 1
    BY <1>5, <1>6, <2>1, <2>4
  <2>5. CASE k = N + 1
    BY <1>5, <1>6, <2>1, <2>2, <2>5
  <2> QED BY <2>2, <2>3, <2>4, <2>5
<1>22. Frag!MessagesSound'
  <2>1. g_msgs' \in Seq([id : 0 .. (IdSpace - 1), total : Sizes, next : Nat])
    BY <1>13 DEF MessageOf
  <2>2. \A n \in DOMAIN g_msgs' : g_msgs'[n].next <= g_msgs'[n].total
    <3>1. \A n \in 1 .. N : g_msgs[n].next <= g_msgs[n].total
      BY <1>1, <1>5 DEF Frag!MessagesSound
    <3> QED BY <1>11, <1>13, <1>14, <1>15, <3>1
  <2>3. g_failed' \subseteq DOMAIN g_msgs' /\ g_out' \subseteq DOMAIN g_msgs'
    BY <1>1, <1>2, <1>17 DEF Frag!MessagesSound
  <2>4. \A n \in g_out' : g_msgs'[n].next = g_msgs'[n].total
    BY <1>1, <1>2, <1>5, <1>13 DEF Frag!MessagesSound
  <2>5. \A k, n \in DOMAIN g_msgs' : k <= n /\ n < k + IdSpace =>
          g_msgs'[n].id = g_msgs'[k].id + (n - k) \/ g_msgs'[n].id = g_msgs'[k].id + (n - k) - IdSpace
    BY <1>13, <1>19
  <2> QED BY <1>20, <1>21, <2>1, <2>2, <2>3, <2>4, <2>5 DEF Frag!MessagesSound
<1>23. Frag!EntriesSound'
  <2>1. \A i \in DOMAIN g_entries :
          /\ DOMAIN g_entries[i].chunks # {}
          /\ \A x \in DOMAIN g_entries[i].chunks :
               LET k == g_entries[i].chunks[x] IN
               k \in DOMAIN g_msgs' \ g_out /\ g_msgs'[k].id = g_entries[i].id /\ x \in 0 .. (g_msgs'[k].next - 1)
    <3> SUFFICES ASSUME NEW i \in DOMAIN g_entries, NEW x \in DOMAIN g_entries[i].chunks, NEW k, k = g_entries[i].chunks[x]
                 PROVE  k \in DOMAIN g_msgs' \ g_out /\ g_msgs'[k].id = g_entries[i].id /\ x \in 0 .. (g_msgs'[k].next - 1)
      BY <1>1 DEF Frag!EntriesSound
    <3>1. k \in DOMAIN g_msgs /\ k \notin g_out /\ g_msgs[k].id = g_entries[i].id /\ x \in 0 .. (g_msgs[k].next - 1)
      BY <1>1, Author
    <3> QED BY <1>5, <1>13, <1>17, <3>1
  <2> QED BY <1>1, <1>2, <2>1 DEF Frag!EntriesSound
<1>24. ASSUME NEW n \in Frag!InFlight', g_msgs'[n].next > 0 PROVE Frag!Placed(n)' \/ Frag!Excused(n)'
  <2>1. n \in Frag!InFlight /\ n \in 1 .. N
    <3>1. n # N + 1
      BY <1>11, <1>13, <1>24
    <3> QED BY <1>5, <1>16, <3>1 DEF Frag!InFlight
  <2>2. g_msgs'[n] = g_msgs[n]
    BY <1>13, <2>1
  <2>3. Frag!Placed(n) \/ Frag!Excused(n)
    BY <1>24, <2>1, <2>2 DEF Frag!FragmentsInv
  <2>4. Frag!Placed(n) => Frag!Placed(n)'
    BY <1>2, <2>2 DEF Frag!Placed
  <2> QED BY <1>5, <1>18, <2>1, <2>3, <2>4
<1>25. Frag!LostToUnfinished'
  <2>1. \A n \in Frag!Lost : n \in DOMAIN g_msgs
    BY DEF Frag!Lost
  <2> QED BY <1>16, <1>18, <2>1 DEF Frag!FragmentsInv, Frag!LostToUnfinished
<1>26. Frag!FaultFreeReassembled'
  <2>1. Frag!FaultFreeReassembled
    BY DEF Frag!FragmentsInv
  <2> QED BY <1>2, <1>5, <1>11, <1>13, <1>14, <1>15, <1>17, <2>1 DEF Frag!FaultFreeReassembled
<1> QED BY <1>22, <1>23, <1>24, <1>25, <1>26 DEF Frag!FragmentsInv

LEMMA FragStart ==
  ASSUME Frag!Init
  PROVE  Frag!FragmentsInv
<1>1. g_msgs = <<>> /\ g_entries = <<>> /\ g_out = {} /\ g_failed = {} /\ g_crowded = {}
  BY DEF Frag!Init
<1>2. DOMAIN g_msgs = {} /\ DOMAIN g_entries = {} /\ Frag!InFlight = {} /\ Frag!Lost = {}
  BY <1>1 DEF Frag!InFlight, Frag!Lost
<1>3. Frag!InFlight \subseteq g_crowded
  BY <1>2
<1>4. Frag!MessagesSound
  BY <1>1, <1>2, <1>3 DEF Frag!MessagesSound
<1>5. Frag!EntriesSound
  BY <1>1, <1>2 DEF Frag!EntriesSound
<1> QED BY <1>2, <1>4, <1>5 DEF Frag!FragmentsInv, Frag!FaultFreeReassembled, Frag!LostToUnfinished

\* Whatever fragments interleave and whatever writes fail: a packet written whole
\* comes out whole, or is lost to a crowd or to what a crowd or a failed write left behind.
THEOREM FragmentsComeOut == MCSpec => []FaultFreeReassembled
<1> DEFINE I == which = "frag" => Frag!FragmentsInv
<1>1. MCInit => I
  BY FragStart DEF MCInit
<1>2. I /\ [MCNext]_mcVars => I'
  <2> SUFFICES ASSUME I, [MCNext]_mcVars PROVE I'
    OBVIOUS
  <2>1. CASE which = "frag" /\ Frag!Next /\ UNCHANGED which
    <3>1. Frag!FragmentsInv
      BY <2>1
    <3>2. ASSUME NEW n \in Sizes, Frag!Begin(n) PROVE Frag!FragmentsInv'
      BY <3>1, <3>2, BeginStep
    <3>3. ASSUME NEW m \in DOMAIN g_msgs, Frag!Write(m) \/ Frag!WriteFails(m) PROVE Frag!FragmentsInv'
      BY <3>1, <3>3, WriteStep, WriteFailsStep
    <3> QED BY <2>1, <3>2, <3>3 DEF Frag!Next
  <2>2. CASE which # "frag" /\ UNCHANGED which
    BY <2>2
  <2>3. CASE UNCHANGED mcVars
    <3>1. UNCHANGED <<which, g_msgs, g_entries, g_out, g_failed, g_crowded>>
      BY <2>3 DEF mcVars, fragVars
    <3>2. Frag!MessagesSound' <=> Frag!MessagesSound
      BY <3>1 DEF Frag!MessagesSound, Frag!InFlight, Frag!TooMany
    <3>3. Frag!EntriesSound' <=> Frag!EntriesSound
      BY <3>1 DEF Frag!EntriesSound
    <3>4. Frag!InFlight' = Frag!InFlight /\ Frag!Lost' = Frag!Lost
      BY <3>1 DEF Frag!InFlight, Frag!Lost
    <3>5. \A m : (Frag!Excused(m)' <=> Frag!Excused(m)) /\ (Frag!Placed(m)' <=> Frag!Placed(m))
      BY <3>1, <3>4 DEF Frag!Excused, Frag!Placed
    <3>6. Frag!FragmentsInv' <=> Frag!FragmentsInv
      BY <3>1, <3>2, <3>3, <3>4, <3>5 DEF Frag!FragmentsInv, Frag!FaultFreeReassembled, Frag!LostToUnfinished
    <3> QED BY <3>1, <3>6
  <2>4. (UNCHANGED which /\ (which = "frag" => Frag!Next)) \/ UNCHANGED mcVars
    BY DEF MCNext
  <2> QED BY <2>1, <2>2, <2>3, <2>4
<1>3. I => FaultFreeReassembled
  BY DEF FaultFreeReassembled, Frag!FragmentsInv
<1> QED BY <1>1, <1>2, <1>3, PTL DEF MCSpec

-----------------------------------------------------------------------------
(***************************************************************************)
(* A content in transfer: what its entry holds, what the channels carry,   *)
(* and how the two belong together in the first round.                     *)
(***************************************************************************)

\* The fields of an entry.
EntryRec(e) ==
  e \in [pending : BOOLEAN, sized : BOOLEAN, total : {0, Total}, received : SUBSET Fetch!Chunk,
         active : {e.active}, unassigned : Seq(Fetch!Span), candidates : Seq(Provider),
         high : {-1} \cup Nat]

\* An entry that is sized and sound, in the terms of the library of finite sets.
Sound(e) ==
  /\ EntryRec(e)
  /\ DOMAIN e.active \subseteq Provider /\ e.active \in [DOMAIN e.active -> Fetch!Span]
  /\ IsFiniteSet(DOMAIN e.active) /\ Cardinality(DOMAIN e.active) <= MaxFetches
  /\ \A i \in DOMAIN e.candidates : e.candidates[i] \notin DOMAIN e.active
  /\ \A i, j \in DOMAIN e.candidates : e.candidates[i] = e.candidates[j] => i = j

\* The instance counts with the library's operators.
LEMMA FetchCardinality ==
  ASSUME NEW S
  PROVE  Fetch!Cardinality(S) = Cardinality(S) /\ (Fetch!IsFiniteSet(S) <=> IsFiniteSet(S))
BY DEF Cardinality, Fetch!Cardinality, IsFiniteSet, Fetch!IsFiniteSet

\* Nothing is known yet of a content whose size nobody told.
Blank(e) == /\ DOMAIN e.active = {} /\ e.unassigned = <<>> /\ e.candidates = <<>>
            /\ e.received = {} /\ e.total = 0

\* EntrySound, in two parts.
LEMMA SoundIs ==
  ASSUME NEW e
  PROVE  Fetch!EntrySound(e) <=> Sound(e) /\ (~e.sized => Blank(e))
BY FetchCardinality DEF Fetch!EntrySound, Sound, EntryRec, Blank

\* f is e with new fetches, of the providers N.
Grows(e, f, N) ==
  /\ f.pending = e.pending /\ f.sized = e.sized /\ f.total = e.total
  /\ f.received = e.received /\ f.high = e.high
  /\ DOMAIN f.active = DOMAIN e.active \cup N /\ N \cap DOMAIN e.active = {}
  /\ \A q \in DOMAIN e.active : f.active[q] = e.active[q]
  /\ \A i : Fetch!Covers(e, i) => Fetch!Covers(f, i)
  /\ Fetch!Candidates(f) \subseteq Fetch!Candidates(e)

\* Providers that were not fetching are put to work.
LEMMA PutToWork ==
  ASSUME NEW e, Sound(e), NEW S, S \subseteq Provider, IsFiniteSet(S),
         S \cap DOMAIN e.active = {}, S \cap Fetch!Candidates(e) = {},
         Cardinality(DOMAIN e.active) + Cardinality(S) <= MaxFetches,
         NEW ranges, \A p \in S : ranges[p] \in Fetch!Span
  PROVE  LET f == Fetch!Assigned(e, S, ranges)
         IN  /\ Sound(f)
             /\ f.pending = e.pending /\ f.sized = e.sized /\ f.total = e.total
             /\ f.received = e.received /\ f.high = e.high
             /\ f.unassigned = e.unassigned /\ f.candidates = e.candidates
             /\ DOMAIN f.active = DOMAIN e.active \cup S
             /\ \A q \in DOMAIN e.active : f.active[q] = e.active[q]
             /\ \A q \in S : f.active[q] = ranges[q]
<1> DEFINE w == [p \in DOMAIN e.active \cup S |-> IF p \in S THEN ranges[p] ELSE e.active[p]]
           f == Fetch!Assigned(e, S, ranges)
<1>1. f = [e EXCEPT !.active = w]
  BY DEF Fetch!Assigned
<1>2. DOMAIN w = DOMAIN e.active \cup S /\ w \in [DOMAIN w -> Fetch!Span]
  BY DEF Sound
<1>3. /\ \A q \in DOMAIN e.active : w[q] = e.active[q]
      /\ \A q \in S : w[q] = ranges[q]
  OBVIOUS
<1> HIDE DEF w, f
<1>4. /\ f.pending = e.pending /\ f.sized = e.sized /\ f.total = e.total
      /\ f.received = e.received /\ f.high = e.high
      /\ f.unassigned = e.unassigned /\ f.candidates = e.candidates /\ f.active = w
  BY <1>1 DEF Sound, EntryRec
<1>5. EntryRec(f)
  BY <1>1, <1>4 DEF Sound, EntryRec
<1>6. IsFiniteSet(DOMAIN w) /\ Cardinality(DOMAIN w) <= MaxFetches
  <2>1. IsFiniteSet(DOMAIN e.active)
    BY DEF Sound
  <2>2. DOMAIN e.active \cap S = {} /\ Cardinality({}) = 0
    BY FS_EmptySet
  <2>3. Cardinality(DOMAIN e.active) \in Nat /\ Cardinality(S) \in Nat
    BY <2>1, FS_CardinalityType
  <2>4. /\ IsFiniteSet(DOMAIN e.active \cup S)
        /\ Cardinality(DOMAIN e.active \cup S) = Cardinality(DOMAIN e.active) + Cardinality(S) - 0
    BY <2>1, <2>2, FS_Union
  <2>5. Cardinality(DOMAIN e.active \cup S) = Cardinality(DOMAIN e.active) + Cardinality(S)
    BY <2>3, <2>4
  <2> QED BY <1>2, <2>4, <2>5
<1>7. \A i \in DOMAIN f.candidates : f.candidates[i] \notin DOMAIN w
  BY <1>2, <1>4 DEF Sound, Fetch!Candidates
<1>8. Sound(f)
  BY <1>2, <1>4, <1>5, <1>6, <1>7 DEF Sound
<1> QED BY <1>2, <1>3, <1>4, <1>8 DEF f

\* The next of some candidates, and their ranges, for the free slots.
LEMMA CandidatesOffered ==
  ASSUME Fetch!FetchAssumption, NEW e, Sound(e)
  PROVE  LET f == Fetch!OfferToCandidates(e)
         IN  Sound(f) /\ Grows(e, f, DOMAIN f.active \ DOMAIN e.active)
             /\ DOMAIN f.active \ DOMAIN e.active \subseteq Fetch!Candidates(e)
             /\ Fetch!Candidates(f) \cap DOMAIN f.active = {}
             /\ (DOMAIN f.active = {} => f.unassigned = e.unassigned)
<1> DEFINE n == Cardinality(DOMAIN e.active)
           U == e.unassigned
           C == e.candidates
           k == Fetch!Min2(Fetch!FreeSlots(e), Fetch!Min2(Len(C), Len(U)))
           next == {C[i] : i \in 1 .. k}
           Nth(p) == CHOOSE i \in 1 .. k : C[i] = p
           ranges == [p \in next |-> U[Nth(p)]]
           u == SubSeq(U, k + 1, Len(U))
           c == SubSeq(C, k + 1, Len(C))
           g == [e EXCEPT !.unassigned = u, !.candidates = c]
           f == Fetch!OfferToCandidates(e)
<1>1. f = Fetch!Assigned(g, next, ranges)
  BY DEF Fetch!OfferToCandidates
<1>2. /\ n \in Nat /\ n <= MaxFetches /\ MaxFetches \in Nat \ {0}
      /\ U \in Seq(Fetch!Span) /\ C \in Seq(Provider)
      /\ Len(U) \in Nat /\ Len(C) \in Nat /\ DOMAIN U = 1 .. Len(U) /\ DOMAIN C = 1 .. Len(C)
  BY FS_CardinalityType DEF Sound, EntryRec, Fetch!FetchAssumption
<1>3. Fetch!FreeSlots(e) = MaxFetches - n
  BY FetchCardinality DEF Fetch!FreeSlots
<1>4. k \in Nat /\ k <= MaxFetches - n /\ k <= Len(C) /\ k <= Len(U)
  BY <1>2, <1>3 DEF Fetch!Min2
<1> HIDE DEF n, k, f
<1>5. /\ u \in Seq(Fetch!Span) /\ Len(u) = Len(U) - k /\ \A j \in 1 .. Len(U) - k : u[j] = U[j + k]
      /\ c \in Seq(Provider) /\ Len(c) = Len(C) - k /\ \A j \in 1 .. Len(C) - k : c[j] = C[j + k]
  BY <1>2, <1>4
<1>6. DOMAIN u = 1 .. Len(U) - k /\ DOMAIN c = 1 .. Len(C) - k
  BY <1>5
<1> HIDE DEF u, c
<1>7. /\ g.pending = e.pending /\ g.sized = e.sized /\ g.total = e.total /\ g.active = e.active
      /\ g.received = e.received /\ g.high = e.high /\ g.unassigned = u /\ g.candidates = c
  BY <1>5 DEF Sound, EntryRec
<1>8. EntryRec(g)
  BY <1>5, <1>7 DEF Sound, EntryRec
<1> HIDE DEF g
<1>9. \A i, j \in DOMAIN C : C[i] = C[j] => i = j
  BY DEF Sound
<1>10. \A i \in DOMAIN C : C[i] \notin DOMAIN e.active
  BY DEF Sound
<1>11. Sound(g)
  <2>1. \A i, j \in DOMAIN c : c[i] = c[j] => i = j
    <3> TAKE i, j \in DOMAIN c
    <3>1. i + k \in DOMAIN C /\ c[i] = C[i + k] /\ i \in Nat
      BY <1>2, <1>4, <1>5, <1>6
    <3>2. j + k \in DOMAIN C /\ c[j] = C[j + k] /\ j \in Nat
      BY <1>2, <1>4, <1>5, <1>6
    <3>3. c[i] = c[j] => i + k = j + k
      BY <1>9, <3>1, <3>2
    <3> QED BY <1>4, <3>1, <3>2, <3>3
  <2>2. \A i \in DOMAIN c : c[i] \notin DOMAIN e.active
    <3> TAKE i \in DOMAIN c
    <3>1. i + k \in DOMAIN C /\ c[i] = C[i + k]
      BY <1>2, <1>4, <1>5, <1>6
    <3> QED BY <1>10, <3>1
  <2> QED BY <1>7, <1>8, <2>1, <2>2 DEF Sound
<1>12. next \subseteq Provider /\ IsFiniteSet(next) /\ Cardinality(next) <= k
  <2>1. next \subseteq Provider
    BY <1>2, <1>4
  <2>2. [i \in 1 .. k |-> C[i]] \in Surjection(1 .. k, next)
    BY DEF Surjection
  <2>3. IsFiniteSet(1 .. k) /\ Cardinality(1 .. k) = k
    BY <1>4, FS_Interval
  <2> QED BY <2>1, <2>2, <2>3, FS_Surjection
<1>13. next \cap DOMAIN e.active = {} /\ next \subseteq Fetch!Candidates(e)
  BY <1>2, <1>4, <1>10 DEF Fetch!Candidates
<1>14. next \cap Fetch!Candidates(g) = {}
  <2> SUFFICES ASSUME NEW i \in 1 .. k, NEW j \in DOMAIN c, C[i] = c[j] PROVE FALSE
    BY <1>7 DEF Fetch!Candidates
  <2>1. j + k \in DOMAIN C /\ c[j] = C[j + k] /\ i \in DOMAIN C /\ i # j + k
    BY <1>2, <1>4, <1>5, <1>6
  <2> QED BY <1>9, <2>1
<1>15. \A i \in 1 .. k : Nth(C[i]) = i
  <2> TAKE i \in 1 .. k
  <2>1. \A j \in 1 .. k : C[j] = C[i] => j = i
    BY <1>2, <1>4, <1>9
  <2> QED BY <2>1
<1>16. \A i \in 1 .. k : ranges[C[i]] = U[i]
  BY <1>15
<1>17. \A p \in next : ranges[p] \in Fetch!Span
  BY <1>2, <1>4, <1>16
<1> HIDE DEF ranges, next
<1>18. Cardinality(DOMAIN g.active) + Cardinality(next) <= MaxFetches
  <2>1. Cardinality(next) \in Nat /\ Cardinality(DOMAIN g.active) = n
    BY <1>7, <1>12, FS_CardinalityType DEF n
  <2> QED BY <1>2, <1>4, <1>12, <2>1
<1>19. /\ Sound(f)
       /\ f.pending = g.pending /\ f.sized = g.sized /\ f.total = g.total
       /\ f.received = g.received /\ f.high = g.high
       /\ f.unassigned = g.unassigned /\ f.candidates = g.candidates
       /\ DOMAIN f.active = DOMAIN g.active \cup next
       /\ \A q \in DOMAIN g.active : f.active[q] = g.active[q]
       /\ \A q \in next : f.active[q] = ranges[q]
  BY <1>1, <1>7, <1>11, <1>12, <1>13, <1>14, <1>17, <1>18, PutToWork
<1>20. DOMAIN f.active \ DOMAIN e.active = next
  BY <1>7, <1>13, <1>19
<1>21. Fetch!Candidates(f) \subseteq Fetch!Candidates(e)
  <2> SUFFICES ASSUME NEW j \in DOMAIN c PROVE c[j] \in Fetch!Candidates(e)
    BY <1>7, <1>19 DEF Fetch!Candidates
  <2>1. j + k \in DOMAIN C /\ c[j] = C[j + k]
    BY <1>2, <1>4, <1>5, <1>6
  <2> QED BY <2>1 DEF Fetch!Candidates
<1>22. ASSUME NEW i, Fetch!Covers(e, i) PROVE Fetch!Covers(f, i)
  <2>1. CASE \E p \in DOMAIN e.active : i \in Fetch!RangeOf(e.active[p])
    BY <1>7, <1>19, <2>1 DEF Fetch!Covers
  <2>2. ASSUME NEW j \in DOMAIN U, i \in Fetch!RangeOf(U[j]) PROVE Fetch!Covers(f, i)
    <3>1. CASE j <= k
      <4>1. C[j] \in next /\ ranges[C[j]] = U[j]
        BY <1>2, <1>4, <1>16, <2>2, <3>1 DEF next
      <4>2. C[j] \in DOMAIN f.active /\ f.active[C[j]] = U[j]
        BY <1>19, <4>1
      <4> QED BY <2>2, <4>2 DEF Fetch!Covers
    <3>2. CASE ~(j <= k)
      <4>1. j - k \in DOMAIN u /\ u[j - k] = U[j]
        BY <1>2, <1>4, <1>5, <1>6, <2>2, <3>2
      <4>2. j - k \in DOMAIN f.unassigned /\ f.unassigned[j - k] = U[j]
        BY <1>7, <1>19, <4>1
      <4> QED BY <2>2, <4>2 DEF Fetch!Covers
    <3> QED BY <3>1, <3>2
  <2> QED BY <1>22, <2>1, <2>2 DEF Fetch!Covers
<1>23. Grows(e, f, DOMAIN f.active \ DOMAIN e.active)
  BY <1>7, <1>13, <1>19, <1>20, <1>21, <1>22 DEF Grows
<1>24. Fetch!Candidates(f) \cap DOMAIN f.active = {}
  BY <1>19 DEF Sound, Fetch!Candidates
<1>25. ASSUME DOMAIN f.active = {} PROVE f.unassigned = e.unassigned
  <2>1. next = {}
    BY <1>19, <1>25
  <2>2. k = 0
    <3>1. 1 \in 1 .. k => C[1] \in next
      BY DEF next
    <3> QED BY <1>4, <2>1, <3>1
  <2>3. u = U
    BY <1>2, <2>2 DEF u
  <2> QED BY <1>7, <1>19, <2>3
<1> QED BY <1>13, <1>19, <1>20, <1>23, <1>24, <1>25 DEF f

\* No new fetch is one way to grow.
LEMMA GrowsByNone == ASSUME NEW e PROVE Grows(e, e, {})
BY DEF Grows

\* A provider that is neither fetching nor a candidate gets the next range.
LEMMA ProviderOffered ==
  ASSUME Fetch!FetchAssumption, NEW e, Sound(e), NEW p \in Provider, p \notin DOMAIN e.active,
         p \notin Fetch!Candidates(e)
  PROVE  LET f == Fetch!TryAssign(e, p)
         IN  Sound(f) /\ Grows(e, f, DOMAIN f.active \ DOMAIN e.active)
             /\ DOMAIN f.active \ DOMAIN e.active \subseteq {p}
             /\ (DOMAIN f.active = {} => e.unassigned = <<>>)
             /\ f.candidates = e.candidates
<1> DEFINE f == Fetch!TryAssign(e, p)
           n == Cardinality(DOMAIN e.active)
           U == e.unassigned
           g == [e EXCEPT !.unassigned = Tail(U)]
           ranges == [q \in {p} |-> Head(U)]
<1>1. /\ n \in Nat /\ n <= MaxFetches /\ MaxFetches \in Nat \ {0}
      /\ U \in Seq(Fetch!Span) /\ Len(U) \in Nat /\ DOMAIN U = 1 .. Len(U)
  BY FS_CardinalityType DEF Sound, EntryRec, Fetch!FetchAssumption
<1>2. Fetch!FreeSlots(e) = MaxFetches - n
  BY FetchCardinality DEF Fetch!FreeSlots
<1>3. CASE ~(Fetch!FreeSlots(e) > 0 /\ U # <<>>)
  <2>1. f = e
    BY <1>3 DEF Fetch!TryAssign
  <2>2. DOMAIN e.active = {} => n = 0
    BY FS_EmptySet
  <2>3. DOMAIN e.active = {} => U = <<>>
    BY <1>1, <1>2, <1>3, <2>2
  <2>4. DOMAIN e.active \ DOMAIN e.active = {}
    OBVIOUS
  <2> HIDE DEF f
  <2>5. Grows(e, f, DOMAIN f.active \ DOMAIN e.active)
    BY <2>1, <2>4, GrowsByNone
  <2> QED BY <2>1, <2>3, <2>5 DEF f
<1>4. CASE Fetch!FreeSlots(e) > 0 /\ U # <<>>
  <2>1. f = Fetch!Assigned(g, {p}, ranges)
    BY <1>4 DEF Fetch!TryAssign
  <2>2. /\ Tail(U) \in Seq(Fetch!Span) /\ Head(U) \in Fetch!Span /\ Head(U) = U[1]
        /\ Len(Tail(U)) = Len(U) - 1 /\ \A j \in 1 .. Len(U) - 1 : Tail(U)[j] = U[j + 1]
    BY <1>1, <1>4
  <2>3. /\ g.pending = e.pending /\ g.sized = e.sized /\ g.total = e.total /\ g.active = e.active
        /\ g.received = e.received /\ g.high = e.high /\ g.unassigned = Tail(U)
        /\ g.candidates = e.candidates
    BY <2>2 DEF Sound, EntryRec
  <2>4. EntryRec(g)
    BY <2>2, <2>3 DEF Sound, EntryRec
  <2> HIDE DEF g, f
  <2>5. Sound(g)
    BY <2>3, <2>4 DEF Sound
  <2>6. {p} \subseteq Provider /\ IsFiniteSet({p}) /\ {p} \cap DOMAIN g.active = {}
        /\ {p} \cap Fetch!Candidates(g) = {}
    <3>1. IsFiniteSet({p})
      BY FS_Singleton
    <3>2. Fetch!Candidates(g) = Fetch!Candidates(e)
      BY <2>3 DEF Fetch!Candidates
    <3>3. {p} \cap DOMAIN g.active = {}
      BY <2>3
    <3>4. {p} \cap Fetch!Candidates(g) = {}
      BY <3>2
    <3> QED BY <3>1, <3>3, <3>4
  <2>7. Cardinality(DOMAIN g.active) + Cardinality({p}) <= MaxFetches
    <3>1. Cardinality({p}) = 1 /\ Cardinality(DOMAIN g.active) = n
      BY <2>3, FS_Singleton DEF n
    <3> HIDE DEF n
    <3> QED BY <1>1, <1>2, <1>4, <3>1
  <2>8. \A q \in {p} : ranges[q] \in Fetch!Span
    BY <2>2
  <2> HIDE DEF ranges
  <2>9. /\ Sound(f)
        /\ f.pending = g.pending /\ f.sized = g.sized /\ f.total = g.total
        /\ f.received = g.received /\ f.high = g.high
        /\ f.unassigned = g.unassigned /\ f.candidates = g.candidates
        /\ DOMAIN f.active = DOMAIN g.active \cup {p}
        /\ \A q \in DOMAIN g.active : f.active[q] = g.active[q]
        /\ \A q \in {p} : f.active[q] = ranges[q]
    <3> DEFINE S == {p}
    <3>1. S \subseteq Provider /\ IsFiniteSet(S) /\ S \cap DOMAIN g.active = {}
          /\ S \cap Fetch!Candidates(g) = {}
          /\ Cardinality(DOMAIN g.active) + Cardinality(S) <= MaxFetches
          /\ (\A q \in S : ranges[q] \in Fetch!Span) /\ f = Fetch!Assigned(g, S, ranges)
      BY <2>1, <2>6, <2>7, <2>8
    <3> HIDE DEF S
    <3>2. /\ Sound(f)
          /\ f.pending = g.pending /\ f.sized = g.sized /\ f.total = g.total
          /\ f.received = g.received /\ f.high = g.high
          /\ f.unassigned = g.unassigned /\ f.candidates = g.candidates
          /\ DOMAIN f.active = DOMAIN g.active \cup S
          /\ \A q \in DOMAIN g.active : f.active[q] = g.active[q]
          /\ \A q \in S : f.active[q] = ranges[q]
      BY <2>5, <3>1, PutToWork
    <3> QED BY <3>2 DEF S
  <2>10. DOMAIN f.active \ DOMAIN e.active = {p}
    BY <2>3, <2>9
  <2>11. ASSUME NEW i, Fetch!Covers(e, i) PROVE Fetch!Covers(f, i)
    <3>1. CASE \E q \in DOMAIN e.active : i \in Fetch!RangeOf(e.active[q])
      BY <2>3, <2>9, <3>1 DEF Fetch!Covers
    <3>2. ASSUME NEW j \in DOMAIN U, i \in Fetch!RangeOf(U[j]) PROVE Fetch!Covers(f, i)
      <4>1. CASE j = 1
        <5>1. p \in DOMAIN f.active /\ f.active[p] = U[j]
          BY <2>2, <2>9, <4>1 DEF ranges
        <5> QED BY <3>2, <5>1 DEF Fetch!Covers
      <4>2. CASE j # 1
        <5>1. j - 1 \in DOMAIN Tail(U) /\ Tail(U)[j - 1] = U[j]
          BY <1>1, <2>2, <3>2, <4>2
        <5>2. j - 1 \in DOMAIN f.unassigned /\ f.unassigned[j - 1] = U[j]
          BY <2>3, <2>9, <5>1
        <5> QED BY <3>2, <5>2 DEF Fetch!Covers
      <4> QED BY <4>1, <4>2
    <3> QED BY <2>11, <3>1, <3>2 DEF Fetch!Covers
  <2>12. Fetch!Candidates(f) \subseteq Fetch!Candidates(e)
    BY <2>3, <2>9 DEF Fetch!Candidates
  <2>13. Grows(e, f, DOMAIN f.active \ DOMAIN e.active)
    BY <2>3, <2>6, <2>9, <2>10, <2>11, <2>12 DEF Grows
  <2> QED BY <2>3, <2>9, <2>10, <2>13 DEF f
<1> QED BY <1>3, <1>4

\* The candidates first, then the provider that just finished.
LEMMA FetchesGoOn ==
  ASSUME Fetch!FetchAssumption, NEW e, Sound(e), NEW p \in Provider, p \notin DOMAIN e.active,
         p \notin Fetch!Candidates(e)
  PROVE  LET f == Fetch!KeepFetchesGoing(e, p)
         IN  Sound(f) /\ Grows(e, f, DOMAIN f.active \ DOMAIN e.active)
             /\ DOMAIN f.active \ DOMAIN e.active \subseteq Fetch!Candidates(e) \cup {p}
             /\ (DOMAIN f.active = {} => e.unassigned = <<>>)
<1> DEFINE g == Fetch!OfferToCandidates(e)
           f == Fetch!KeepFetchesGoing(e, p)
<1>1. f = Fetch!TryAssign(g, p)
  BY DEF Fetch!KeepFetchesGoing
<1>2. /\ Sound(g) /\ Grows(e, g, DOMAIN g.active \ DOMAIN e.active)
      /\ DOMAIN g.active \ DOMAIN e.active \subseteq Fetch!Candidates(e)
      /\ (DOMAIN g.active = {} => g.unassigned = e.unassigned)
  BY CandidatesOffered
<1> HIDE DEF g, f
<1>3. p \notin DOMAIN g.active /\ p \notin Fetch!Candidates(g)
  BY <1>2 DEF Grows
<1>4. /\ Sound(f) /\ Grows(g, f, DOMAIN f.active \ DOMAIN g.active)
      /\ DOMAIN f.active \ DOMAIN g.active \subseteq {p}
      /\ (DOMAIN f.active = {} => g.unassigned = <<>>)
  BY <1>1, <1>2, <1>3, ProviderOffered
<1>5. Grows(e, f, DOMAIN f.active \ DOMAIN e.active)
  BY <1>2, <1>4 DEF Grows
<1>6. DOMAIN f.active \ DOMAIN e.active \subseteq Fetch!Candidates(e) \cup {p}
  BY <1>2, <1>4
<1>7. DOMAIN f.active = {} => e.unassigned = <<>>
  <2>1. DOMAIN f.active = {} => DOMAIN g.active = {}
    BY <1>4 DEF Grows
  <2> QED BY <1>2, <1>4, <2>1
<1> QED BY <1>4, <1>5, <1>6, <1>7 DEF f

\* f is e without the fetch of p.
Loses(e, f, p) ==
  /\ Sound(f)
  /\ f.pending = e.pending /\ f.sized = e.sized /\ f.total = e.total
  /\ f.received = e.received /\ f.high = e.high /\ f.candidates = e.candidates
  /\ DOMAIN f.active = DOMAIN e.active \ {p}
  /\ \A q \in DOMAIN f.active : f.active[q] = e.active[q]

\* A fetch that ends leaves the entry; its range may go back to the others.
LEMMA FetchRemoved ==
  ASSUME Fetch!FetchAssumption, NEW e, Sound(e), NEW p \in DOMAIN e.active
  PROVE  /\ p \in Provider /\ p \notin Fetch!Candidates(e) /\ e.active[p] \in Fetch!Span
         /\ Loses(e, [e EXCEPT !.active = Fetch!Without(@, p)], p)
         /\ Loses(e, [e EXCEPT !.active = Fetch!Without(@, p),
                               !.unassigned = Append(@, e.active[p])], p)
         /\ [e EXCEPT !.active = Fetch!Without(@, p)].unassigned = e.unassigned
         /\ \A i : Fetch!Covers(e, i)
              => /\ \/ Fetch!Covers([e EXCEPT !.active = Fetch!Without(@, p)], i)
                    \/ i \in Fetch!RangeOf(e.active[p])
                 /\ Fetch!Covers([e EXCEPT !.active = Fetch!Without(@, p),
                                           !.unassigned = Append(@, e.active[p])], i)
<1> DEFINE w == Fetch!Without(e.active, p)
           u == Append(e.unassigned, e.active[p])
           g == [e EXCEPT !.active = w]
           h == [e EXCEPT !.active = w, !.unassigned = u]
<1>1. p \in Provider /\ p \notin Fetch!Candidates(e) /\ e.active[p] \in Fetch!Span
  BY DEF Sound, Fetch!Candidates
<1>2. /\ DOMAIN w = DOMAIN e.active \ {p} /\ w \in [DOMAIN w -> Fetch!Span]
      /\ \A q \in DOMAIN w : w[q] = e.active[q]
  BY DEF Fetch!Without, Sound
<1>3. IsFiniteSet(DOMAIN w) /\ Cardinality(DOMAIN w) <= MaxFetches
  <2>1. IsFiniteSet(DOMAIN e.active) /\ Cardinality(DOMAIN e.active) <= MaxFetches
    BY DEF Sound
  <2>2. Cardinality(DOMAIN e.active) \in Nat /\ Cardinality(DOMAIN w) = Cardinality(DOMAIN e.active) - 1
        /\ IsFiniteSet(DOMAIN w)
    BY <1>2, <2>1, FS_RemoveElement, FS_CardinalityType
  <2>3. MaxFetches \in Nat
    BY DEF Fetch!FetchAssumption
  <2> QED BY <2>1, <2>2, <2>3
<1>4. /\ e.unassigned \in Seq(Fetch!Span) /\ u \in Seq(Fetch!Span) /\ Len(u) = Len(e.unassigned) + 1
      /\ u[Len(u)] = e.active[p] /\ Len(e.unassigned) \in Nat
      /\ \A j \in 1 .. Len(e.unassigned) : u[j] = e.unassigned[j]
  BY <1>1 DEF Sound, EntryRec
<1> HIDE DEF w, u
<1>5. /\ g.pending = e.pending /\ g.sized = e.sized /\ g.total = e.total /\ g.active = w
      /\ g.received = e.received /\ g.high = e.high /\ g.unassigned = e.unassigned
      /\ g.candidates = e.candidates
  BY DEF Sound, EntryRec
<1>6. /\ h.pending = e.pending /\ h.sized = e.sized /\ h.total = e.total /\ h.active = w
      /\ h.received = e.received /\ h.high = e.high /\ h.unassigned = u
      /\ h.candidates = e.candidates
  BY <1>4 DEF Sound, EntryRec
<1>7. EntryRec(g)
  BY <1>5 DEF Sound, EntryRec
<1>8. EntryRec(h)
  BY <1>4, <1>6 DEF Sound, EntryRec
<1>9. g = [e EXCEPT !.active = Fetch!Without(@, p)]
      /\ h = [e EXCEPT !.active = Fetch!Without(@, p), !.unassigned = Append(@, e.active[p])]
  BY DEF w, u
<1> HIDE DEF g, h
<1>10. Sound(g) /\ Sound(h)
  BY <1>2, <1>3, <1>5, <1>6, <1>7, <1>8 DEF Sound
<1>11. ASSUME NEW i, Fetch!Covers(e, i)
       PROVE  (Fetch!Covers(g, i) \/ i \in Fetch!RangeOf(e.active[p])) /\ Fetch!Covers(h, i)
  <2>1. CASE i \in Fetch!RangeOf(e.active[p])
    <3>1. Len(u) \in DOMAIN h.unassigned /\ h.unassigned[Len(u)] = e.active[p]
      BY <1>4, <1>6
    <3> QED BY <2>1, <3>1 DEF Fetch!Covers
  <2>2. ASSUME NEW q \in DOMAIN e.active \ {p}, i \in Fetch!RangeOf(e.active[q])
        PROVE  Fetch!Covers(g, i) /\ Fetch!Covers(h, i)
    BY <1>2, <1>5, <1>6, <2>2 DEF Fetch!Covers
  <2>3. ASSUME NEW j \in DOMAIN e.unassigned, i \in Fetch!RangeOf(e.unassigned[j])
        PROVE  Fetch!Covers(g, i) /\ Fetch!Covers(h, i)
    <3>1. j \in DOMAIN h.unassigned /\ h.unassigned[j] = e.unassigned[j]
      BY <1>4, <1>6
    <3> QED BY <1>5, <2>3, <3>1 DEF Fetch!Covers
  <2> QED BY <1>11, <2>1, <2>2, <2>3 DEF Fetch!Covers
<1>12. Loses(e, g, p) /\ Loses(e, h, p)
  BY <1>2, <1>5, <1>6, <1>10 DEF Loses
<1> QED BY <1>1, <1>5, <1>9, <1>11, <1>12

-----------------------------------------------------------------------------
\* The first packet of a channel, and the rest.
LEMMA ChannelHead ==
  ASSUME NEW T, NEW s \in Seq(T), s # <<>>
  PROVE  /\ Head(s) = s[1] /\ Head(s) \in T /\ Tail(s) \in Seq(T) /\ Len(s) \in Nat \ {0}
         /\ Len(Tail(s)) = Len(s) - 1 /\ \A j \in 1 .. Len(s) - 1 : Tail(s)[j] = s[j + 1]
         /\ \A m : Fetch!Sends(Tail(s), m) => Fetch!Sends(s, m)
         /\ \A m : Fetch!Sends(s, m) => m = Head(s) \/ Fetch!Sends(Tail(s), m)
         /\ Fetch!Sends(s, Head(s))
         /\ (Len(s) = 1 => Tail(s) = <<>>)
<1>1. /\ Head(s) = s[1] /\ Head(s) \in T /\ Tail(s) \in Seq(T) /\ Len(s) \in Nat \ {0}
      /\ Len(Tail(s)) = Len(s) - 1 /\ \A j \in 1 .. Len(s) - 1 : Tail(s)[j] = s[j + 1]
      /\ DOMAIN s = 1 .. Len(s)
  OBVIOUS
<1>2. DOMAIN Tail(s) = 1 .. Len(s) - 1
  BY <1>1
<1>3. Len(s) = 1 => Tail(s) = <<>>
  BY <1>1, <1>2
<1>4. ASSUME NEW m, Fetch!Sends(Tail(s), m) PROVE Fetch!Sends(s, m)
  <2>1. PICK j \in 1 .. Len(s) - 1 : s[j + 1] = m
    BY <1>1, <1>2, <1>4 DEF Fetch!Sends
  <2>2. j + 1 \in DOMAIN s
    BY <1>1
  <2> QED BY <2>1, <2>2 DEF Fetch!Sends
<1>5. ASSUME NEW m, Fetch!Sends(s, m) PROVE m = Head(s) \/ Fetch!Sends(Tail(s), m)
  <2>1. PICK j \in DOMAIN s : s[j] = m
    BY <1>5 DEF Fetch!Sends
  <2>2. CASE j = 1
    BY <1>1, <2>1, <2>2
  <2>3. CASE j # 1
    <3>1. j - 1 \in DOMAIN Tail(s) /\ Tail(s)[j - 1] = s[j]
      BY <1>1, <1>2, <2>3
    <3> QED BY <2>1, <3>1 DEF Fetch!Sends
  <2> QED BY <2>2, <2>3
<1>6. Fetch!Sends(s, Head(s))
  BY <1>1 DEF Fetch!Sends
<1> QED BY <1>1, <1>3, <1>4, <1>5, <1>6

\* A packet sent.
LEMMA ChannelEnd ==
  ASSUME NEW T, NEW s \in Seq(T), NEW x \in T
  PROVE  /\ Append(s, x) \in Seq(T)
         /\ \A m : Fetch!Sends(Append(s, x), m) <=> Fetch!Sends(s, m) \/ m = x
<1>1. /\ Append(s, x) \in Seq(T) /\ Len(s) \in Nat /\ DOMAIN s = 1 .. Len(s)
      /\ DOMAIN Append(s, x) = 1 .. Len(s) + 1 /\ Append(s, x)[Len(s) + 1] = x
      /\ \A j \in 1 .. Len(s) : Append(s, x)[j] = s[j]
  OBVIOUS
<1>2. ASSUME NEW m, Fetch!Sends(s, m) PROVE Fetch!Sends(Append(s, x), m)
  <2>1. PICK j \in DOMAIN s : s[j] = m
    BY <1>2 DEF Fetch!Sends
  <2>2. j \in DOMAIN Append(s, x) /\ Append(s, x)[j] = m
    BY <1>1, <2>1
  <2> QED BY <2>2 DEF Fetch!Sends
<1>3. Len(s) + 1 \in DOMAIN Append(s, x)
  BY <1>1
<1>4. Fetch!Sends(Append(s, x), x)
  BY <1>1, <1>3 DEF Fetch!Sends
<1>5. ASSUME NEW m, Fetch!Sends(Append(s, x), m) PROVE Fetch!Sends(s, m) \/ m = x
  <2>1. PICK j \in 1 .. Len(s) + 1 : Append(s, x)[j] = m
    BY <1>1, <1>5 DEF Fetch!Sends
  <2>2. CASE j = Len(s) + 1
    BY <1>1, <2>1, <2>2
  <2>3. CASE j # Len(s) + 1
    <3>1. j \in DOMAIN s /\ s[j] = m
      BY <1>1, <2>1, <2>3
    <3> QED BY <3>1 DEF Fetch!Sends
  <2> QED BY <2>2, <2>3
<1> QED BY <1>1, <1>2, <1>4, <1>5

\* An empty channel carries nothing.
LEMMA NothingSent == ASSUME NEW m PROVE ~Fetch!Sends(<<>>, m)
BY DEF Fetch!Sends

\* A channel with one packet carries that one.
LEMMA OneSent == ASSUME NEW x, NEW m PROVE Fetch!Sends(<<x>>, m) <=> m = x
<1>1. DOMAIN <<x>> = {1} /\ <<x>>[1] = x
  OBVIOUS
<1> QED BY <1>1 DEF Fetch!Sends

\* The packets of the transfer, told apart by their type.
LEMMA AskedPackets ==
  /\ Fetch!Query \in Fetch!Asked /\ Fetch!Query.type = "query"
  /\ \A m \in Fetch!Asked : m.type = "query" => m = Fetch!Query
  /\ \A m \in Fetch!Asked : m # Fetch!Query
       => m.type = "request" /\ m.start \in Nat /\ m.end \in Nat /\ m.start <= m.end
  /\ \A r \in Fetch!Span : /\ Fetch!Request(r.start, r.end) \in Fetch!Asked
                          /\ Fetch!Request(r.start, r.end) # Fetch!Query
                          /\ Fetch!Request(r.start, r.end).type = "request"
                          /\ Fetch!Request(r.start, r.end).start = r.start
                          /\ Fetch!Request(r.start, r.end).end = r.end
<1>1. /\ Fetch!Query \in Fetch!Asked /\ Fetch!Query.type = "query"
      /\ \A m \in Fetch!Asked : m.type = "query" => m = Fetch!Query
  BY DEF Fetch!Asked, Fetch!Query
<1>2. ASSUME NEW m \in Fetch!Asked, m # Fetch!Query
      PROVE  m.type = "request" /\ m.start \in Nat /\ m.end \in Nat /\ m.start <= m.end
  BY <1>2 DEF Fetch!Asked
<1>3. ASSUME NEW r \in Fetch!Span
      PROVE  /\ Fetch!Request(r.start, r.end) \in Fetch!Asked
             /\ Fetch!Request(r.start, r.end) # Fetch!Query
             /\ Fetch!Request(r.start, r.end).type = "request"
             /\ Fetch!Request(r.start, r.end).start = r.start
             /\ Fetch!Request(r.start, r.end).end = r.end
  BY DEF Fetch!Asked, Fetch!Request, Fetch!Span, Fetch!Query
<1> QED BY <1>1, <1>2, <1>3

\* The answers, told apart by their type.
LEMMA ToldPackets ==
  /\ Fetch!Found \in Fetch!Told /\ Fetch!NotFound \in Fetch!Told /\ Fetch!Complete \in Fetch!Told
  /\ Fetch!Found.type = "found" /\ Fetch!NotFound.type = "notFound"
  /\ Fetch!Complete.type = "complete"
  /\ \A i \in Fetch!Chunk : Fetch!ChunkPacket(i) \in Fetch!Told
  /\ \A i : Fetch!ChunkPacket(i).type = "chunk" /\ Fetch!ChunkPacket(i).index = i
  /\ \A m \in Fetch!Told : m.type = "found" => m = Fetch!Found
  /\ \A m \in Fetch!Told : m.type = "notFound" => m = Fetch!NotFound
  /\ \A m \in Fetch!Told : m.type = "complete" => m = Fetch!Complete
  /\ \A m \in Fetch!Told : m.type = "chunk"
       => m.index \in Fetch!Chunk /\ m = Fetch!ChunkPacket(m.index)
<1> USE DEF Fetch!Found, Fetch!NotFound, Fetch!Complete, Fetch!ChunkPacket, Fetch!Told
<1>1. /\ Fetch!Found \in Fetch!Told /\ Fetch!NotFound \in Fetch!Told /\ Fetch!Complete \in Fetch!Told
      /\ Fetch!Found.type = "found" /\ Fetch!NotFound.type = "notFound"
      /\ Fetch!Complete.type = "complete"
  OBVIOUS
<1>2. \A i \in Fetch!Chunk : Fetch!ChunkPacket(i) \in Fetch!Told
  OBVIOUS
<1>3. \A i : Fetch!ChunkPacket(i).type = "chunk" /\ Fetch!ChunkPacket(i).index = i
  OBVIOUS
<1>4. ASSUME NEW m \in Fetch!Told
      PROVE  /\ m.type = "found" => m = Fetch!Found
             /\ m.type = "notFound" => m = Fetch!NotFound
             /\ m.type = "complete" => m = Fetch!Complete
             /\ m.type = "chunk" => m.index \in Fetch!Chunk /\ m = Fetch!ChunkPacket(m.index)
  OBVIOUS
<1> QED BY <1>1, <1>2, <1>3, <1>4

\* What a channel's next packet tells of the provider at its other end.
LEMMA AnswerHeard ==
  ASSUME NEW e, NEW p, NEW q \in Seq(Fetch!Asked), NEW s \in Seq(Fetch!Told),
         Fetch!Standing(e, p, q, s), s # <<>>
  PROVE  /\ q = <<>> \/ (p \notin DOMAIN e.active /\ p \notin Fetch!Candidates(e) /\ Fetch!Spent(q, s))
         /\ p \notin Fetch!Candidates(e) \/ p \in DOMAIN e.active
         /\ Head(s).type = "found" => p \notin DOMAIN e.active /\ p \notin Fetch!Candidates(e)
                                      /\ q = <<>> /\ Tail(s) = <<>>
         /\ Head(s).type = "notFound" /\ p \in DOMAIN e.active => q = <<>> /\ Tail(s) = <<>>
         /\ Head(s).type \in {"chunk", "complete"} /\ p \in DOMAIN e.active
              => q = <<>> /\ Fetch!Delivers(e, s, e.active[p])
         /\ Head(s).type = "complete" /\ p \in DOMAIN e.active => Len(s) = 1 /\ Tail(s) = <<>>
         /\ p \notin DOMAIN e.active => Fetch!Spent(q, Tail(s))
<1>1. /\ Head(s) = s[1] /\ Head(s) \in Fetch!Told /\ Tail(s) \in Seq(Fetch!Told) /\ Len(s) \in Nat \ {0}
      /\ \A m : Fetch!Sends(Tail(s), m) => Fetch!Sends(s, m)
      /\ Fetch!Sends(s, Head(s))
      /\ (Len(s) = 1 => Tail(s) = <<>>)
  BY ChannelHead
<1>2. Fetch!Asks(q, s) = FALSE
  BY DEF Fetch!Asks
<1>3. Fetch!Answers(q, s) => q = <<>> /\ Head(s) = Fetch!Found /\ Tail(s) = <<>>
  BY DEF Fetch!Answers
<1>4. Head(s).type = "found" => ~Fetch!Spent(q, s)
  BY <1>1, ToldPackets DEF Fetch!Spent
<1>5. s = <<Fetch!NotFound>> => Head(s).type = "notFound" /\ Tail(s) = <<>>
  BY ToldPackets
<1>6. ASSUME Fetch!Delivers(e, s, e.active[p])
      PROVE  /\ Head(s).type \in {"chunk", "complete"}
             /\ Head(s).type = "complete" => Len(s) = 1
  <2>1. CASE Len(s) = 1
    BY <1>1, <1>6, <2>1, ToldPackets DEF Fetch!Delivers
  <2>2. CASE Len(s) # 1
    <3>1. Len(s) \in Nat /\ Len(s) # 0
      BY <1>1
    <3>2. 1 \in 1 .. Len(s) - 1
      <4>1. \A n \in Nat : n # 0 /\ n # 1 => 1 \in 1 .. n - 1
        OBVIOUS
      <4> QED BY <2>2, <3>1, <4>1
    <3> QED BY <1>1, <1>6, <2>2, <3>2 DEF Fetch!Delivers
  <2> QED BY <2>1, <2>2
<1>7. CASE p \in DOMAIN e.active
  <2>1. Fetch!Works(e, p, q, s)
    BY <1>7 DEF Fetch!Standing
  <2>2. q = <<>> /\ (s = <<Fetch!NotFound>> \/ Fetch!Delivers(e, s, e.active[p]))
    BY <2>1 DEF Fetch!Works
  <2> QED BY <1>1, <1>5, <1>6, <1>7, <2>2
<1>8. CASE p \notin DOMAIN e.active
  <2>1. p \notin Fetch!Candidates(e) /\ (Fetch!Answers(q, s) \/ Fetch!Spent(q, s))
    BY <1>2, <1>8 DEF Fetch!Standing
  <2>2. Fetch!Spent(q, s) => Fetch!Spent(q, Tail(s))
    BY <1>1 DEF Fetch!Spent
  <2>3. q = <<>> /\ Tail(s) = <<>> => Fetch!Spent(q, Tail(s))
    BY NothingSent DEF Fetch!Spent
  <2> QED BY <1>3, <1>4, <1>8, <2>1, <2>2, <2>3
<1> QED BY <1>7, <1>8

\* What the next packet to a provider tells of it.
LEMMA QuestionHeard ==
  ASSUME NEW e, NEW p, NEW q \in Seq(Fetch!Asked), NEW s \in Seq(Fetch!Told),
         Fetch!Standing(e, p, q, s), q # <<>>, e.active \in [DOMAIN e.active -> Fetch!Span]
  PROVE  /\ p \in DOMAIN e.active
              => /\ s = <<>> /\ Tail(q) = <<>> /\ Head(q).type = "request"
                 /\ Head(q) = Fetch!Request(e.active[p].start, e.active[p].end)
         /\ p \notin DOMAIN e.active => p \notin Fetch!Candidates(e)
         /\ p \notin DOMAIN e.active /\ Head(q) = Fetch!Query => s = <<>> /\ Tail(q) = <<>>
         /\ p \notin DOMAIN e.active /\ Head(q).type = "request" => Fetch!Spent(q, s) /\ Fetch!Spent(Tail(q), s)
<1>1. /\ Head(q) \in Fetch!Asked /\ Fetch!Sends(q, Head(q))
      /\ \A m : Fetch!Sends(Tail(q), m) => Fetch!Sends(q, m)
  BY ChannelHead
<1>2. Fetch!Answers(q, s) = FALSE
  BY DEF Fetch!Answers
<1>3. Fetch!Asks(q, s) => Head(q) = Fetch!Query /\ Head(q).type = "query" /\ s = <<>> /\ Tail(q) = <<>>
  BY AskedPackets DEF Fetch!Asks
<1>4. Head(q) = Fetch!Query => ~Fetch!Spent(q, s)
  BY <1>1 DEF Fetch!Spent
<1>5. CASE p \in DOMAIN e.active
  <2>1. q = <<Fetch!Request(e.active[p].start, e.active[p].end)>> /\ s = <<>>
    BY <1>5 DEF Fetch!Standing, Fetch!Works
  <2>2. Fetch!Request(e.active[p].start, e.active[p].end).type = "request"
    BY <1>5, AskedPackets
  <2> QED BY <1>5, <2>1, <2>2
<1>6. CASE p \notin DOMAIN e.active
  <2>1. p \notin Fetch!Candidates(e) /\ (Fetch!Asks(q, s) \/ Fetch!Spent(q, s))
    BY <1>2, <1>6 DEF Fetch!Standing
  <2>2. Fetch!Spent(q, s) => Fetch!Spent(Tail(q), s)
    BY <1>1 DEF Fetch!Spent
  <2> QED BY <1>3, <1>4, <1>6, <2>1, <2>2
<1> QED BY <1>5, <1>6

\* Whoever was at work and gets nothing more to do is done with.
LEMMA WorkerSpent ==
  ASSUME NEW e, NEW p, NEW q, NEW s \in Seq(Fetch!Told), Fetch!Works(e, p, q, s),
         e.active[p] \in Fetch!Span
  PROVE  Fetch!Spent(q, s)
<1>1. CASE q = <<Fetch!Request(e.active[p].start, e.active[p].end)>> /\ s = <<>>
  BY <1>1, AskedPackets, OneSent, NothingSent DEF Fetch!Spent
<1>2. CASE q = <<>> /\ s = <<Fetch!NotFound>>
  BY <1>2, ToldPackets, OneSent, NothingSent DEF Fetch!Spent
<1>3. CASE q = <<>> /\ Fetch!Delivers(e, s, e.active[p])
  <2>1. ~Fetch!Sends(s, Fetch!Found)
    <3> SUFFICES ASSUME NEW j \in 1 .. Len(s), s[j] = Fetch!Found PROVE FALSE
      BY DEF Fetch!Sends
    <3>1. j = Len(s) \/ j \in 1 .. Len(s) - 1
      OBVIOUS
    <3>2. s[j].type \in {"chunk", "complete"}
      BY <1>3, <3>1, ToldPackets DEF Fetch!Delivers
    <3> QED BY <3>2, ToldPackets
  <2> QED BY <1>3, <2>1, NothingSent DEF Fetch!Spent
<1> QED BY <1>1, <1>2, <1>3 DEF Fetch!Works

\* Every provider stands as the first round has it.
Stands(e, tp, fp) == \A p \in Provider : Fetch!Standing(e, p, tp[p], fp[p])

\* Every chunk the entry lacks has somebody to ask for it.
Covered(e) ==
  /\ \A i \in ((0 .. e.high) \cap Fetch!Chunk) \ e.received : Fetch!Covers(e, i)
  /\ e.total # 0 => e.high >= Total - 1

\* A provider stands as before in an entry that knows more and asks the same of it.
LEMMA StandingOn ==
  ASSUME NEW e, NEW f, NEW p, NEW q, NEW s, Fetch!Standing(e, p, q, s),
         p \in DOMAIN e.active <=> p \in DOMAIN f.active,
         p \in DOMAIN e.active => f.active[p] = e.active[p],
         p \in DOMAIN e.active \/ (p \in Fetch!Candidates(f) => p \in Fetch!Candidates(e)),
         e.received \subseteq f.received, e.total # 0 => f.total # 0
  PROVE  Fetch!Standing(f, p, q, s)
<1>1. CASE p \in DOMAIN e.active
  <2>1. Fetch!Works(e, p, q, s) /\ f.active[p] = e.active[p]
    BY <1>1 DEF Fetch!Standing
  <2>2. Fetch!Delivers(e, s, e.active[p]) => Fetch!Delivers(f, s, f.active[p])
    BY <2>1 DEF Fetch!Delivers
  <2>3. Fetch!Works(f, p, q, s)
    BY <2>1, <2>2 DEF Fetch!Works
  <2> QED BY <1>1, <2>3 DEF Fetch!Standing
<1>2. CASE p \notin DOMAIN e.active /\ p \in Fetch!Candidates(e)
  <2>1. q = <<>> /\ s = <<>>
    BY <1>2 DEF Fetch!Standing
  <2>2. Fetch!Spent(q, s)
    BY <2>1, NothingSent DEF Fetch!Spent
  <2> QED BY <1>2, <2>1, <2>2 DEF Fetch!Standing
<1>3. CASE p \notin DOMAIN e.active /\ p \notin Fetch!Candidates(e)
  BY <1>3 DEF Fetch!Standing
<1> QED BY <1>1, <1>2, <1>3

\* New fetches of providers with empty channels: each gets its request.
LEMMA WorkersJoin ==
  ASSUME NEW e, NEW f, NEW tp \in [Provider -> Seq(Fetch!Asked)],
         NEW fp \in [Provider -> Seq(Fetch!Told)], Stands(e, tp, fp),
         f.received = e.received, f.total = e.total,
         DOMAIN e.active \subseteq DOMAIN f.active,
         \A p \in DOMAIN e.active : f.active[p] = e.active[p],
         \A p \in DOMAIN f.active : f.active[p] \in Fetch!Span,
         Fetch!Candidates(f) \subseteq Fetch!Candidates(e),
         \A p \in DOMAIN f.active \ DOMAIN e.active : tp[p] = <<>> /\ fp[p] = <<>>
  PROVE  Stands(f, Fetch!SendRequests(tp, e, f), fp)
<1> DEFINE t == Fetch!SendRequests(tp, e, f)
<1> SUFFICES ASSUME NEW p \in Provider PROVE Fetch!Standing(f, p, t[p], fp[p])
  BY DEF Stands
<1>1. Fetch!Standing(e, p, tp[p], fp[p])
  BY DEF Stands
<1>2. CASE p \in DOMAIN f.active \ DOMAIN e.active
  <2>1. t[p] = <<Fetch!Request(f.active[p].start, f.active[p].end)>>
    <3> DEFINE m == Fetch!Request(f.active[p].start, f.active[p].end)
    <3>1. t[p] = Append(tp[p], m)
      BY <1>2 DEF Fetch!SendRequests
    <3>2. tp[p] = <<>>
      BY <1>2
    <3> HIDE DEF m, t
    <3>3. Append(<<>>, m) = <<m>>
      OBVIOUS
    <3> QED BY <3>1, <3>2, <3>3 DEF m
  <2>2. fp[p] = <<>>
    BY <1>2
  <2> QED BY <1>2, <2>1, <2>2 DEF Fetch!Standing, Fetch!Works
<1>3. CASE p \notin DOMAIN f.active \ DOMAIN e.active
  <2>1. t[p] = tp[p]
    BY <1>3 DEF Fetch!SendRequests
  <2>2. /\ p \in DOMAIN e.active <=> p \in DOMAIN f.active
        /\ p \in DOMAIN e.active => f.active[p] = e.active[p]
        /\ p \in Fetch!Candidates(f) => p \in Fetch!Candidates(e)
    BY <1>3
  <2>3. Fetch!Standing(f, p, tp[p], fp[p])
    BY <1>1, <2>2, StandingOn
  <2> QED BY <2>1, <2>3
<1> QED BY <1>2, <1>3

\* Of a provider that is not fetching a packet is consumed.
LEMMA StandsConsumed ==
  ASSUME NEW e, NEW tp \in [Provider -> Seq(Fetch!Asked)],
         NEW fp \in [Provider -> Seq(Fetch!Told)], Stands(e, tp, fp),
         NEW p \in Provider, p \notin DOMAIN e.active, fp[p] # <<>>
  PROVE  /\ Stands(e, tp, [fp EXCEPT ![p] = Tail(@)]) /\ p \notin Fetch!Candidates(e)
         /\ Head(fp[p]).type = "found" => tp[p] = <<>> /\ Tail(fp[p]) = <<>>
<1> DEFINE g == [fp EXCEPT ![p] = Tail(@)]
<1>1. Fetch!Standing(e, p, tp[p], fp[p])
  BY DEF Stands
<1>2. /\ p \notin Fetch!Candidates(e) /\ Fetch!Spent(tp[p], Tail(fp[p]))
      /\ Head(fp[p]).type = "found" => tp[p] = <<>> /\ Tail(fp[p]) = <<>>
  BY <1>1, AnswerHeard
<1>3. Fetch!Standing(e, p, tp[p], g[p])
  BY <1>2 DEF Fetch!Standing
<1>4. ASSUME NEW r \in Provider, r # p PROVE Fetch!Standing(e, r, tp[r], g[r])
  BY <1>4 DEF Stands
<1> QED BY <1>2, <1>3, <1>4 DEF Stands

\* A fetch ends, with the last packet of its provider or by its timer.
LEMMA WorkerLeaves ==
  ASSUME NEW e, NEW f, NEW tp \in [Provider -> Seq(Fetch!Asked)],
         NEW fp \in [Provider -> Seq(Fetch!Told)], Stands(e, tp, fp),
         e.active \in [DOMAIN e.active -> Fetch!Span], DOMAIN e.active \subseteq Provider,
         NEW p \in DOMAIN e.active, DOMAIN f.active = DOMAIN e.active \ {p},
         \A r \in DOMAIN f.active : f.active[r] = e.active[r],
         f.received = e.received, f.total = e.total, f.candidates = e.candidates,
         p \notin Fetch!Candidates(e)
  PROVE  /\ Stands(f, tp, fp)
         /\ fp[p] # <<>> /\ Head(fp[p]).type \in {"notFound", "complete"}
              => Stands(f, tp, [fp EXCEPT ![p] = Tail(@)]) /\ tp[p] = <<>> /\ Tail(fp[p]) = <<>>
<1> DEFINE g == [fp EXCEPT ![p] = Tail(@)]
<1>0. Fetch!Candidates(f) = Fetch!Candidates(e)
  BY DEF Fetch!Candidates
<1>1. ASSUME NEW r \in Provider, r # p PROVE Fetch!Standing(f, r, tp[r], fp[r])
  <2>1. Fetch!Standing(e, r, tp[r], fp[r])
    BY DEF Stands
  <2>2. /\ r \in DOMAIN e.active <=> r \in DOMAIN f.active
        /\ r \in DOMAIN e.active => f.active[r] = e.active[r]
    BY <1>1
  <2> QED BY <1>0, <2>1, <2>2, StandingOn
<1>2. p \in Provider /\ p \notin DOMAIN f.active /\ p \notin Fetch!Candidates(f)
  BY <1>0
<1>3. Fetch!Standing(e, p, tp[p], fp[p])
  BY <1>2 DEF Stands
<1>4. Fetch!Works(e, p, tp[p], fp[p])
  BY <1>3 DEF Fetch!Standing
<1>5. e.active[p] \in Fetch!Span /\ fp[p] \in Seq(Fetch!Told)
  BY <1>2
<1>6. Fetch!Spent(tp[p], fp[p])
  BY <1>4, <1>5, WorkerSpent
<1>7. Fetch!Standing(f, p, tp[p], fp[p])
  BY <1>2, <1>6 DEF Fetch!Standing
<1>8. Stands(f, tp, fp)
  BY <1>1, <1>7 DEF Stands
<1>9. ASSUME fp[p] # <<>>, Head(fp[p]).type \in {"notFound", "complete"}
      PROVE  Stands(f, tp, g) /\ tp[p] = <<>> /\ Tail(fp[p]) = <<>>
  <2>1. tp[p] = <<>> /\ Tail(fp[p]) = <<>>
    BY <1>2, <1>3, <1>9, AnswerHeard
  <2>2. Stands(f, tp, g)
    BY <1>2, <1>8, <1>9, StandsConsumed
  <2> QED BY <2>1, <2>2
<1> QED BY <1>8, <1>9

-----------------------------------------------------------------------------
\* No chunk is out of range, and there is one.
LEMMA SomeChunk ==
  ASSUME Fetch!FetchAssumption
  PROVE  /\ Total \in Nat /\ Total # 0 /\ MaxFetches \in Nat /\ MaxFetches # 0
         /\ Fetch!Chunk = 0 .. Total - 1 /\ IsFiniteSet(Fetch!Chunk) /\ Cardinality(Fetch!Chunk) = Total
         /\ Estimates \subseteq Nat \ {0} /\ MaxMishaps \in Nat
<1>1. Total \in Nat /\ Total # 0 /\ MaxFetches \in Nat /\ MaxFetches # 0
      /\ Estimates \subseteq Nat \ {0} /\ MaxMishaps \in Nat
  BY DEF Fetch!FetchAssumption
<1>2. Fetch!Chunk = 0 .. Total - 1
  BY DEF Fetch!Chunk
<1>3. IsFiniteSet(0 .. Total - 1) /\ Cardinality(0 .. Total - 1) = (Total - 1) - 0 + 1
  BY <1>1, FS_Interval
<1> QED BY <1>1, <1>2, <1>3

\* The entry of a new request, and of none.
LEMMA NewEntries ==
  ASSUME Fetch!FetchAssumption
  PROVE  \A e \in {Fetch!FreshEntry, Fetch!NoEntry} :
           /\ Sound(e) /\ Blank(e) /\ ~e.sized /\ e.high = -1
           /\ Fetch!Candidates(e) = {}
           /\ e.pending <=> e = Fetch!FreshEntry
<1> DEFINE Plain(e) == /\ e.sized = FALSE /\ e.total = 0 /\ e.received = {} /\ e.active = <<>>
                       /\ e.unassigned = <<>> /\ e.high = -1 /\ e.candidates = <<>>
<1>0. <<>> \in Seq(Fetch!Span) /\ <<>> \in Seq(Provider)
  OBVIOUS
<1>2. Fetch!FreshEntry.pending = TRUE /\ Fetch!NoEntry.pending = FALSE
  BY DEF Fetch!FreshEntry, Fetch!NoEntry
<1>3a. Plain(Fetch!FreshEntry) /\ EntryRec(Fetch!FreshEntry)
  BY <1>0 DEF Fetch!FreshEntry, EntryRec
<1>3b. Plain(Fetch!NoEntry)
  BY <1>3a DEF Fetch!NoEntry, EntryRec
<1>3c. EntryRec(Fetch!NoEntry)
  <2> DEFINE n == Fetch!FreshEntry
  <2>1. Fetch!NoEntry = [n EXCEPT !.pending = FALSE]
    BY DEF Fetch!NoEntry
  <2> HIDE DEF n
  <2>2. EntryRec(n)
    BY <1>3a DEF n
  <2> QED BY <1>3b, <2>1, <2>2 DEF EntryRec
<1>1. ASSUME NEW e \in {Fetch!FreshEntry, Fetch!NoEntry} PROVE Plain(e)
  BY <1>3a, <1>3b
<1>3. ASSUME NEW e \in {Fetch!FreshEntry, Fetch!NoEntry} PROVE EntryRec(e)
  BY <1>3a, <1>3c
<1>4. ASSUME NEW e \in {Fetch!FreshEntry, Fetch!NoEntry}
      PROVE  /\ DOMAIN e.active = {} /\ DOMAIN e.candidates = {}
             /\ e.active \in [DOMAIN e.active -> Fetch!Span]
  <2>1. DOMAIN <<>> = {} /\ <<>> \in [{} -> Fetch!Span]
    OBVIOUS
  <2> QED BY <1>1, <2>1
<1>5. ASSUME NEW e \in {Fetch!FreshEntry, Fetch!NoEntry} PROVE Sound(e)
  <2>1. IsFiniteSet({}) /\ Cardinality({}) = 0
    BY FS_EmptySet
  <2>2. 0 <= MaxFetches
    BY SomeChunk
  <2> QED BY <1>3, <1>4, <2>1, <2>2 DEF Sound
<1>6. ASSUME NEW e \in {Fetch!FreshEntry, Fetch!NoEntry} PROVE Fetch!Candidates(e) = {}
  BY <1>4 DEF Fetch!Candidates
<1> QED BY <1>1, <1>2, <1>4, <1>5, <1>6 DEF Blank

\* The first answer: its provider has the front half, the rest is unassigned.
LEMMA FirstAnswer ==
  ASSUME Fetch!FetchAssumption, NEW e, Sound(e), Blank(e), NEW p \in Provider, NEW est \in Estimates
  PROVE  LET f == Fetch!Sized(e, p, est)
         IN  /\ Sound(f) /\ f.sized /\ DOMAIN f.active = {p} /\ f.candidates = e.candidates
             /\ f.received = e.received /\ f.total = e.total /\ f.pending = e.pending
             /\ Covered(f)
<1> DEFINE mid == (est + 1) \div 2
           front == [start |-> 0, end |-> IF est > 1 THEN mid - 1 ELSE est - 1]
           rest == [start |-> mid, end |-> est - 1]
           u == IF est > 1 THEN Append(e.unassigned, rest) ELSE e.unassigned
           g == [e EXCEPT !.sized = TRUE, !.high = est - 1, !.unassigned = u]
           S == {p}
           ranges == [q \in S |-> front]
           f == Fetch!Sized(e, p, est)
<1>1. f = Fetch!Assigned(g, S, ranges)
  BY DEF Fetch!Sized
<1>2. est \in Nat /\ est # 0
  BY SomeChunk
<1>3. mid \in Nat /\ mid >= 1 /\ (est > 1 => mid <= est - 1)
  BY <1>2
<1> HIDE DEF mid
<1>4. front \in Fetch!Span /\ (est > 1 => rest \in Fetch!Span)
  BY <1>2, <1>3 DEF Fetch!Span
<1>5. front.start = 0 /\ front.end = (IF est > 1 THEN mid - 1 ELSE est - 1)
      /\ rest.start = mid /\ rest.end = est - 1
  OBVIOUS
<1> HIDE DEF front, rest
<1>6. /\ e.unassigned = <<>> /\ DOMAIN e.active = {} /\ e.candidates = <<>> /\ e.total = 0
      /\ DOMAIN e.candidates = {}
  BY DEF Blank
<1>7. u \in Seq(Fetch!Span) /\ (est > 1 => u = <<rest>>)
  <2>1. CASE est > 1
    <3>1. Append(<<>>, rest) = <<rest>> /\ <<rest>> \in Seq(Fetch!Span)
      BY <1>4, <2>1
    <3> QED BY <1>6, <2>1, <3>1
  <2>2. CASE ~(est > 1)
    BY <1>6, <2>2
  <2> QED BY <2>1, <2>2
<1> HIDE DEF u
<1>8. /\ g.pending = e.pending /\ g.sized = TRUE /\ g.total = e.total /\ g.active = e.active
      /\ g.received = e.received /\ g.high = est - 1 /\ g.unassigned = u
      /\ g.candidates = e.candidates
  BY DEF Sound, EntryRec
<1>9. EntryRec(g)
  <2>1. est - 1 \in {-1} \cup Nat
    BY <1>2
  <2> QED BY <1>7, <1>8, <2>1 DEF Sound, EntryRec
<1> HIDE DEF g, f
<1>10. Sound(g)
  BY <1>8, <1>9 DEF Sound
<1>11. S \subseteq Provider /\ IsFiniteSet(S) /\ S \cap DOMAIN g.active = {}
      /\ S \cap Fetch!Candidates(g) = {} /\ Cardinality(DOMAIN g.active) + Cardinality(S) <= MaxFetches
  <2>1. IsFiniteSet(S) /\ Cardinality(S) = 1
    BY FS_Singleton
  <2>2. Cardinality(DOMAIN g.active) = 0
    BY <1>6, <1>8, FS_EmptySet
  <2>3. Fetch!Candidates(g) = {}
    BY <1>6, <1>8 DEF Fetch!Candidates
  <2>4. 0 + 1 <= MaxFetches
    BY SomeChunk
  <2> QED BY <1>6, <1>8, <2>1, <2>2, <2>3, <2>4
<1>12. \A q \in S : ranges[q] \in Fetch!Span
  BY <1>4
<1>13. ranges[p] = front /\ p \in S /\ S = {p}
  OBVIOUS
<1> HIDE DEF S, ranges
<1>14. /\ Sound(f)
       /\ f.pending = g.pending /\ f.sized = g.sized /\ f.total = g.total
       /\ f.received = g.received /\ f.high = g.high
       /\ f.unassigned = g.unassigned /\ f.candidates = g.candidates
       /\ DOMAIN f.active = DOMAIN g.active \cup S
       /\ \A q \in DOMAIN g.active : f.active[q] = g.active[q]
       /\ \A q \in S : f.active[q] = ranges[q]
  BY <1>1, <1>10, <1>11, <1>12, PutToWork
<1>15. p \in DOMAIN f.active /\ f.active[p] = front
  BY <1>13, <1>14
<1>16. ASSUME NEW i \in 0 .. est - 1 PROVE Fetch!Covers(f, i)
  <2>1. CASE i \in front.start .. front.end
    BY <1>15, <2>1 DEF Fetch!Covers, Fetch!RangeOf
  <2>2. CASE i \notin front.start .. front.end
    <3>1. est > 1 /\ i \in rest.start .. rest.end
      BY <1>2, <1>3, <1>5, <2>2
    <3>2. f.unassigned = <<rest>>
      BY <1>7, <1>8, <1>14, <3>1
    <3>3. 1 \in DOMAIN f.unassigned /\ f.unassigned[1] = rest
      BY <3>2
    <3> QED BY <3>1, <3>3 DEF Fetch!Covers, Fetch!RangeOf
  <2> QED BY <2>1, <2>2
<1>17. Covered(f)
  BY <1>6, <1>8, <1>14, <1>16 DEF Covered
<1>18. DOMAIN f.active = {p}
  BY <1>6, <1>8, <1>13, <1>14
<1> QED BY <1>8, <1>14, <1>17, <1>18 DEF f

\* A chunk, and with the first one the chunks that the estimate left out.
LEMMA ChunkKept ==
  ASSUME Fetch!FetchAssumption, NEW e, Sound(e), e.sized, NEW p, NEW i \in Fetch!Chunk
  PROVE  LET f == Fetch!WithChunk(e, p, i)
         IN  /\ Sound(f) /\ f.sized /\ f.pending = e.pending /\ f.active = e.active
             /\ f.candidates = e.candidates /\ f.received = e.received \cup {i} /\ f.total = Total
             /\ Covered(e) => Covered(f)
<1> DEFINE gap == e.total = 0 /\ Total - 1 > e.high
           rest == [start |-> e.high + 1, end |-> Total - 1]
           u == IF gap THEN Append(e.unassigned, rest) ELSE e.unassigned
           h == IF gap THEN Total - 1 ELSE e.high
           f == Fetch!WithChunk(e, p, i)
<1>1. f = [e EXCEPT !.received = e.received \cup {i}, !.total = Total, !.unassigned = u, !.high = h]
  BY DEF Fetch!WithChunk
<1>2. /\ e.high \in {-1} \cup Nat /\ e.unassigned \in Seq(Fetch!Span) /\ e.received \subseteq Fetch!Chunk
      /\ Total \in Nat /\ Total # 0 /\ Fetch!Chunk = 0 .. Total - 1
      /\ Len(e.unassigned) \in Nat /\ DOMAIN e.unassigned = 1 .. Len(e.unassigned)
  BY SomeChunk DEF Sound, EntryRec
<1>3. gap \in BOOLEAN
  OBVIOUS
<1>4. gap => rest \in Fetch!Span /\ rest.start = e.high + 1 /\ rest.end = Total - 1
  BY <1>2 DEF Fetch!Span
<1>5. gap => Total - 1 > e.high /\ e.total = 0
  OBVIOUS
<1>6. ~gap => e.total # 0 \/ e.high >= Total - 1
  BY <1>2
<1> HIDE DEF gap, rest
<1>7. u \in Seq(Fetch!Span) /\ h \in {-1} \cup Nat
  <2>1. CASE gap
    BY <1>2, <1>4, <2>1
  <2>2. CASE ~gap
    BY <1>2, <2>2
  <2> QED BY <2>1, <2>2
<1>8. gap => /\ DOMAIN u = 1 .. Len(e.unassigned) + 1 /\ u[Len(e.unassigned) + 1] = rest
             /\ \A j \in DOMAIN e.unassigned : u[j] = e.unassigned[j] /\ j \in DOMAIN u
             /\ h = Total - 1
  BY <1>2, <1>4
<1>9. ~gap => u = e.unassigned /\ h = e.high
  OBVIOUS
<1> HIDE DEF u, h, f
<1>10. /\ f.pending = e.pending /\ f.sized = e.sized /\ f.total = Total /\ f.active = e.active
       /\ f.received = e.received \cup {i} /\ f.high = h /\ f.unassigned = u
       /\ f.candidates = e.candidates
  BY <1>1, <1>7 DEF Sound, EntryRec
<1>11. EntryRec(f)
  BY <1>1, <1>2, <1>7, <1>10 DEF Sound, EntryRec
<1>12. Sound(f)
  BY <1>10, <1>11 DEF Sound
<1>13. ASSUME Covered(e) PROVE Covered(f)
  <2>1. h >= Total - 1
    BY <1>2, <1>3, <1>6, <1>8, <1>9, <1>13 DEF Covered
  <2>2. ASSUME NEW k, Fetch!Covers(e, k) PROVE Fetch!Covers(f, k)
    <3>1. CASE \E q \in DOMAIN e.active : k \in Fetch!RangeOf(e.active[q])
      BY <1>10, <3>1 DEF Fetch!Covers
    <3>2. ASSUME NEW j \in DOMAIN e.unassigned, k \in Fetch!RangeOf(e.unassigned[j])
          PROVE  Fetch!Covers(f, k)
      <4>1. j \in DOMAIN u /\ u[j] = e.unassigned[j]
        BY <1>3, <1>8, <1>9
      <4> QED BY <1>10, <3>2, <4>1 DEF Fetch!Covers
    <3> QED BY <2>2, <3>1, <3>2 DEF Fetch!Covers
  <2>3. ASSUME NEW k \in ((0 .. f.high) \cap Fetch!Chunk) \ f.received PROVE Fetch!Covers(f, k)
    <3>1. k \in Fetch!Chunk /\ k \notin e.received /\ k \in 0 .. h /\ k \in 0 .. Total - 1
      BY <1>2, <1>10
    <3>2. CASE k \in 0 .. e.high
      <4>1. Fetch!Covers(e, k)
        BY <1>13, <3>1, <3>2 DEF Covered
      <4> QED BY <2>2, <4>1
    <3>3. CASE k \notin 0 .. e.high
      <4>1. gap /\ k \in rest.start .. rest.end
        BY <1>2, <1>4, <1>9, <3>1, <3>3
      <4>2. Len(e.unassigned) + 1 \in DOMAIN f.unassigned /\ f.unassigned[Len(e.unassigned) + 1] = rest
        BY <1>2, <1>8, <1>10, <4>1
      <4> QED BY <4>1, <4>2 DEF Fetch!Covers, Fetch!RangeOf
    <3> QED BY <3>2, <3>3
  <2> QED BY <1>10, <2>1, <2>3 DEF Covered
<1> QED BY <1>10, <1>12, <1>13 DEF f

\* A later answer waits: nothing else changes.
LEMMA CandidateWaits ==
  ASSUME NEW e, Sound(e), e.sized, NEW p \in Provider, p \notin DOMAIN e.active,
         p \notin Fetch!Candidates(e)
  PROVE  LET f == [e EXCEPT !.candidates = Append(@, p)]
         IN  /\ Sound(f) /\ f.sized /\ f.pending = e.pending /\ f.active = e.active
             /\ f.received = e.received /\ f.total = e.total /\ f.high = e.high
             /\ f.unassigned = e.unassigned
             /\ Fetch!Candidates(f) = Fetch!Candidates(e) \cup {p}
<1> DEFINE C == e.candidates
           c == Append(C, p)
           f == [e EXCEPT !.candidates = c]
<1>1. /\ C \in Seq(Provider) /\ Len(C) \in Nat /\ DOMAIN C = 1 .. Len(C)
      /\ \A i \in DOMAIN C : C[i] \notin DOMAIN e.active
      /\ \A i, j \in DOMAIN C : C[i] = C[j] => i = j
      /\ \A i \in DOMAIN C : C[i] # p
  BY DEF Sound, EntryRec, Fetch!Candidates
<1> HIDE DEF C
<1>2. /\ c \in Seq(Provider) /\ DOMAIN c = 1 .. Len(C) + 1 /\ c[Len(C) + 1] = p
      /\ \A i \in 1 .. Len(C) : c[i] = C[i]
  BY <1>1
<1> HIDE DEF c
<1>3. /\ f.pending = e.pending /\ f.sized = e.sized /\ f.total = e.total /\ f.active = e.active
      /\ f.received = e.received /\ f.high = e.high /\ f.unassigned = e.unassigned
      /\ f.candidates = c
  BY <1>2 DEF Sound, EntryRec
<1>4. EntryRec(f)
  BY <1>2, <1>3 DEF Sound, EntryRec
<1>5. \A i \in DOMAIN c : i = Len(C) + 1 \/ i \in DOMAIN C
  BY <1>1, <1>2
<1>6. \A i \in DOMAIN c : c[i] \notin DOMAIN e.active
  BY <1>1, <1>2, <1>5
<1>7. \A i, j \in DOMAIN c : c[i] = c[j] => i = j
  BY <1>1, <1>2, <1>5
<1> HIDE DEF f
<1>8. Sound(f)
  BY <1>3, <1>4, <1>6, <1>7 DEF Sound
<1>9. Fetch!Candidates(f) = Fetch!Candidates(e) \cup {p}
  <2>1. \A i \in DOMAIN C : c[i] = C[i] /\ i \in DOMAIN c
    BY <1>1, <1>2
  <2>2. c[Len(C) + 1] = p /\ Len(C) + 1 \in DOMAIN c
    BY <1>1, <1>2
  <2> QED BY <1>2, <1>3, <1>5, <2>1, <2>2 DEF Fetch!Candidates, C
<1> QED BY <1>3, <1>8, <1>9 DEF f, c, C

\* The chunks of a range, then the end, are an answer to the request for it.
LEMMA RangeDelivered ==
  ASSUME Fetch!FetchAssumption, NEW r, r.start \in Nat, r.end \in Nat, r.start <= r.end, NEW e
  PROVE  LET s == Append(Fetch!ChunksSent(r), Fetch!Complete)
         IN  /\ s \in Seq(Fetch!Told) /\ Fetch!Delivers(e, s, r)
             /\ ~Fetch!Sends(s, Fetch!Found) /\ ~Fetch!Sends(s, Fetch!NotFound)
<1> DEFINE first == Fetch!Min2(r.start, Total - 1)
           last == IF r.end >= first THEN Fetch!Min2(r.end, Total - 1) ELSE Total - 1
           n == last - first + 1
           t == Fetch!ChunksSent(r)
           s == Append(t, Fetch!Complete)
<1>1. t = [j \in 1 .. n |-> Fetch!ChunkPacket(first + j - 1)]
  BY DEF Fetch!ChunksSent
<1>2. Total \in Nat /\ Total # 0 /\ Fetch!Chunk = 0 .. Total - 1
  BY SomeChunk
<1>3. /\ first \in 0 .. Total - 1 /\ last \in 0 .. Total - 1 /\ first <= last
      /\ \A i \in (r.start .. r.end) \cap (0 .. Total - 1) : first <= i /\ i <= last
  BY <1>2 DEF Fetch!Min2
<1> HIDE DEF first, last
<1>4. n \in Nat /\ n # 0 /\ \A j \in 1 .. n : first + j - 1 \in 0 .. Total - 1
  BY <1>2, <1>3
<1>5. \A i \in first .. last : i - first + 1 \in 1 .. n /\ first + (i - first + 1) - 1 = i
  BY <1>2, <1>3
<1> HIDE DEF n, t
<1>6. /\ t \in Seq(Fetch!Told) /\ Len(t) = n
      /\ \A j \in 1 .. n : t[j] = Fetch!ChunkPacket(first + j - 1)
  <2>1. \A j \in 1 .. n : Fetch!ChunkPacket(first + j - 1) \in Fetch!Told
    BY <1>2, <1>4, ToldPackets
  <2> QED BY <1>1, <1>4, <2>1
<1>7. /\ s \in Seq(Fetch!Told) /\ Len(s) = n + 1 /\ s[n + 1] = Fetch!Complete
      /\ \A j \in 1 .. n : s[j] = Fetch!ChunkPacket(first + j - 1)
      /\ DOMAIN s = 1 .. n + 1
  BY <1>4, <1>6, ToldPackets
<1> HIDE DEF s
<1>8. \A j \in 1 .. n : s[j].type = "chunk"
  BY <1>7, ToldPackets
<1>9. ASSUME NEW i \in (Fetch!RangeOf(r) \cap Fetch!Chunk) \ e.received
      PROVE  Fetch!Sends(s, Fetch!ChunkPacket(i))
  <2>1. i \in first .. last
    BY <1>2, <1>3 DEF Fetch!RangeOf
  <2>2. i - first + 1 \in 1 .. n /\ first + (i - first + 1) - 1 = i
    BY <1>5, <2>1
  <2>3. i - first + 1 \in DOMAIN s /\ s[i - first + 1] = Fetch!ChunkPacket(i)
    BY <1>4, <1>7, <2>2
  <2> QED BY <2>3 DEF Fetch!Sends
<1>10. Len(s) > 0 /\ Len(s) # 1 /\ Len(s) - 1 = n /\ s[Len(s)] = Fetch!Complete
  BY <1>4, <1>7
<1>11. Fetch!Delivers(e, s, r)
  BY <1>8, <1>9, <1>10 DEF Fetch!Delivers
<1>12. ASSUME NEW j \in 1 .. n + 1 PROVE s[j].type \in {"chunk", "complete"}
  <2>1. j = n + 1 \/ j \in 1 .. n
    BY <1>4
  <2> QED BY <1>7, <1>8, <2>1, ToldPackets
<1>13. ~Fetch!Sends(s, Fetch!Found) /\ ~Fetch!Sends(s, Fetch!NotFound)
  BY <1>7, <1>12, ToldPackets DEF Fetch!Sends
<1> QED BY <1>7, <1>11, <1>13 DEF s, t

-----------------------------------------------------------------------------
\* Only the providers of new fetches are sent anything.
LEMMA RequestsTyped ==
  ASSUME NEW e, NEW f, NEW tp \in [Provider -> Seq(Fetch!Asked)],
         \A p \in DOMAIN f.active : f.active[p] \in Fetch!Span
  PROVE  /\ Fetch!SendRequests(tp, e, f) \in [Provider -> Seq(Fetch!Asked)]
         /\ \A p \in Provider : p \notin DOMAIN f.active \ DOMAIN e.active
              => Fetch!SendRequests(tp, e, f)[p] = tp[p]
         /\ DOMAIN f.active \subseteq DOMAIN e.active => Fetch!SendRequests(tp, e, f) = tp
<1> DEFINE t == Fetch!SendRequests(tp, e, f)
<1>1. ASSUME NEW p \in Provider PROVE t[p] \in Seq(Fetch!Asked)
  <2>1. CASE p \in DOMAIN f.active \ DOMAIN e.active
    <3> DEFINE m == Fetch!Request(f.active[p].start, f.active[p].end)
    <3>1. m \in Fetch!Asked
      BY <2>1, AskedPackets
    <3>2. t[p] = Append(tp[p], m)
      BY <2>1 DEF Fetch!SendRequests
    <3> HIDE DEF m, t
    <3> QED BY <3>1, <3>2
  <2>2. CASE p \notin DOMAIN f.active \ DOMAIN e.active
    BY <2>2 DEF Fetch!SendRequests
  <2> QED BY <2>1, <2>2
<1>2. ASSUME NEW p \in Provider, p \notin DOMAIN f.active \ DOMAIN e.active PROVE t[p] = tp[p]
  BY <1>2 DEF Fetch!SendRequests
<1>3. t = [p \in Provider |-> t[p]]
  BY DEF Fetch!SendRequests
<1> HIDE DEF t
<1>4. t \in [Provider -> Seq(Fetch!Asked)]
  BY <1>1, <1>3
<1>5. ASSUME DOMAIN f.active \subseteq DOMAIN e.active PROVE t = tp
  <2>1. \A p \in Provider : t[p] = tp[p]
    BY <1>2, <1>5
  <2> QED BY <1>4, <2>1
<1> QED BY <1>2, <1>4, <1>5 DEF t

\* No provider without the content was asked for any of it, or answered.
Untouched(hs, tp, fp) ==
  /\ \A p \in Provider : ~Fetch!Sends(fp[p], Fetch!NotFound)
  /\ \A p \in Provider \ hs : fp[p] = <<>> /\ tp[p] \in {<<>>, <<Fetch!Query>>}

\* Somebody is at work, or everybody who has the content is still to answer.
InHand(e, hs, tp, fp) ==
  IF e.sized THEN DOMAIN e.active # {}
  ELSE \A p \in hs : Fetch!Asks(tp[p], fp[p]) \/ Fetch!Answers(tp[p], fp[p])

\* The invariant, with its parts named as the lemmas have them.
LEMMA FetchFacts ==
  ASSUME Fetch!FetchInv
  PROVE  /\ Sound(f_entry) /\ (~f_entry.sized => Blank(f_entry))
         /\ f_call \in [Call -> {"idle", "waiting", "resolved", "timedOut"}]
         /\ f_entry.pending <=> Fetch!Waiting # {}
         /\ ~f_entry.pending => f_entry = Fetch!NoEntry
         /\ f_entry.received \subseteq f_assembly /\ f_assembly \subseteq Fetch!Chunk
         /\ f_has \subseteq Provider /\ f_faults \in 0 .. MaxMishaps /\ f_round \in Nat
         /\ f_toP \in [Provider -> Seq(Fetch!Asked)] /\ f_fromP \in [Provider -> Seq(Fetch!Told)]
         /\ f_round = 0 => ~f_entry.pending /\ \A p \in Provider : f_toP[p] = <<>> /\ f_fromP[p] = <<>>
         /\ f_round = 1 /\ f_entry.pending => Stands(f_entry, f_toP, f_fromP) /\ Covered(f_entry)
         /\ f_faults = 0 => /\ f_has # {} /\ f_round <= 1
                            /\ f_round = 1 /\ ~f_entry.pending => f_stored
                            /\ DOMAIN f_entry.active \subseteq f_has
                            /\ Fetch!Candidates(f_entry) \subseteq f_has
                            /\ Untouched(f_has, f_toP, f_fromP)
                            /\ f_entry.pending => InHand(f_entry, f_has, f_toP, f_fromP)
<1>1. Sound(f_entry) /\ (~f_entry.sized => Blank(f_entry))
  BY SoundIs DEF Fetch!FetchInv
<1>2. Fetch!CallsSound /\ Fetch!FirstRound /\ Fetch!FaultFree
  BY DEF Fetch!FetchInv
<1>3. f_round = 1 /\ f_entry.pending => Stands(f_entry, f_toP, f_fromP) /\ Covered(f_entry)
  BY <1>2 DEF Fetch!FirstRound, Stands, Covered
<1>4. f_faults = 0 => /\ f_has # {} /\ f_round <= 1
                      /\ f_round = 1 /\ ~f_entry.pending => f_stored
                      /\ DOMAIN f_entry.active \subseteq f_has
                      /\ Fetch!Candidates(f_entry) \subseteq f_has
                      /\ Untouched(f_has, f_toP, f_fromP)
                      /\ f_entry.pending => InHand(f_entry, f_has, f_toP, f_fromP)
  BY <1>2 DEF Fetch!FaultFree, Untouched, InHand
<1> QED BY <1>1, <1>2, <1>3, <1>4 DEF Fetch!CallsSound

\* The invariant of the next state, from the same parts.
LEMMA FetchNext ==
  ASSUME Sound(f_entry'), ~f_entry'.sized => Blank(f_entry'), Fetch!CallsSound',
         f_round' = 1 /\ f_entry'.pending => Stands(f_entry', f_toP', f_fromP') /\ Covered(f_entry'),
         f_faults' = 0 => /\ f_has' # {} /\ f_round' <= 1
                          /\ f_round' = 1 /\ ~f_entry'.pending => f_stored'
                          /\ DOMAIN f_entry'.active \subseteq f_has'
                          /\ Fetch!Candidates(f_entry') \subseteq f_has'
                          /\ Untouched(f_has', f_toP', f_fromP')
                          /\ f_entry'.pending => InHand(f_entry', f_has', f_toP', f_fromP')
  PROVE  Fetch!FetchInv'
<1>1. Fetch!EntrySound(f_entry')
  BY SoundIs
<1>2. Fetch!EntrySound(f_entry)'
  BY <1>1
<1>3. Fetch!FirstRound'
  BY DEF Fetch!FirstRound, Stands, Covered
<1>4. Fetch!FaultFree'
  BY DEF Fetch!FaultFree, Untouched, InHand
<1> QED BY <1>2, <1>3, <1>4 DEF Fetch!FetchInv

\* A packet is handled: what it takes of the entry and the channels.
LEMMA PacketHandled ==
  ASSUME Fetch!FetchInv, UNCHANGED <<f_call, f_stored, f_has, f_round, f_faults>>, f_round # 0,
         Sound(f_entry'), f_entry'.sized \/ f_entry' = f_entry,
         f_entry'.pending = f_entry.pending, ~f_entry.pending => f_entry' = f_entry,
         f_entry'.received \subseteq f_assembly', f_assembly' \subseteq Fetch!Chunk,
         f_toP' \in [Provider -> Seq(Fetch!Asked)], f_fromP' \in [Provider -> Seq(Fetch!Told)],
         f_round = 1 /\ f_entry.pending => Stands(f_entry', f_toP', f_fromP') /\ Covered(f_entry'),
         f_faults = 0 => /\ DOMAIN f_entry'.active \subseteq f_has
                         /\ Fetch!Candidates(f_entry') \subseteq f_has
                         /\ Untouched(f_has, f_toP', f_fromP')
                         /\ f_entry.pending => InHand(f_entry', f_has, f_toP', f_fromP')
  PROVE  Fetch!FetchInv'
<1>1. ~f_entry'.sized => Blank(f_entry')
  BY FetchFacts
<1>2. Fetch!CallsSound'
  <2>1. Fetch!CallsSound
    BY DEF Fetch!FetchInv
  <2> QED BY <2>1 DEF Fetch!CallsSound, Fetch!Waiting
<1>3. f_faults = 0 => f_has # {} /\ f_round <= 1 /\ (f_round = 1 /\ ~f_entry.pending => f_stored)
  BY FetchFacts
<1> QED BY <1>1, <1>2, <1>3, FetchNext

\* It holds before the first call.
LEMMA FetchStart == ASSUME Fetch!FetchAssumption, Fetch!Init PROVE Fetch!FetchInv
<1>1. /\ f_call = [c \in Call |-> "idle"] /\ f_entry = Fetch!NoEntry /\ f_assembly = {}
      /\ f_stored = FALSE /\ f_has \in (SUBSET Provider) \ {{}}
      /\ f_toP = [p \in Provider |-> <<>>] /\ f_fromP = [p \in Provider |-> <<>>]
      /\ f_round = 0 /\ f_faults = 0
  BY DEF Fetch!Init
<1>2. /\ Sound(f_entry) /\ Blank(f_entry) /\ ~f_entry.sized /\ Fetch!Candidates(f_entry) = {}
      /\ ~f_entry.pending
  <2>1. Fetch!NoEntry.pending = FALSE
    BY DEF Fetch!NoEntry, Fetch!FreshEntry
  <2> QED BY <1>1, <2>1, NewEntries
<1>3. Fetch!EntrySound(f_entry)
  BY <1>2, SoundIs
<1>4. Fetch!CallsSound
  <2>1. Fetch!Waiting = {}
    BY <1>1 DEF Fetch!Waiting
  <2>2. f_entry.received = {} /\ 0 \in 0 .. MaxMishaps
    BY <1>2, SomeChunk DEF Blank
  <2>3. \A p \in Provider : f_toP[p] = <<>> /\ f_fromP[p] = <<>>
    BY <1>1
  <2>4. f_toP \in [Provider -> Seq(Fetch!Asked)] /\ f_fromP \in [Provider -> Seq(Fetch!Told)]
    <3>1. <<>> \in Seq(Fetch!Asked) /\ <<>> \in Seq(Fetch!Told)
      OBVIOUS
    <3> QED BY <1>1, <3>1
  <2>5. f_call \in [Call -> {"idle", "waiting", "resolved", "timedOut"}]
    BY <1>1
  <2> QED BY <1>1, <1>2, <2>1, <2>2, <2>3, <2>4, <2>5 DEF Fetch!CallsSound
<1>5. Fetch!FirstRound
  BY <1>1 DEF Fetch!FirstRound
<1>6. Fetch!FaultFree
  <2>1. DOMAIN f_entry.active = {}
    BY <1>2 DEF Blank
  <2>2. \A p \in Provider : ~Fetch!Sends(f_fromP[p], Fetch!NotFound)
    BY <1>1, NothingSent
  <2>3. \A p \in Provider : f_fromP[p] = <<>> /\ f_toP[p] = <<>>
    <3>1. \A p \in Provider : f_toP[p] = <<>>
      BY <1>1
    <3>2. \A p \in Provider : f_fromP[p] = <<>>
      BY <1>1
    <3> QED BY <3>1, <3>2
  <2>4. f_has # {} /\ f_round = 0
    <3>1. f_has \in (SUBSET Provider) \ {{}}
      BY DEF Fetch!Init
    <3>2. f_has # {}
      BY <3>1
    <3>3. f_round = 0
      BY DEF Fetch!Init
    <3> QED BY <3>2, <3>3
  <2> QED BY <1>2, <2>1, <2>2, <2>3, <2>4 DEF Fetch!FaultFree
<1> QED BY <1>3, <1>4, <1>5, <1>6 DEF Fetch!FetchInv

\* getContent(): the first query asks everybody.
LEMMA GetContentStep ==
  ASSUME Fetch!FetchAssumption, Fetch!FetchInv, NEW c \in Call, Fetch!GetContent(c)
  PROVE  Fetch!FetchInv'
<1>1. /\ f_call[c] = "idle"
      /\ f_round' = IF f_entry.pending \/ f_stored THEN f_round ELSE f_round + 1
      /\ f_assembly' = f_assembly /\ f_stored' = f_stored /\ f_has' = f_has
      /\ f_fromP' = f_fromP /\ f_faults' = f_faults
  BY DEF Fetch!GetContent
<1>2. CASE f_stored \/ f_entry.pending
  <2>1. f_entry' = f_entry /\ f_toP' = f_toP /\ f_round' = f_round
    BY <1>1, <1>2 DEF Fetch!GetContent
  <2>2. /\ f_call' \in [Call -> {"idle", "waiting", "resolved", "timedOut"}]
        /\ f_entry.pending <=> Fetch!Waiting' # {}
    <3>1. f_call \in [Call -> {"idle", "waiting", "resolved", "timedOut"}]
          /\ (f_entry.pending <=> Fetch!Waiting # {})
      BY FetchFacts
    <3>2. CASE f_stored
      <4>1. f_call' = [f_call EXCEPT ![c] = "resolved"]
        BY <3>2 DEF Fetch!GetContent
      <4>2. Fetch!Waiting' = Fetch!Waiting
        BY <1>1, <3>1, <4>1 DEF Fetch!Waiting
      <4> QED BY <3>1, <4>1, <4>2
    <3>3. CASE ~f_stored
      <4>1. f_call' = [f_call EXCEPT ![c] = "waiting"]
        BY <3>3 DEF Fetch!GetContent
      <4>2. c \in Fetch!Waiting'
        BY <3>1, <4>1 DEF Fetch!Waiting
      <4> QED BY <1>2, <3>1, <3>3, <4>1, <4>2
    <3> QED BY <3>2, <3>3
  <2>3. Fetch!CallsSound'
    <3>1. Fetch!CallsSound
      BY DEF Fetch!FetchInv
    <3> QED BY <1>1, <2>1, <2>2, <3>1 DEF Fetch!CallsSound
  <2> QED BY <1>1, <2>1, <2>3, FetchFacts, FetchNext
<1>3. CASE ~f_stored /\ ~f_entry.pending
  <2> DEFINE E == Fetch!FreshEntry
             T == [p \in Provider |-> Append(f_toP[p], Fetch!Query)]
  <2>1. /\ f_entry' = E /\ f_toP' = T /\ f_round' = f_round + 1
        /\ f_call' = [f_call EXCEPT ![c] = "waiting"]
    BY <1>1, <1>3 DEF Fetch!GetContent
  <2>2. /\ Sound(E) /\ Blank(E) /\ ~E.sized /\ E.high = -1 /\ Fetch!Candidates(E) = {} /\ E.pending
    BY NewEntries
  <2> HIDE DEF E
  <2>3. T \in [Provider -> Seq(Fetch!Asked)]
    <3>1. f_toP \in [Provider -> Seq(Fetch!Asked)] /\ Fetch!Query \in Fetch!Asked
      BY FetchFacts, AskedPackets
    <3> QED BY <3>1
  <2>4. f_round = 0 => \A p \in Provider : T[p] = <<Fetch!Query>> /\ f_fromP[p] = <<>>
                          /\ Fetch!Asks(T[p], f_fromP[p])
    <3> SUFFICES ASSUME f_round = 0, NEW p \in Provider
                 PROVE  T[p] = <<Fetch!Query>> /\ f_fromP[p] = <<>>
      BY DEF Fetch!Asks
    <3>1. f_toP[p] = <<>> /\ f_fromP[p] = <<>>
      BY FetchFacts
    <3>2. T[p] = Append(<<>>, Fetch!Query)
      BY <3>1
    <3>3. \A x : Append(<<>>, x) = <<x>>
      OBVIOUS
    <3> QED BY <3>1, <3>2, <3>3
  <2>5. f_round \in Nat /\ (f_faults = 0 => f_round = 0)
    <3>1. f_round \in Nat /\ (f_faults = 0 => f_round <= 1 /\ (f_round = 1 /\ ~f_entry.pending => f_stored))
      BY FetchFacts
    <3> QED BY <1>3, <3>1
  <2> HIDE DEF T
  <2>6. f_round' = 1 => Stands(f_entry', f_toP', f_fromP') /\ Covered(f_entry')
    <3>1. ASSUME f_round = 0 PROVE Stands(E, T, f_fromP)
      <4>1. DOMAIN E.active = {}
        BY <2>2 DEF Blank
      <4> QED BY <2>2, <2>4, <3>1, <4>1 DEF Stands, Fetch!Standing
    <3>2. Covered(E)
      BY <2>2 DEF Covered, Blank
    <3>3. f_round' = 1 => f_round = 0
      BY <2>1, <2>5
    <3> QED BY <1>1, <2>1, <3>1, <3>2, <3>3
  <2>7. Fetch!CallsSound'
    <3>1. Fetch!CallsSound
      BY DEF Fetch!FetchInv
    <3>2. f_call' \in [Call -> {"idle", "waiting", "resolved", "timedOut"}] /\ c \in Fetch!Waiting'
      BY <2>1, <3>1 DEF Fetch!CallsSound, Fetch!Waiting
    <3>3. E.received = {}
      BY <2>2 DEF Blank
    <3>4. f_round' \in Nat /\ f_round' # 0
      BY <2>1, <2>5
    <3> QED BY <1>1, <2>1, <2>2, <2>3, <3>1, <3>2, <3>3, <3>4 DEF Fetch!CallsSound
  <2>8. ASSUME f_faults = 0
        PROVE  /\ f_has # {} /\ f_round' <= 1
               /\ DOMAIN E.active \subseteq f_has
               /\ Fetch!Candidates(E) \subseteq f_has
               /\ Untouched(f_has, T, f_fromP)
               /\ InHand(E, f_has, T, f_fromP)
    <3>1. f_has # {} /\ f_has \subseteq Provider
      BY <2>8, FetchFacts
    <3>2. DOMAIN E.active = {}
      BY <2>2 DEF Blank
    <3>3. \A p \in Provider : T[p] = <<Fetch!Query>> /\ f_fromP[p] = <<>>
                              /\ Fetch!Asks(T[p], f_fromP[p])
      BY <2>4, <2>5, <2>8
    <3>4. Untouched(f_has, T, f_fromP)
      BY <3>3, NothingSent DEF Untouched
    <3>5. InHand(E, f_has, T, f_fromP)
      BY <2>2, <3>1, <3>3 DEF InHand
    <3>6. f_round' <= 1
      BY <2>1, <2>5, <2>8
    <3> QED BY <2>2, <3>1, <3>2, <3>4, <3>5, <3>6
  <2> QED BY <1>1, <2>1, <2>2, <2>6, <2>7, <2>8, FetchNext
<1> QED BY <1>2, <1>3

\* A call gives up; the last one takes the entry with it.
LEMMA WaiterTimeoutStep ==
  ASSUME Fetch!FetchAssumption, Fetch!FetchInv, NEW c \in Call, Fetch!WaiterTimeout(c)
  PROVE  Fetch!FetchInv'
<1>1. /\ f_faults < MaxMishaps /\ f_call[c] = "waiting" /\ f_call' = [f_call EXCEPT ![c] = "timedOut"]
      /\ f_entry' = IF Fetch!Waiting = {c} THEN Fetch!NoEntry ELSE f_entry
      /\ f_faults' = f_faults + 1
      /\ f_assembly' = f_assembly /\ f_stored' = f_stored /\ f_has' = f_has
      /\ f_toP' = f_toP /\ f_fromP' = f_fromP /\ f_round' = f_round
  BY DEF Fetch!WaiterTimeout
<1>2. Fetch!CallsSound
  BY DEF Fetch!FetchInv
<1>3. f_call \in [Call -> {"idle", "waiting", "resolved", "timedOut"}] /\ f_faults \in Nat
      /\ (f_entry.pending <=> Fetch!Waiting # {}) /\ f_entry.pending
  BY <1>1, <1>2 DEF Fetch!CallsSound, Fetch!Waiting
<1>4. Fetch!Waiting' = Fetch!Waiting \ {c} /\ c \in Fetch!Waiting
  BY <1>1, <1>3 DEF Fetch!Waiting
<1>5. f_faults' # 0 /\ f_faults' \in 0 .. MaxMishaps
  <2>1. MaxMishaps \in Nat
    BY SomeChunk
  <2> QED BY <1>1, <1>3, <2>1
<1>6. f_call' \in [Call -> {"idle", "waiting", "resolved", "timedOut"}]
  BY <1>1, <1>3
<1>7. Fetch!NoEntry.pending = FALSE /\ Sound(Fetch!NoEntry) /\ Blank(Fetch!NoEntry)
      /\ Fetch!NoEntry.received = {}
  <2>1. Fetch!NoEntry.pending = FALSE
    BY DEF Fetch!NoEntry, Fetch!FreshEntry
  <2> QED BY <2>1, NewEntries DEF Blank
<1>8. CASE Fetch!Waiting = {c}
  <2>1. f_entry' = Fetch!NoEntry /\ Fetch!Waiting' = {}
    BY <1>1, <1>4, <1>8
  <2>2. Fetch!CallsSound'
    BY <1>1, <1>2, <1>3, <1>5, <1>6, <1>7, <2>1 DEF Fetch!CallsSound
  <2> QED BY <1>5, <1>7, <2>1, <2>2, FetchNext
<1>9. CASE Fetch!Waiting # {c}
  <2>1. f_entry' = f_entry /\ Fetch!Waiting' # {}
    BY <1>1, <1>4, <1>9
  <2>2. Fetch!CallsSound'
    BY <1>1, <1>2, <1>3, <1>5, <1>6, <2>1 DEF Fetch!CallsSound
  <2> QED BY <1>1, <1>5, <2>1, <2>2, FetchFacts, FetchNext
<1> QED BY <1>8, <1>9

\* A provider loses the content.
LEMMA LoseContentStep ==
  ASSUME Fetch!FetchAssumption, Fetch!FetchInv, NEW p \in Provider, Fetch!LoseContent(p)
  PROVE  Fetch!FetchInv'
<1>1. /\ f_faults < MaxMishaps /\ f_has' = f_has \ {p} /\ f_faults' = f_faults + 1
      /\ f_call' = f_call /\ f_entry' = f_entry /\ f_assembly' = f_assembly /\ f_stored' = f_stored
      /\ f_toP' = f_toP /\ f_fromP' = f_fromP /\ f_round' = f_round
  BY DEF Fetch!LoseContent
<1>2. Fetch!CallsSound
  BY DEF Fetch!FetchInv
<1>3. f_faults' # 0 /\ f_faults' \in 0 .. MaxMishaps
  <2>1. MaxMishaps \in Nat
    BY SomeChunk
  <2>2. f_faults \in Nat
    BY <1>2 DEF Fetch!CallsSound
  <2> QED BY <1>1, <2>1, <2>2
<1>4. Fetch!CallsSound'
  BY <1>1, <1>2, <1>3 DEF Fetch!CallsSound, Fetch!Waiting
<1> QED BY <1>1, <1>3, <1>4, FetchFacts, FetchNext

\* A provider that has the content answers the query.
LEMMA HandleQueryStep ==
  ASSUME Fetch!FetchAssumption, Fetch!FetchInv, NEW p \in Provider, Fetch!HandleQuery(p)
  PROVE  Fetch!FetchInv'
<1> DEFINE F == IF p \in f_has THEN [f_fromP EXCEPT ![p] = Append(f_fromP[p], Fetch!Found)] ELSE f_fromP
           T == [f_toP EXCEPT ![p] = Tail(f_toP[p])]
<1>1. /\ f_toP[p] # <<>> /\ Head(f_toP[p]) = Fetch!Query /\ f_toP' = T /\ f_fromP' = F
      /\ f_entry' = f_entry /\ f_assembly' = f_assembly
      /\ UNCHANGED <<f_call, f_stored, f_has, f_round, f_faults>>
  BY DEF Fetch!HandleQuery
<1>2. /\ f_toP \in [Provider -> Seq(Fetch!Asked)] /\ f_fromP \in [Provider -> Seq(Fetch!Told)]
      /\ Sound(f_entry) /\ f_round # 0 /\ f_entry.received \subseteq f_assembly
      /\ f_assembly \subseteq Fetch!Chunk
  BY <1>1, FetchFacts
<1>3. /\ f_toP[p] \in Seq(Fetch!Asked) /\ f_fromP[p] \in Seq(Fetch!Told)
      /\ Tail(f_toP[p]) \in Seq(Fetch!Asked) /\ Append(f_fromP[p], Fetch!Found) \in Seq(Fetch!Told)
  BY <1>1, <1>2, ChannelHead, ToldPackets
<1>4. T \in [Provider -> Seq(Fetch!Asked)] /\ F \in [Provider -> Seq(Fetch!Told)]
  BY <1>2, <1>3
<1>5. /\ T[p] = Tail(f_toP[p]) /\ F[p] = IF p \in f_has THEN Append(f_fromP[p], Fetch!Found) ELSE f_fromP[p]
      /\ \A r \in Provider : r # p => T[r] = f_toP[r] /\ F[r] = f_fromP[r]
  BY <1>2
<1> HIDE DEF T, F
<1>6. ASSUME f_round = 1, f_entry.pending
      PROVE  /\ Stands(f_entry, T, F)
             /\ f_toP[p] = <<Fetch!Query>> \/ p \notin f_has \/ Fetch!Answers(T[p], F[p])
             /\ p \in f_has => Fetch!Answers(T[p], F[p])
  <2>1. Stands(f_entry, f_toP, f_fromP)
    BY <1>6, FetchFacts
  <2>2. Fetch!Standing(f_entry, p, f_toP[p], f_fromP[p])
    BY <2>1 DEF Stands
  <2>3. f_entry.active \in [DOMAIN f_entry.active -> Fetch!Span]
    BY <1>2 DEF Sound
  <2>4. Head(f_toP[p]).type # "request"
    BY <1>1, AskedPackets
  <2>5. /\ p \notin DOMAIN f_entry.active /\ p \notin Fetch!Candidates(f_entry)
        /\ f_fromP[p] = <<>> /\ Tail(f_toP[p]) = <<>>
    BY <1>1, <1>3, <2>2, <2>3, <2>4, QuestionHeard
  <2>6. Append(<<>>, Fetch!Found) = <<Fetch!Found>>
    OBVIOUS
  <2>7. /\ p \in f_has => Fetch!Answers(T[p], F[p])
        /\ p \notin f_has => Fetch!Spent(T[p], F[p])
    BY <1>5, <2>5, <2>6, NothingSent DEF Fetch!Answers, Fetch!Spent
  <2>8. Fetch!Standing(f_entry, p, T[p], F[p])
    BY <2>5, <2>7 DEF Fetch!Standing
  <2>9. Stands(f_entry, T, F)
    BY <1>5, <2>1, <2>8 DEF Stands
  <2> QED BY <2>7, <2>9
<1>7. ASSUME f_faults = 0
      PROVE  /\ Untouched(f_has, T, F)
             /\ f_entry.pending => InHand(f_entry, f_has, T, F)
  <2>1. /\ f_round = 1 /\ Untouched(f_has, f_toP, f_fromP) /\ f_has \subseteq Provider
        /\ f_entry.pending => InHand(f_entry, f_has, f_toP, f_fromP)
    <3>1. f_round <= 1 /\ f_round \in Nat
      BY <1>7, FetchFacts
    <3>2. f_round = 1
      BY <1>2, <3>1
    <3> QED BY <1>7, <3>2, FetchFacts
  <2>2. \A r \in Provider : ~Fetch!Sends(F[r], Fetch!NotFound)
    <3>1. ~Fetch!Sends(f_fromP[p], Fetch!NotFound) /\ Fetch!NotFound # Fetch!Found
      BY <2>1, ToldPackets DEF Untouched
    <3>2. ~Fetch!Sends(Append(f_fromP[p], Fetch!Found), Fetch!NotFound)
      BY <1>3, <3>1, ChannelEnd, ToldPackets
    <3> QED BY <1>5, <2>1, <3>1, <3>2 DEF Untouched
  <2>3. \A r \in Provider \ f_has : F[r] = <<>> /\ T[r] \in {<<>>, <<Fetch!Query>>}
    <3>1. ASSUME p \notin f_has PROVE F[p] = <<>> /\ T[p] = <<>>
      <4>1. f_fromP[p] = <<>> /\ f_toP[p] = <<Fetch!Query>>
        BY <1>1, <2>1, <3>1 DEF Untouched
      <4>2. Tail(<<Fetch!Query>>) = <<>>
        OBVIOUS
      <4> QED BY <1>5, <3>1, <4>1, <4>2
    <3> QED BY <1>5, <2>1, <3>1 DEF Untouched
  <2>4. f_entry.pending => InHand(f_entry, f_has, T, F)
    BY <1>5, <1>6, <2>1 DEF InHand
  <2> QED BY <2>2, <2>3, <2>4 DEF Untouched
<1>8. f_entry.sized \/ f_entry' = f_entry
  BY <1>1
<1>9. f_round = 1 /\ f_entry.pending => Covered(f_entry)
  BY FetchFacts
<1>10. f_faults = 0 => DOMAIN f_entry.active \subseteq f_has /\ Fetch!Candidates(f_entry) \subseteq f_has
  BY FetchFacts
<1> QED BY <1>1, <1>2, <1>4, <1>6, <1>7, <1>8, <1>9, <1>10, PacketHandled

\* A provider sends what it was asked for, or that it does not have it.
LEMMA HandleRequestStep ==
  ASSUME Fetch!FetchAssumption, Fetch!FetchInv, NEW p \in Provider, Fetch!HandleRequest(p)
  PROVE  Fetch!FetchInv'
<1> DEFINE m == Head(f_toP[p])
           s == IF p \in f_has THEN Append(Fetch!ChunksSent(m), Fetch!Complete) ELSE <<Fetch!NotFound>>
           F == [f_fromP EXCEPT ![p] = f_fromP[p] \o s]
           T == [f_toP EXCEPT ![p] = Tail(f_toP[p])]
<1>1. /\ f_toP[p] # <<>> /\ m.type = "request" /\ f_toP' = T /\ f_fromP' = F
      /\ f_entry' = f_entry /\ f_assembly' = f_assembly
      /\ UNCHANGED <<f_call, f_stored, f_has, f_round, f_faults>>
  BY DEF Fetch!HandleRequest
<1>2. /\ f_toP \in [Provider -> Seq(Fetch!Asked)] /\ f_fromP \in [Provider -> Seq(Fetch!Told)]
      /\ Sound(f_entry) /\ f_round # 0 /\ f_entry.received \subseteq f_assembly
      /\ f_assembly \subseteq Fetch!Chunk
  BY <1>1, FetchFacts
<1>3. /\ f_toP[p] \in Seq(Fetch!Asked) /\ f_fromP[p] \in Seq(Fetch!Told)
      /\ Tail(f_toP[p]) \in Seq(Fetch!Asked) /\ m \in Fetch!Asked
  BY <1>1, <1>2, ChannelHead
<1>4. m # Fetch!Query /\ m.start \in Nat /\ m.end \in Nat /\ m.start <= m.end
  BY <1>1, <1>3, AskedPackets
<1>5. /\ s \in Seq(Fetch!Told) /\ ~Fetch!Sends(s, Fetch!Found)
      /\ p \in f_has => ~Fetch!Sends(s, Fetch!NotFound)
      /\ p \notin f_has => s = <<Fetch!NotFound>>
      /\ \A e : p \in f_has => Fetch!Delivers(e, s, m)
  <2>1. CASE p \in f_has
    BY <1>4, <2>1, RangeDelivered
  <2>2. CASE p \notin f_has
    <3>1. s = <<Fetch!NotFound>>
      BY <2>2
    <3>2. <<Fetch!NotFound>> \in Seq(Fetch!Told)
      BY ToldPackets
    <3>3. Fetch!NotFound # Fetch!Found
      BY ToldPackets
    <3> HIDE DEF s
    <3> QED BY <2>2, <3>1, <3>2, <3>3, OneSent
  <2> QED BY <2>1, <2>2
<1> HIDE DEF m, s
<1>6. f_fromP[p] \o s \in Seq(Fetch!Told)
  BY <1>3, <1>5
<1>7. \A x : Fetch!Sends(f_fromP[p] \o s, x) => Fetch!Sends(f_fromP[p], x) \/ Fetch!Sends(s, x)
  <2> TAKE x
  <2> SUFFICES ASSUME NEW j \in DOMAIN (f_fromP[p] \o s), (f_fromP[p] \o s)[j] = x
               PROVE  Fetch!Sends(f_fromP[p], x) \/ Fetch!Sends(s, x)
    BY DEF Fetch!Sends
  <2> DEFINE k == Len(f_fromP[p])
  <2>1. /\ k \in Nat /\ Len(s) \in Nat /\ DOMAIN f_fromP[p] = 1 .. k /\ DOMAIN s = 1 .. Len(s)
        /\ j \in 1 .. k + Len(s)
        /\ (f_fromP[p] \o s)[j] = IF j <= k THEN f_fromP[p][j] ELSE s[j - k]
    BY <1>3, <1>5
  <2> HIDE DEF k
  <2>2. CASE j <= k
    <3>1. j \in DOMAIN f_fromP[p] /\ f_fromP[p][j] = x
      BY <2>1, <2>2
    <3> QED BY <3>1 DEF Fetch!Sends
  <2>3. CASE ~(j <= k)
    <3>1. j - k \in DOMAIN s /\ s[j - k] = x
      BY <2>1, <2>3
    <3> QED BY <3>1 DEF Fetch!Sends
  <2> QED BY <2>2, <2>3
<1>8. T \in [Provider -> Seq(Fetch!Asked)] /\ F \in [Provider -> Seq(Fetch!Told)]
  BY <1>2, <1>3, <1>6
<1>9. /\ T[p] = Tail(f_toP[p]) /\ F[p] = f_fromP[p] \o s
      /\ \A r \in Provider : r # p => T[r] = f_toP[r] /\ F[r] = f_fromP[r]
  BY <1>2
<1> HIDE DEF T, F
<1>10. ASSUME f_round = 1, f_entry.pending PROVE Stands(f_entry, T, F)
  <2>1. Stands(f_entry, f_toP, f_fromP)
    BY <1>10, FetchFacts
  <2>2. Fetch!Standing(f_entry, p, f_toP[p], f_fromP[p])
    BY <2>1 DEF Stands
  <2>3. f_entry.active \in [DOMAIN f_entry.active -> Fetch!Span]
    BY <1>2 DEF Sound
  <2>4. CASE p \in DOMAIN f_entry.active
    <3> DEFINE r == f_entry.active[p]
    <3>1. f_fromP[p] = <<>> /\ Tail(f_toP[p]) = <<>> /\ m = Fetch!Request(r.start, r.end)
      BY <1>1, <1>3, <2>2, <2>3, <2>4, QuestionHeard DEF m
    <3>2. r \in Fetch!Span
      BY <2>3, <2>4
    <3>3. m.start = r.start /\ m.end = r.end
      BY <3>1, <3>2, AskedPackets
    <3>4. F[p] = s /\ T[p] = <<>>
      <4>1. <<>> \o s = s
        BY <1>5
      <4> QED BY <1>9, <3>1, <4>1
    <3> HIDE DEF r
    <3>5. Fetch!Delivers(f_entry, s, m) => Fetch!Delivers(f_entry, s, r)
      BY <3>3 DEF Fetch!Delivers, Fetch!RangeOf
    <3>6. s = <<Fetch!NotFound>> \/ Fetch!Delivers(f_entry, s, r)
      BY <1>5, <3>5
    <3>7. Fetch!Works(f_entry, p, T[p], F[p])
      BY <3>4, <3>6 DEF Fetch!Works, r
    <3>8. Fetch!Standing(f_entry, p, T[p], F[p])
      BY <2>4, <3>7 DEF Fetch!Standing
    <3> QED BY <1>9, <2>1, <3>8 DEF Stands
  <2>5. CASE p \notin DOMAIN f_entry.active
    <3>1. /\ p \notin Fetch!Candidates(f_entry)
          /\ Fetch!Spent(Tail(f_toP[p]), f_fromP[p])
      BY <1>1, <1>3, <2>2, <2>3, <2>5, QuestionHeard DEF m
    <3>2. Fetch!Spent(T[p], F[p])
      BY <1>5, <1>7, <1>9, <3>1 DEF Fetch!Spent
    <3>3. Fetch!Standing(f_entry, p, T[p], F[p])
      BY <2>5, <3>1, <3>2 DEF Fetch!Standing
    <3> QED BY <1>9, <2>1, <3>3 DEF Stands
  <2> QED BY <2>4, <2>5
<1>11. ASSUME f_faults = 0
       PROVE  /\ Untouched(f_has, T, F)
              /\ f_entry.pending => InHand(f_entry, f_has, T, F)
  <2>1. /\ Untouched(f_has, f_toP, f_fromP) /\ f_has \subseteq Provider
        /\ f_entry.pending => InHand(f_entry, f_has, f_toP, f_fromP)
    BY <1>11, FetchFacts
  <2>2. f_toP[p] # <<Fetch!Query>> /\ ~Fetch!Asks(f_toP[p], f_fromP[p])
        /\ ~Fetch!Answers(f_toP[p], f_fromP[p])
    <3>1. f_toP[p] # <<Fetch!Query>>
      BY <1>4 DEF m
    <3> QED BY <1>1, <3>1 DEF Fetch!Asks, Fetch!Answers
  <2>3. p \in f_has
    BY <1>1, <2>1, <2>2 DEF Untouched
  <2>4. ~Fetch!Sends(F[p], Fetch!NotFound)
    BY <1>5, <1>7, <1>9, <2>1, <2>3 DEF Untouched
  <2>5. Untouched(f_has, T, F)
    BY <1>9, <2>1, <2>3, <2>4 DEF Untouched
  <2>6. f_entry.pending => InHand(f_entry, f_has, T, F)
    BY <2>1, <2>2, <2>3 DEF InHand
  <2> QED BY <2>5, <2>6
<1>12. f_round = 1 /\ f_entry.pending => Covered(f_entry)
  BY FetchFacts
<1>13. f_faults = 0 => DOMAIN f_entry.active \subseteq f_has /\ Fetch!Candidates(f_entry) \subseteq f_has
  BY FetchFacts
<1> QED BY <1>1, <1>2, <1>8, <1>10, <1>11, <1>12, <1>13, PacketHandled

\* What stays covered when an entry gets new fetches.
LEMMA GrownCovered ==
  ASSUME NEW e, NEW f, NEW N, Grows(e, f, N), Covered(e)
  PROVE  Covered(f)
BY DEF Grows, Covered

\* abandonFetch(): the range goes back and the candidates are offered what is unassigned.
LEMMA FetchAbandoned ==
  ASSUME Fetch!FetchAssumption, NEW e, Sound(e), NEW p \in DOMAIN e.active,
         NEW tp \in [Provider -> Seq(Fetch!Asked)], NEW fp \in [Provider -> Seq(Fetch!Told)]
  PROVE  LET g == [e EXCEPT !.active = Fetch!Without(@, p)]
             f == Fetch!Abandoned(e, p)
             t == Fetch!SendRequests(tp, g, f)
         IN  /\ Sound(f) /\ f.sized = e.sized /\ f.pending = e.pending
             /\ f.received = e.received /\ f.total = e.total
             /\ t \in [Provider -> Seq(Fetch!Asked)]
             /\ Covered(e) => Covered(f)
             /\ Stands(e, tp, fp) =>
                  /\ Stands(f, t, fp)
                  /\ fp[p] # <<>> /\ Head(fp[p]).type \in {"notFound", "complete"}
                       => Stands(f, t, [fp EXCEPT ![p] = Tail(@)])
<1> DEFINE g == [e EXCEPT !.active = Fetch!Without(@, p)]
           h == [e EXCEPT !.active = Fetch!Without(@, p), !.unassigned = Append(@, e.active[p])]
           f == Fetch!Abandoned(e, p)
           t == Fetch!SendRequests(tp, g, f)
           fq == [fp EXCEPT ![p] = Tail(@)]
<1>1. f = Fetch!OfferToCandidates(h)
  BY DEF Fetch!Abandoned
<1>2. /\ p \in Provider /\ p \notin Fetch!Candidates(e)
      /\ \A i : Fetch!Covers(e, i) => Fetch!Covers(h, i)
      /\ Loses(e, g, p) /\ Loses(e, h, p)
  BY FetchRemoved
<1> HIDE DEF g, h, f
<1>3. /\ Sound(h) /\ h.pending = e.pending /\ h.sized = e.sized /\ h.total = e.total
      /\ h.received = e.received /\ h.high = e.high /\ h.candidates = e.candidates
      /\ DOMAIN h.active = DOMAIN e.active \ {p}
      /\ \A q \in DOMAIN h.active : h.active[q] = e.active[q]
  BY <1>2 DEF Loses
<1>4. /\ Sound(g) /\ g.total = e.total /\ g.received = e.received /\ g.candidates = e.candidates
      /\ DOMAIN g.active = DOMAIN e.active \ {p}
      /\ \A q \in DOMAIN g.active : g.active[q] = e.active[q]
  BY <1>2 DEF Loses
<1>5. /\ Sound(f) /\ Grows(h, f, DOMAIN f.active \ DOMAIN h.active)
      /\ DOMAIN f.active \ DOMAIN h.active \subseteq Fetch!Candidates(h)
  BY <1>1, <1>3, CandidatesOffered
<1>6. /\ f.sized = e.sized /\ f.pending = e.pending /\ f.received = e.received /\ f.total = e.total
  BY <1>3, <1>5 DEF Grows
<1>7. \A q \in DOMAIN f.active : f.active[q] \in Fetch!Span
  BY <1>5 DEF Sound
<1>8. t \in [Provider -> Seq(Fetch!Asked)]
  BY <1>7, RequestsTyped
<1>9. Covered(e) => Covered(f)
  <2>1. Covered(e) => Covered(h)
    BY <1>2, <1>3 DEF Covered
  <2> QED BY <1>5, <2>1, GrownCovered
<1>10. Fetch!Candidates(h) = Fetch!Candidates(e) /\ Fetch!Candidates(g) = Fetch!Candidates(e)
  BY <1>3, <1>4 DEF Fetch!Candidates
<1>11. /\ f.received = g.received /\ f.total = g.total /\ DOMAIN g.active \subseteq DOMAIN f.active
       /\ \A q \in DOMAIN g.active : f.active[q] = g.active[q]
       /\ Fetch!Candidates(f) \subseteq Fetch!Candidates(g)
       /\ DOMAIN f.active \ DOMAIN g.active \subseteq Fetch!Candidates(e)
       /\ DOMAIN f.active \ DOMAIN g.active \subseteq Provider \ DOMAIN e.active
  <2>1. DOMAIN f.active \subseteq Provider
    BY <1>5 DEF Sound
  <2>2. Fetch!Candidates(e) \cap DOMAIN e.active = {}
    BY DEF Sound, Fetch!Candidates
  <2> QED BY <1>3, <1>4, <1>5, <1>6, <1>10, <2>1, <2>2 DEF Grows
<1>12. ASSUME Stands(e, tp, fp), NEW y \in [Provider -> Seq(Fetch!Told)], Stands(g, tp, y),
              \A q \in Provider : q # p => y[q] = fp[q]
       PROVE  Stands(f, t, y)
  <2>1. ASSUME NEW q \in DOMAIN f.active \ DOMAIN g.active PROVE tp[q] = <<>> /\ y[q] = <<>>
    <3>1. q \in Fetch!Candidates(e) /\ q \in Provider /\ q \notin DOMAIN e.active /\ q # p
      BY <1>2, <1>11
    <3>2. tp[q] = <<>> /\ fp[q] = <<>>
      BY <1>12, <3>1 DEF Stands, Fetch!Standing
    <3> QED BY <1>12, <3>1, <3>2
  <2> QED BY <1>7, <1>11, <1>12, <2>1, WorkersJoin
<1>13. ASSUME Stands(e, tp, fp)
       PROVE  /\ Stands(f, t, fp)
              /\ fp[p] # <<>> /\ Head(fp[p]).type \in {"notFound", "complete"} => Stands(f, t, fq)
  <2>1. e.active \in [DOMAIN e.active -> Fetch!Span] /\ DOMAIN e.active \subseteq Provider
    BY DEF Sound
  <2>2. /\ Stands(g, tp, fp)
        /\ fp[p] # <<>> /\ Head(fp[p]).type \in {"notFound", "complete"} => Stands(g, tp, fq)
    BY <1>2, <1>4, <1>13, <2>1, WorkerLeaves
  <2>3. fp[p] # <<>> => fq \in [Provider -> Seq(Fetch!Told)] /\ \A q \in Provider : q # p => fq[q] = fp[q]
    <3>1. ASSUME fp[p] # <<>> PROVE Tail(fp[p]) \in Seq(Fetch!Told)
      BY <1>2, <3>1
    <3> QED BY <3>1
  <2> QED BY <1>12, <1>13, <2>2, <2>3
<1> QED BY <1>5, <1>6, <1>8, <1>9, <1>13 DEF f, g

\* The timer of a fetch: it is abandoned.
LEMMA FetchTimeoutStep ==
  ASSUME Fetch!FetchAssumption, Fetch!FetchInv, NEW p \in Provider, Fetch!FetchTimeout(p)
  PROVE  Fetch!FetchInv'
<1> DEFINE g == [f_entry EXCEPT !.active = Fetch!Without(@, p)]
           f == Fetch!Abandoned(f_entry, p)
           t == Fetch!SendRequests(f_toP, g, f)
<1>1. /\ f_faults < MaxMishaps /\ f_entry.pending /\ p \in DOMAIN f_entry.active
      /\ f_entry' = f /\ f_toP' = t /\ f_faults' = f_faults + 1
      /\ f_call' = f_call /\ f_assembly' = f_assembly /\ f_stored' = f_stored
      /\ f_has' = f_has /\ f_fromP' = f_fromP /\ f_round' = f_round
  BY DEF Fetch!FetchTimeout, Fetch!Fetching
<1>2. /\ Sound(f_entry) /\ f_toP \in [Provider -> Seq(Fetch!Asked)]
      /\ f_fromP \in [Provider -> Seq(Fetch!Told)]
      /\ (~f_entry.sized => Blank(f_entry))
      /\ f_round = 1 /\ f_entry.pending => Stands(f_entry, f_toP, f_fromP) /\ Covered(f_entry)
      /\ f_round # 0
  BY <1>1, FetchFacts
<1>3. f_entry.sized
  BY <1>1, <1>2 DEF Blank
<1>4. /\ Sound(f) /\ f.sized = f_entry.sized /\ f.pending = f_entry.pending
      /\ f.received = f_entry.received /\ f.total = f_entry.total
      /\ t \in [Provider -> Seq(Fetch!Asked)]
      /\ Covered(f_entry) => Covered(f)
      /\ Stands(f_entry, f_toP, f_fromP) => Stands(f, t, f_fromP)
  BY <1>1, <1>2, FetchAbandoned
<1> HIDE DEF f, t
<1>5. Fetch!CallsSound
  BY DEF Fetch!FetchInv
<1>6. f_faults' # 0 /\ f_faults' \in 0 .. MaxMishaps
  <2>1. MaxMishaps \in Nat
    BY SomeChunk
  <2>2. f_faults \in Nat
    BY <1>5 DEF Fetch!CallsSound
  <2> QED BY <1>1, <2>1, <2>2
<1>7. Fetch!CallsSound'
  BY <1>1, <1>2, <1>4, <1>5, <1>6 DEF Fetch!CallsSound, Fetch!Waiting
<1> QED BY <1>1, <1>2, <1>3, <1>4, <1>6, <1>7, FetchNext

\* A packet that is consumed without more: its provider does not fetch for the entry.
LEMMA PacketDropped ==
  ASSUME Fetch!FetchAssumption, Fetch!FetchInv, NEW p \in Provider, f_fromP[p] # <<>>,
         f_round = 1 => ~Fetch!Fetching(p),
         UNCHANGED <<f_call, f_stored, f_has, f_round, f_faults, f_entry, f_toP>>,
         f_fromP' = [f_fromP EXCEPT ![p] = Tail(@)],
         f_assembly \subseteq f_assembly', f_assembly' \subseteq Fetch!Chunk,
         f_faults = 0 /\ f_entry.pending => f_entry.sized \/ Head(f_fromP[p]).type # "found"
  PROVE  Fetch!FetchInv'
<1> DEFINE F == [f_fromP EXCEPT ![p] = Tail(@)]
<1>1. /\ Sound(f_entry) /\ f_toP \in [Provider -> Seq(Fetch!Asked)]
      /\ f_fromP \in [Provider -> Seq(Fetch!Told)] /\ f_entry.received \subseteq f_assembly
      /\ f_round = 1 /\ f_entry.pending => Stands(f_entry, f_toP, f_fromP) /\ Covered(f_entry)
      /\ f_round # 0 /\ f_has \subseteq Provider
  BY FetchFacts
<1>2. /\ f_fromP[p] \in Seq(Fetch!Told) /\ Tail(f_fromP[p]) \in Seq(Fetch!Told)
      /\ \A m : Fetch!Sends(Tail(f_fromP[p]), m) => Fetch!Sends(f_fromP[p], m)
      /\ Head(f_fromP[p]) \in Fetch!Told
  BY <1>1, ChannelHead
<1>3. /\ F \in [Provider -> Seq(Fetch!Told)] /\ F[p] = Tail(f_fromP[p])
      /\ \A r \in Provider : r # p => F[r] = f_fromP[r]
  BY <1>1, <1>2
<1>4. f_round = 1 /\ f_entry.pending => Stands(f_entry, f_toP, F)
  BY <1>1, StandsConsumed DEF Fetch!Fetching
<1> HIDE DEF F
<1>5. ASSUME f_faults = 0
      PROVE  /\ DOMAIN f_entry.active \subseteq f_has /\ Fetch!Candidates(f_entry) \subseteq f_has
             /\ Untouched(f_has, f_toP, F)
             /\ f_entry.pending => InHand(f_entry, f_has, f_toP, F)
  <2>1. /\ DOMAIN f_entry.active \subseteq f_has /\ Fetch!Candidates(f_entry) \subseteq f_has
        /\ Untouched(f_has, f_toP, f_fromP)
        /\ f_entry.pending => InHand(f_entry, f_has, f_toP, f_fromP)
    BY <1>5, FetchFacts
  <2>2. p \in f_has
    BY <2>1 DEF Untouched
  <2>3. Untouched(f_has, f_toP, F)
    BY <1>2, <1>3, <2>1, <2>2 DEF Untouched
  <2>4. f_entry.pending => InHand(f_entry, f_has, f_toP, F)
    <3>1. ASSUME f_entry.pending, ~f_entry.sized PROVE FALSE
      <4>1. Fetch!Asks(f_toP[p], f_fromP[p]) \/ Fetch!Answers(f_toP[p], f_fromP[p])
        BY <2>1, <2>2, <3>1 DEF InHand
      <4>2. f_fromP[p] = <<Fetch!Found>>
        BY <4>1 DEF Fetch!Asks, Fetch!Answers
      <4>3. Head(f_fromP[p]).type = "found"
        BY <4>2, ToldPackets
      <4> QED BY <1>5, <3>1, <4>3
    <3> QED BY <2>1, <3>1 DEF InHand
  <2> QED BY <2>1, <2>3, <2>4
<1>6. f_fromP' = F /\ f_entry' = f_entry /\ f_toP' = f_toP
  BY DEF F
<1> QED BY <1>1, <1>3, <1>4, <1>5, <1>6, PacketHandled

\* Without faults a provider with an answer on its way has the content.
LEMMA AnswererHas ==
  ASSUME Fetch!FetchInv, f_faults = 0, NEW p \in Provider, f_fromP[p] # <<>>
  PROVE  p \in f_has /\ f_round = 1 /\ Head(f_fromP[p]).type # "notFound"
<1>1. Untouched(f_has, f_toP, f_fromP) /\ f_round <= 1 /\ f_round \in Nat /\ f_round # 0
      /\ f_fromP \in [Provider -> Seq(Fetch!Told)]
  BY FetchFacts
<1>2. Fetch!Sends(f_fromP[p], Head(f_fromP[p])) /\ Head(f_fromP[p]) \in Fetch!Told
  BY <1>1, ChannelHead
<1>3. Head(f_fromP[p]) # Fetch!NotFound
  BY <1>1, <1>2 DEF Untouched
<1>4. f_round = 1
  BY <1>1
<1> QED BY <1>1, <1>2, <1>3, <1>4, ToldPackets DEF Untouched

\* A provider that lost the content: its fetch is abandoned.
LEMMA HandleNotFoundStep ==
  ASSUME Fetch!FetchAssumption, Fetch!FetchInv, NEW p \in Provider, Fetch!HandleNotFound(p)
  PROVE  Fetch!FetchInv'
<1> DEFINE g == [f_entry EXCEPT !.active = Fetch!Without(@, p)]
           f == Fetch!Abandoned(f_entry, p)
           t == Fetch!SendRequests(f_toP, g, f)
           F == [f_fromP EXCEPT ![p] = Tail(@)]
<1>1. /\ f_fromP[p] # <<>> /\ Head(f_fromP[p]).type = "notFound"
      /\ f_assembly' = f_assembly /\ UNCHANGED <<f_call, f_stored, f_has, f_round, f_faults>>
      /\ f_fromP' = F
  BY DEF Fetch!HandleNotFound, Fetch!Receives, Fetch!Consume
<1>2. /\ Sound(f_entry) /\ f_toP \in [Provider -> Seq(Fetch!Asked)]
      /\ f_fromP \in [Provider -> Seq(Fetch!Told)]
      /\ (~f_entry.sized => Blank(f_entry))
      /\ f_round = 1 /\ f_entry.pending => Stands(f_entry, f_toP, f_fromP) /\ Covered(f_entry)
      /\ f_entry.received \subseteq f_assembly /\ f_assembly \subseteq Fetch!Chunk
      /\ f_round # 0
  BY <1>1, FetchFacts
<1>3. f_faults # 0
  BY <1>1, AnswererHas
<1>4. F \in [Provider -> Seq(Fetch!Told)]
  <2>1. Tail(f_fromP[p]) \in Seq(Fetch!Told)
    BY <1>1, <1>2, ChannelHead
  <2> QED BY <1>2, <2>1
<1>5. CASE Fetch!Fetching(p)
  <2>1. /\ f_entry.pending /\ p \in DOMAIN f_entry.active /\ f_entry' = f /\ f_toP' = t
    BY <1>5 DEF Fetch!HandleNotFound, Fetch!Consume, Fetch!Fetching
  <2>2. f_entry.sized
    BY <1>2, <2>1 DEF Blank
  <2>3. /\ Sound(f) /\ f.sized = f_entry.sized /\ f.pending = f_entry.pending
        /\ f.received = f_entry.received /\ f.total = f_entry.total
        /\ t \in [Provider -> Seq(Fetch!Asked)]
        /\ Covered(f_entry) => Covered(f)
        /\ Stands(f_entry, f_toP, f_fromP) => Stands(f, t, F)
    BY <1>1, <1>2, <2>1, FetchAbandoned
  <2> HIDE DEF f, t, F
  <2> QED BY <1>1, <1>2, <1>3, <1>4, <2>1, <2>2, <2>3, PacketHandled
<1>6. CASE ~Fetch!Fetching(p)
  <2>1. f_entry' = f_entry /\ f_toP' = Fetch!SendRequests(f_toP, f_entry, f_entry)
    BY <1>6 DEF Fetch!HandleNotFound, Fetch!Consume
  <2>2. f_toP' = f_toP
    BY <1>2, <2>1, RequestsTyped DEF Sound
  <2> QED BY <1>1, <1>2, <1>3, <1>6, <2>1, <2>2, PacketDropped
<1> QED BY <1>5, <1>6

\* A chunk: one of a range is kept, the first tells the real total.
LEMMA HandleChunkStep ==
  ASSUME Fetch!FetchAssumption, Fetch!FetchInv, NEW p \in Provider, Fetch!HandleChunk(p)
  PROVE  Fetch!FetchInv'
<1> DEFINE i == Head(f_fromP[p]).index
           f == Fetch!WithChunk(f_entry, p, i)
           F == [f_fromP EXCEPT ![p] = Tail(@)]
<1>1. /\ f_fromP[p] # <<>> /\ Head(f_fromP[p]).type = "chunk"
      /\ UNCHANGED <<f_call, f_stored, f_has, f_round, f_faults>>
      /\ f_fromP' = F
  BY DEF Fetch!HandleChunk, Fetch!Receives, Fetch!Consume
<1>2. /\ Sound(f_entry) /\ f_toP \in [Provider -> Seq(Fetch!Asked)]
      /\ f_fromP \in [Provider -> Seq(Fetch!Told)]
      /\ (~f_entry.sized => Blank(f_entry))
      /\ f_round = 1 /\ f_entry.pending => Stands(f_entry, f_toP, f_fromP) /\ Covered(f_entry)
      /\ f_entry.received \subseteq f_assembly /\ f_assembly \subseteq Fetch!Chunk
      /\ f_round # 0
  BY <1>1, FetchFacts
<1>3. /\ f_fromP[p] \in Seq(Fetch!Told) /\ Tail(f_fromP[p]) \in Seq(Fetch!Told)
      /\ Head(f_fromP[p]) \in Fetch!Told /\ Head(f_fromP[p]) = f_fromP[p][1]
      /\ Len(f_fromP[p]) \in Nat /\ Len(f_fromP[p]) # 0
      /\ Len(Tail(f_fromP[p])) = Len(f_fromP[p]) - 1
      /\ \A j \in 1 .. Len(f_fromP[p]) - 1 : Tail(f_fromP[p])[j] = f_fromP[p][j + 1]
      /\ \A m : Fetch!Sends(Tail(f_fromP[p]), m) => Fetch!Sends(f_fromP[p], m)
      /\ \A m : Fetch!Sends(f_fromP[p], m) => m = Head(f_fromP[p]) \/ Fetch!Sends(Tail(f_fromP[p]), m)
  BY <1>1, <1>2, ChannelHead
<1>4. i \in Fetch!Chunk /\ Head(f_fromP[p]) = Fetch!ChunkPacket(i)
  BY <1>1, <1>3, ToldPackets
<1> HIDE DEF i
<1>5. /\ F \in [Provider -> Seq(Fetch!Told)] /\ F[p] = Tail(f_fromP[p])
      /\ \A r \in Provider : r # p => F[r] = f_fromP[r]
  BY <1>2, <1>3
<1>6. CASE Fetch!Fetching(p)
  <2>1. /\ f_entry.pending /\ p \in DOMAIN f_entry.active
        /\ f_entry' = f /\ f_toP' = Fetch!SendRequests(f_toP, f_entry, f)
        /\ f_assembly' = f_assembly \cup {i}
    BY <1>6 DEF Fetch!HandleChunk, Fetch!Consume, Fetch!Fetching, i
  <2>2. f_entry.sized
    BY <1>2, <2>1 DEF Blank
  <2>3. /\ Sound(f) /\ f.sized /\ f.pending = f_entry.pending /\ f.active = f_entry.active
        /\ f.candidates = f_entry.candidates /\ f.received = f_entry.received \cup {i}
        /\ f.total = Total
        /\ Covered(f_entry) => Covered(f)
    BY <1>2, <1>4, <2>2, ChunkKept
  <2> HIDE DEF f, F
  <2>4. f_toP' = f_toP
    <3>1. \A r \in DOMAIN f.active : f.active[r] \in Fetch!Span
      BY <2>3 DEF Sound
    <3> QED BY <1>2, <2>1, <2>3, <3>1, RequestsTyped
  <2>5. Total # 0 /\ Fetch!Candidates(f) = Fetch!Candidates(f_entry)
    BY <2>3, SomeChunk DEF Fetch!Candidates
  <2>6. ASSUME f_round = 1 PROVE Stands(f, f_toP, F)
    <3>1. Stands(f_entry, f_toP, f_fromP)
      BY <1>2, <2>1, <2>6
    <3>2. ASSUME NEW r \in Provider, r # p PROVE Fetch!Standing(f, r, f_toP[r], F[r])
      <4>1. Fetch!Standing(f_entry, r, f_toP[r], f_fromP[r])
        BY <3>1 DEF Stands
      <4>2. Fetch!Standing(f, r, f_toP[r], f_fromP[r])
        BY <2>3, <2>5, <4>1, StandingOn
      <4> QED BY <1>5, <3>2, <4>2
    <3>3. Fetch!Standing(f_entry, p, f_toP[p], f_fromP[p])
      BY <3>1 DEF Stands
    <3> DEFINE r == f_entry.active[p]
               s == f_fromP[p]
    <3>4. f_toP[p] = <<>> /\ Fetch!Delivers(f_entry, s, r)
      <4>1. f_toP[p] \in Seq(Fetch!Asked)
        BY <1>2
      <4> QED BY <1>1, <1>3, <2>1, <3>3, <4>1, AnswerHeard
    <3>5. /\ s \in Seq(Fetch!Told) /\ Len(s) \in Nat /\ Len(s) # 0 /\ s[1].type = "chunk"
          /\ Len(Tail(s)) = Len(s) - 1 /\ \A j \in 1 .. Len(s) - 1 : Tail(s)[j] = s[j + 1]
          /\ s[Len(s)] = Fetch!Complete
          /\ \A j \in 1 .. (Len(s) - 1) : s[j].type = "chunk"
          /\ \A k \in (Fetch!RangeOf(r) \cap Fetch!Chunk) \ f_entry.received :
               Fetch!Sends(s, Fetch!ChunkPacket(k))
          /\ \A m : Fetch!Sends(s, m) => m = Fetch!ChunkPacket(i) \/ Fetch!Sends(Tail(s), m)
      BY <1>1, <1>3, <1>4, <3>4 DEF Fetch!Delivers
    <3> HIDE DEF s, r
    <3>6. Len(s) # 1
      <4>1. s[1] # Fetch!Complete
        BY <3>5, ToldPackets
      <4> QED BY <3>5, <4>1
    <3>7. /\ Len(Tail(s)) > 0 /\ Tail(s)[Len(Tail(s))] = Fetch!Complete
          /\ \A j \in 1 .. (Len(Tail(s)) - 1) : Tail(s)[j].type = "chunk"
      <4> DEFINE n == Len(s)
      <4>1. n \in Nat /\ n # 0 /\ n # 1 /\ Len(Tail(s)) = n - 1
        BY <3>5, <3>6
      <4>2. /\ s[n] = Fetch!Complete /\ \A j \in 1 .. n - 1 : Tail(s)[j] = s[j + 1]
            /\ \A j \in 1 .. n - 1 : s[j].type = "chunk"
        BY <3>5
      <4> HIDE DEF n
      <4>3. n - 1 \in 1 .. n - 1 /\ (n - 1) + 1 = n
        BY <4>1
      <4>4. \A j \in 1 .. (n - 1) - 1 : j \in 1 .. n - 1 /\ j + 1 \in 1 .. n - 1
        BY <4>1
      <4> QED BY <4>1, <4>2, <4>3, <4>4
    <3>8. \A k \in (Fetch!RangeOf(r) \cap Fetch!Chunk) \ f.received :
            Fetch!Sends(Tail(s), Fetch!ChunkPacket(k))
      <4> TAKE k \in (Fetch!RangeOf(r) \cap Fetch!Chunk) \ f.received
      <4>1. k \in (Fetch!RangeOf(r) \cap Fetch!Chunk) \ f_entry.received /\ k # i
        BY <2>3
      <4>2. Fetch!ChunkPacket(k) # Fetch!ChunkPacket(i)
        BY <4>1, ToldPackets
      <4> QED BY <3>5, <4>1, <4>2
    <3>9. Fetch!Delivers(f, Tail(s), r)
      BY <2>3, <2>5, <3>7, <3>8 DEF Fetch!Delivers
    <3>10. Fetch!Standing(f, p, f_toP[p], F[p])
      <4>1. F[p] = Tail(s) /\ r = f.active[p] /\ p \in DOMAIN f.active
        BY <1>5, <2>1, <2>3 DEF s, r
      <4> QED BY <3>4, <3>9, <4>1 DEF Fetch!Standing, Fetch!Works
    <3> QED BY <3>2, <3>10 DEF Stands
  <2>7. ASSUME f_faults = 0
        PROVE  /\ DOMAIN f.active \subseteq f_has /\ Fetch!Candidates(f) \subseteq f_has
               /\ Untouched(f_has, f_toP, F)
               /\ f_entry.pending => InHand(f, f_has, f_toP, F)
    <3>1. /\ DOMAIN f_entry.active \subseteq f_has /\ Fetch!Candidates(f_entry) \subseteq f_has
          /\ Untouched(f_has, f_toP, f_fromP)
      BY <2>7, FetchFacts
    <3>2. p \in f_has
      BY <1>1, <2>7, AnswererHas
    <3>3. Untouched(f_has, f_toP, F)
      BY <1>3, <1>5, <3>1, <3>2 DEF Untouched
    <3>4. InHand(f, f_has, f_toP, F)
      BY <2>1, <2>3 DEF InHand
    <3> QED BY <2>3, <2>5, <3>1, <3>3, <3>4
  <2>8. f_entry'.received \subseteq f_assembly' /\ f_assembly' \subseteq Fetch!Chunk
    BY <1>2, <1>4, <2>1, <2>3
  <2> QED BY <1>1, <1>2, <1>5, <2>1, <2>3, <2>4, <2>6, <2>7, <2>8, PacketHandled
<1>7. CASE ~Fetch!Fetching(p)
  <2>1. f_entry' = f_entry /\ f_toP' = Fetch!SendRequests(f_toP, f_entry, f_entry)
        /\ f_assembly' = IF f_entry.pending THEN f_assembly ELSE f_assembly \cup {i}
    BY <1>7 DEF Fetch!HandleChunk, Fetch!Consume, i
  <2>2. f_toP' = f_toP
    BY <1>2, <2>1, RequestsTyped DEF Sound
  <2>3. f_assembly \subseteq f_assembly' /\ f_assembly' \subseteq Fetch!Chunk
    BY <1>2, <1>4, <2>1
  <2> QED BY <1>1, <1>7, <2>1, <2>2, <2>3, PacketDropped
<1> QED BY <1>6, <1>7

\* An answer puts at most its provider to work.
LEMMA AnswerTaken ==
  ASSUME Fetch!FetchAssumption, Fetch!FetchInv, NEW p \in Provider, f_fromP[p] # <<>>,
         Head(f_fromP[p]).type = "found", f_entry.pending, p \notin DOMAIN f_entry.active,
         UNCHANGED <<f_call, f_stored, f_has, f_round, f_faults, f_assembly>>,
         f_fromP' = [f_fromP EXCEPT ![p] = Tail(@)],
         NEW f, f_entry' = f, f_toP' = Fetch!SendRequests(f_toP, f_entry, f),
         Sound(f), f.sized, f.pending = f_entry.pending,
         f.received = f_entry.received, f.total = f_entry.total,
         DOMAIN f_entry.active \subseteq DOMAIN f.active,
         \A q \in DOMAIN f_entry.active : f.active[q] = f_entry.active[q],
         DOMAIN f.active \ DOMAIN f_entry.active \subseteq {p},
         DOMAIN f.active # {} \/ f_entry.sized,
         Fetch!Candidates(f) \subseteq Fetch!Candidates(f_entry), Covered(f_entry) => Covered(f)
  PROVE  Fetch!FetchInv'
<1> DEFINE F == [f_fromP EXCEPT ![p] = Tail(@)]
           t == Fetch!SendRequests(f_toP, f_entry, f)
<1>1. /\ Sound(f_entry) /\ f_toP \in [Provider -> Seq(Fetch!Asked)]
      /\ f_fromP \in [Provider -> Seq(Fetch!Told)]
      /\ f_round = 1 /\ f_entry.pending => Stands(f_entry, f_toP, f_fromP) /\ Covered(f_entry)
      /\ f_entry.received \subseteq f_assembly /\ f_assembly \subseteq Fetch!Chunk
      /\ f_round # 0
  BY FetchFacts
<1>2. \A q \in DOMAIN f.active : f.active[q] \in Fetch!Span
  BY DEF Sound
<1>3. /\ t \in [Provider -> Seq(Fetch!Asked)]
      /\ \A q \in Provider : q \notin DOMAIN f.active \ DOMAIN f_entry.active => t[q] = f_toP[q]
  BY <1>1, <1>2, RequestsTyped
<1>4. /\ Tail(f_fromP[p]) \in Seq(Fetch!Told)
      /\ \A m : Fetch!Sends(Tail(f_fromP[p]), m) => Fetch!Sends(f_fromP[p], m)
  BY <1>1, ChannelHead
<1>5. /\ F \in [Provider -> Seq(Fetch!Told)] /\ F[p] = Tail(f_fromP[p])
      /\ \A r \in Provider : r # p => F[r] = f_fromP[r]
  BY <1>1, <1>4
<1>6. ASSUME f_round = 1 PROVE Stands(f, t, F)
  <2>1. Stands(f_entry, f_toP, f_fromP)
    BY <1>1, <1>6
  <2>2. Stands(f_entry, f_toP, F) /\ f_toP[p] = <<>> /\ Tail(f_fromP[p]) = <<>>
    <3>1. Stands(f_entry, f_toP, F)
      BY <1>1, <2>1, StandsConsumed
    <3>2. f_toP[p] = <<>> /\ Tail(f_fromP[p]) = <<>>
      <4>1. Fetch!Standing(f_entry, p, f_toP[p], f_fromP[p])
        BY <2>1 DEF Stands
      <4>2. f_toP[p] \in Seq(Fetch!Asked) /\ f_fromP[p] \in Seq(Fetch!Told)
        BY <1>1
      <4>3. f_fromP[p] # <<>> /\ Head(f_fromP[p]).type = "found"
        OBVIOUS
      <4> QED BY <4>1, <4>2, <4>3, AnswerHeard, ZenonT(30)
    <3> QED BY <3>1, <3>2
  <2> HIDE DEF F, t
  <2>3. \A q \in DOMAIN f.active \ DOMAIN f_entry.active : f_toP[q] = <<>> /\ F[q] = <<>>
    BY <1>5, <2>2
  <2> QED BY <1>1, <1>2, <1>5, <2>2, <2>3, WorkersJoin DEF t
<1> HIDE DEF F, t
<1>7. ASSUME f_faults = 0
      PROVE  /\ DOMAIN f.active \subseteq f_has /\ Fetch!Candidates(f) \subseteq f_has
             /\ Untouched(f_has, t, F)
             /\ f_entry.pending => InHand(f, f_has, t, F)
  <2>1. /\ DOMAIN f_entry.active \subseteq f_has /\ Fetch!Candidates(f_entry) \subseteq f_has
        /\ Untouched(f_has, f_toP, f_fromP)
        /\ InHand(f_entry, f_has, f_toP, f_fromP)
    BY <1>7, FetchFacts
  <2>2. p \in f_has
    BY <1>7, AnswererHas
  <2>3. \A q \in Provider \ f_has : t[q] = f_toP[q] /\ F[q] = f_fromP[q]
    BY <1>3, <1>5, <2>2
  <2>4. Untouched(f_has, t, F)
    <3>1. \A q \in Provider : ~Fetch!Sends(F[q], Fetch!NotFound)
      <4> TAKE q \in Provider
      <4>1. ~Fetch!Sends(f_fromP[q], Fetch!NotFound)
        BY <2>1 DEF Untouched
      <4>2. CASE q = p
        BY <1>4, <1>5, <4>1, <4>2
      <4>3. CASE q # p
        BY <1>5, <4>1, <4>3
      <4> QED BY <4>2, <4>3
    <3> QED BY <2>1, <2>3, <3>1 DEF Untouched
  <2>5. DOMAIN f.active # {}
    BY <2>1 DEF InHand
  <2>6. InHand(f, f_has, t, F)
    BY <2>5 DEF InHand
  <2>7. DOMAIN f.active \subseteq f_has
    BY <2>1, <2>2
  <2> QED BY <2>1, <2>4, <2>6, <2>7
<1>8. f_toP' = t /\ f_fromP' = F
  BY DEF t, F
<1> QED BY <1>1, <1>3, <1>5, <1>6, <1>7, <1>8, PacketHandled

\* An answer to the query: ignored, put to work, or left waiting.
LEMMA HandleFoundStep ==
  ASSUME Fetch!FetchAssumption, Fetch!FetchInv, NEW p \in Provider, Fetch!HandleFound(p)
  PROVE  Fetch!FetchInv'
<1> DEFINE F == [f_fromP EXCEPT ![p] = Tail(@)]
           Drops == ~f_entry.pending \/ Fetch!Fetching(p) \/ p \in Fetch!Candidates(f_entry)
<1>1. /\ f_fromP[p] # <<>> /\ Head(f_fromP[p]).type = "found"
      /\ UNCHANGED <<f_call, f_stored, f_has, f_round, f_faults, f_assembly>>
      /\ f_fromP' = F
  BY DEF Fetch!HandleFound, Fetch!Receives, Fetch!Consume
<1>2. /\ Sound(f_entry) /\ f_toP \in [Provider -> Seq(Fetch!Asked)]
      /\ f_fromP \in [Provider -> Seq(Fetch!Told)]
      /\ (~f_entry.sized => Blank(f_entry))
      /\ f_round = 1 /\ f_entry.pending => Stands(f_entry, f_toP, f_fromP) /\ Covered(f_entry)
      /\ f_entry.received \subseteq f_assembly /\ f_assembly \subseteq Fetch!Chunk
      /\ f_round # 0
  BY <1>1, FetchFacts
<1>3. \A q \in DOMAIN f_entry.active : f_entry.active[q] \in Fetch!Span
  BY <1>2 DEF Sound
<1>4. Fetch!SendRequests(f_toP, f_entry, f_entry) = f_toP
  BY <1>2, <1>3, RequestsTyped
<1>5. /\ Tail(f_fromP[p]) \in Seq(Fetch!Told)
      /\ \A m : Fetch!Sends(Tail(f_fromP[p]), m) => Fetch!Sends(f_fromP[p], m)
  BY <1>1, <1>2, ChannelHead
<1>6. /\ F \in [Provider -> Seq(Fetch!Told)] /\ F[p] = Tail(f_fromP[p])
      /\ \A r \in Provider : r # p => F[r] = f_fromP[r]
  BY <1>2, <1>5
<1>7. CASE Drops
  <2>1. f_entry' = f_entry /\ f_toP' = f_toP
    BY <1>4, <1>7 DEF Fetch!HandleFound, Fetch!Consume, Fetch!Candidates
  <2>2. f_round = 1 => ~Fetch!Fetching(p)
    <3> SUFFICES ASSUME f_round = 1, f_entry.pending PROVE p \notin DOMAIN f_entry.active
      BY DEF Fetch!Fetching
    <3>1. Fetch!Standing(f_entry, p, f_toP[p], f_fromP[p])
      BY <1>2 DEF Stands
    <3>2. f_toP[p] \in Seq(Fetch!Asked) /\ f_fromP[p] \in Seq(Fetch!Told)
      BY <1>2
    <3> QED BY <1>1, <3>1, <3>2, AnswerHeard
  <2>3. f_entry.pending => f_entry.sized
    BY <1>2, <1>7 DEF Blank, Fetch!Fetching, Fetch!Candidates
  <2> QED BY <1>1, <1>2, <2>1, <2>2, <2>3, PacketDropped
<1>8. ASSUME ~Drops
      PROVE  f_entry.pending /\ p \notin DOMAIN f_entry.active /\ p \notin Fetch!Candidates(f_entry)
  BY <1>8 DEF Fetch!Fetching
<1>9. CASE ~Drops /\ ~f_entry.sized
  <2>1. PICK est \in Estimates : f_entry' = Fetch!Sized(f_entry, p, est)
                /\ f_toP' = Fetch!SendRequests(f_toP, f_entry, Fetch!Sized(f_entry, p, est))
    BY <1>9 DEF Fetch!HandleFound, Fetch!Consume, Fetch!Candidates
  <2> DEFINE f == Fetch!Sized(f_entry, p, est)
  <2>2. /\ Sound(f) /\ f.sized /\ DOMAIN f.active = {p} /\ f.candidates = f_entry.candidates
        /\ f.received = f_entry.received /\ f.total = f_entry.total /\ f.pending = f_entry.pending
        /\ Covered(f)
    BY <1>2, <1>9, FirstAnswer
  <2>3. DOMAIN f_entry.active = {}
    BY <1>2, <1>9 DEF Blank
  <2>4. f_entry' = f /\ f_toP' = Fetch!SendRequests(f_toP, f_entry, f)
    BY <2>1
  <2> HIDE DEF f, F, Drops
  <2>5. Fetch!Candidates(f) = Fetch!Candidates(f_entry)
    BY <2>2 DEF Fetch!Candidates
  <2> QED BY <1>1, <1>8, <1>9, <2>2, <2>3, <2>4, <2>5, AnswerTaken DEF F
<1>10. CASE ~Drops /\ f_entry.sized /\ Fetch!FreeSlots(f_entry) > 0 /\ f_entry.unassigned # <<>>
  <2> DEFINE f == Fetch!TryAssign(f_entry, p)
  <2>1. f_entry' = f /\ f_toP' = Fetch!SendRequests(f_toP, f_entry, f)
    BY <1>10 DEF Fetch!HandleFound, Fetch!Consume, Fetch!Candidates
  <2>2. /\ Sound(f) /\ Grows(f_entry, f, DOMAIN f.active \ DOMAIN f_entry.active)
        /\ DOMAIN f.active \ DOMAIN f_entry.active \subseteq {p}
    BY <1>2, <1>8, <1>10, ProviderOffered
  <2> HIDE DEF f, F, Drops
  <2>3. Covered(f_entry) => Covered(f)
    BY <2>2, GrownCovered
  <2>4. /\ f.sized = f_entry.sized /\ f.pending = f_entry.pending
        /\ f.received = f_entry.received /\ f.total = f_entry.total
        /\ DOMAIN f_entry.active \subseteq DOMAIN f.active
        /\ \A q \in DOMAIN f_entry.active : f.active[q] = f_entry.active[q]
        /\ Fetch!Candidates(f) \subseteq Fetch!Candidates(f_entry)
    BY <2>2 DEF Grows
  <2> QED BY <1>1, <1>8, <1>10, <2>1, <2>2, <2>3, <2>4, AnswerTaken DEF F
<1>11. CASE ~Drops /\ f_entry.sized /\ ~(Fetch!FreeSlots(f_entry) > 0 /\ f_entry.unassigned # <<>>)
  <2>1. CASE ~(Len(f_entry.candidates) < MaxCandidates)
    <3>1. f_entry' = f_entry /\ f_toP' = Fetch!SendRequests(f_toP, f_entry, f_entry)
      BY <1>11, <2>1 DEF Fetch!HandleFound, Fetch!Consume, Fetch!Candidates
    <3>2. f_toP' = f_toP /\ ~Fetch!Fetching(p)
      BY <1>4, <1>11, <3>1
    <3> QED BY <1>1, <1>2, <1>11, <3>1, <3>2, PacketDropped
  <2>2. CASE Len(f_entry.candidates) < MaxCandidates
    <3> DEFINE f == [f_entry EXCEPT !.candidates = Append(@, p)]
    <3>1. f_entry' = f /\ f_toP' = Fetch!SendRequests(f_toP, f_entry, f)
      BY <1>11, <2>2 DEF Fetch!HandleFound, Fetch!Consume, Fetch!Candidates
    <3>2. /\ Sound(f) /\ f.sized /\ f.pending = f_entry.pending /\ f.active = f_entry.active
          /\ f.received = f_entry.received /\ f.total = f_entry.total /\ f.high = f_entry.high
          /\ f.unassigned = f_entry.unassigned
          /\ Fetch!Candidates(f) = Fetch!Candidates(f_entry) \cup {p}
      BY <1>2, <1>8, <1>11, CandidateWaits
    <3> HIDE DEF f, F, Drops
    <3>3. f_toP' = f_toP
      <4>1. \A q \in DOMAIN f.active : f.active[q] \in Fetch!Span
        BY <3>2 DEF Sound
      <4> QED BY <1>2, <3>1, <3>2, <4>1, RequestsTyped
    <3>4. ASSUME f_round = 1 PROVE Stands(f, f_toP, F) /\ Covered(f)
      <4>1. Stands(f_entry, f_toP, f_fromP) /\ Covered(f_entry)
        BY <1>2, <1>8, <1>11, <3>4
      <4>2. Stands(f_entry, f_toP, F) /\ f_toP[p] = <<>> /\ Tail(f_fromP[p]) = <<>>
        <5>1. Stands(f_entry, f_toP, F)
          BY <1>1, <1>2, <1>8, <1>11, <4>1, StandsConsumed DEF F
        <5>2. f_toP[p] = <<>> /\ Tail(f_fromP[p]) = <<>>
          <6>1. Fetch!Standing(f_entry, p, f_toP[p], f_fromP[p])
            BY <4>1 DEF Stands
          <6>2. f_toP[p] \in Seq(Fetch!Asked) /\ f_fromP[p] \in Seq(Fetch!Told)
            BY <1>2
          <6> QED BY <1>1, <6>1, <6>2, AnswerHeard
        <5> QED BY <5>1, <5>2
      <4>3. Fetch!Standing(f, p, f_toP[p], F[p])
        BY <1>6, <1>8, <1>11, <3>2, <4>2 DEF Fetch!Standing
      <4>4. ASSUME NEW r \in Provider, r # p PROVE Fetch!Standing(f, r, f_toP[r], F[r])
        <5>1. Fetch!Standing(f_entry, r, f_toP[r], F[r])
          BY <4>2 DEF Stands
        <5> QED BY <3>2, <4>4, <5>1, StandingOn
      <4>5. Covered(f)
        BY <3>2, <4>1 DEF Covered, Fetch!Covers
      <4> QED BY <4>3, <4>4, <4>5 DEF Stands
    <3>5. ASSUME f_faults = 0
          PROVE  /\ DOMAIN f.active \subseteq f_has /\ Fetch!Candidates(f) \subseteq f_has
                 /\ Untouched(f_has, f_toP, F)
                 /\ f_entry.pending => InHand(f, f_has, f_toP, F)
      <4>1. /\ DOMAIN f_entry.active \subseteq f_has /\ Fetch!Candidates(f_entry) \subseteq f_has
            /\ Untouched(f_has, f_toP, f_fromP)
            /\ InHand(f_entry, f_has, f_toP, f_fromP)
        BY <1>8, <1>11, <3>5, FetchFacts
      <4>2. p \in f_has
        BY <1>1, <3>5, AnswererHas
      <4>3. Untouched(f_has, f_toP, F)
        BY <1>5, <1>6, <4>1, <4>2 DEF Untouched
      <4>4. InHand(f, f_has, f_toP, F)
        BY <1>11, <3>2, <4>1 DEF InHand
      <4> QED BY <3>2, <4>1, <4>2, <4>3, <4>4
    <3> QED BY <1>1, <1>2, <1>6, <1>8, <1>11, <3>1, <3>2, <3>3, <3>4, <3>5, PacketHandled
  <2> QED BY <2>1, <2>2
<1> QED BY <1>7, <1>9, <1>10, <1>11

\* A set of chunks with as many members as there are chunks has them all.
LEMMA AllReceived ==
  ASSUME Fetch!FetchAssumption, NEW R, R \subseteq Fetch!Chunk, Cardinality(R) >= Total
  PROVE  R = Fetch!Chunk
<1>1. IsFiniteSet(Fetch!Chunk) /\ Cardinality(Fetch!Chunk) = Total /\ Total \in Nat
  BY SomeChunk
<1>2. /\ IsFiniteSet(R) /\ Cardinality(R) <= Cardinality(Fetch!Chunk)
      /\ Cardinality(Fetch!Chunk) = Cardinality(R) => Fetch!Chunk = R
  BY <1>1, FS_Subset
<1>3. Cardinality(R) \in Nat
  BY <1>2, FS_CardinalityType
<1> QED BY <1>1, <1>2, <1>3

\* A fetch is over: somebody goes on with what is unassigned, or all has arrived.
LEMMA HandleCompleteStep ==
  ASSUME Fetch!FetchAssumption, Fetch!FetchInv, NEW p \in Provider, Fetch!HandleComplete(p)
  PROVE  Fetch!FetchInv'
<1> DEFINE g == [f_entry EXCEPT !.active = Fetch!Without(@, p)]
           f == Fetch!KeepFetchesGoing(g, p)
           t == Fetch!SendRequests(f_toP, g, f)
           F == [f_fromP EXCEPT ![p] = Tail(@)]
<1>1. /\ f_fromP[p] # <<>> /\ Head(f_fromP[p]).type = "complete"
      /\ UNCHANGED <<f_has, f_round, f_faults>>
  BY DEF Fetch!HandleComplete, Fetch!Receives
<1>2. /\ Sound(f_entry) /\ f_toP \in [Provider -> Seq(Fetch!Asked)]
      /\ f_fromP \in [Provider -> Seq(Fetch!Told)]
      /\ (~f_entry.sized => Blank(f_entry))
      /\ f_round = 1 /\ f_entry.pending => Stands(f_entry, f_toP, f_fromP) /\ Covered(f_entry)
      /\ f_entry.received \subseteq f_assembly /\ f_assembly \subseteq Fetch!Chunk
      /\ f_round # 0
  BY <1>1, FetchFacts
<1>3. /\ Tail(f_fromP[p]) \in Seq(Fetch!Told)
      /\ \A m : Fetch!Sends(Tail(f_fromP[p]), m) => Fetch!Sends(f_fromP[p], m)
  BY <1>1, <1>2, ChannelHead
<1>4. /\ F \in [Provider -> Seq(Fetch!Told)] /\ F[p] = Tail(f_fromP[p])
      /\ \A r \in Provider : r # p => F[r] = f_fromP[r]
  BY <1>2, <1>3
<1>5. CASE ~Fetch!Fetching(p)
  <2>1. /\ f_entry' = f_entry /\ f_toP' = Fetch!SendRequests(f_toP, f_entry, f_entry)
        /\ f_fromP' = F /\ UNCHANGED <<f_call, f_stored, f_assembly>>
    BY <1>5 DEF Fetch!HandleComplete, Fetch!Consume
  <2>2. f_toP' = f_toP
    BY <1>2, <2>1, RequestsTyped DEF Sound
  <2> QED BY <1>1, <1>2, <1>5, <2>1, <2>2, PacketDropped
<1>6. CASE Fetch!Fetching(p)
  <2>1. f_entry.pending /\ p \in DOMAIN f_entry.active /\ Fetch!AssembleAndResolve(p, g, f)
    BY <1>6 DEF Fetch!HandleComplete, Fetch!Fetching
  <2>2. f_entry.sized
    BY <1>2, <2>1 DEF Blank
  <2>3. /\ p \notin Fetch!Candidates(f_entry) /\ Loses(f_entry, g, p)
        /\ g.unassigned = f_entry.unassigned
        /\ \A i : Fetch!Covers(f_entry, i)
             => Fetch!Covers(g, i) \/ i \in Fetch!RangeOf(f_entry.active[p])
    BY <1>2, <2>1, FetchRemoved
  <2>4. ~Fetch!HaveAll(f) \/ f.total = 0 \/ f_assembly = Fetch!Chunk
        \/ ~(f.received \subseteq f_assembly) \/ f.total # Total
    <3>1. Fetch!HaveAll(f) <=> Cardinality(f.received) >= f.total
      BY FetchCardinality DEF Fetch!HaveAll
    <3> HIDE DEF f
    <3>2. f.received \subseteq f_assembly /\ f.total = Total /\ Fetch!HaveAll(f)
            => f.received = Fetch!Chunk
      BY <1>2, <3>1, AllReceived
    <3> QED BY <1>2, <3>2
  <2>5. \/ /\ f.total # 0 /\ f_assembly = Fetch!Chunk
           /\ f_call' = [c \in Call |-> IF c \in Fetch!Waiting THEN "resolved" ELSE f_call[c]]
           /\ f_fromP' = F /\ f_toP' = t /\ f_entry' = Fetch!NoEntry
           /\ f_stored' = TRUE /\ f_assembly' = {}
        \/ f.total # 0 /\ f_assembly # Fetch!Chunk /\ Fetch!HaveAll(f)
        \/ /\ f.total = 0 \/ f_assembly # Fetch!Chunk
           /\ f_fromP' = F /\ f_entry' = f /\ f_toP' = t
           /\ UNCHANGED <<f_call, f_stored, f_assembly>>
    BY <2>1 DEF Fetch!AssembleAndResolve, Fetch!Consume, Fetch!TryComplete
  <2> HIDE DEF g, F
  <2>6. /\ Sound(g) /\ g.pending = f_entry.pending /\ g.sized = f_entry.sized
        /\ g.total = f_entry.total /\ g.received = f_entry.received /\ g.high = f_entry.high
        /\ g.candidates = f_entry.candidates /\ DOMAIN g.active = DOMAIN f_entry.active \ {p}
        /\ \A q \in DOMAIN g.active : g.active[q] = f_entry.active[q]
    BY <2>3 DEF Loses
  <2>7. Fetch!Candidates(g) = Fetch!Candidates(f_entry)
    BY <2>6 DEF Fetch!Candidates
  <2>8. /\ Sound(f) /\ Grows(g, f, DOMAIN f.active \ DOMAIN g.active)
        /\ DOMAIN f.active \ DOMAIN g.active \subseteq Fetch!Candidates(g) \cup {p}
        /\ (DOMAIN f.active = {} => g.unassigned = <<>>)
    <3>1. p \notin DOMAIN g.active /\ p \notin Fetch!Candidates(g)
      BY <2>3, <2>6, <2>7
    <3> QED BY <2>6, <3>1, FetchesGoOn
  <2> HIDE DEF f
  <2>9. /\ f.pending = f_entry.pending /\ f.sized = f_entry.sized /\ f.total = f_entry.total
        /\ f.received = f_entry.received
        /\ DOMAIN g.active \subseteq DOMAIN f.active
        /\ \A q \in DOMAIN g.active : f.active[q] = g.active[q]
        /\ Fetch!Candidates(f) \subseteq Fetch!Candidates(g)
    BY <2>6, <2>8 DEF Grows
  <2>10. \A q \in DOMAIN f.active : f.active[q] \in Fetch!Span
    BY <2>8 DEF Sound
  <2>11. /\ t \in [Provider -> Seq(Fetch!Asked)]
         /\ \A q \in Provider : q \notin DOMAIN f.active \ DOMAIN g.active => t[q] = f_toP[q]
    <3>1. t \in [Provider -> Seq(Fetch!Asked)]
      BY <1>2, <2>10, RequestsTyped
    <3>2. \A q \in Provider : q \notin DOMAIN f.active \ DOMAIN g.active => t[q] = f_toP[q]
      BY DEF Fetch!SendRequests
    <3> QED BY <3>1, <3>2
  <2>12. ASSUME f_faults = 0
         PROVE  /\ p \in f_has /\ f_round = 1 /\ f_has # {}
                /\ DOMAIN f.active \subseteq f_has /\ Fetch!Candidates(f) \subseteq f_has
                /\ Untouched(f_has, t, F)
    <3>1. /\ f_has # {} /\ f_has \subseteq Provider /\ DOMAIN f_entry.active \subseteq f_has
          /\ Fetch!Candidates(f_entry) \subseteq f_has
          /\ Untouched(f_has, f_toP, f_fromP)
      BY <2>12, FetchFacts
    <3>2. p \in f_has /\ f_round = 1
      BY <1>1, <2>12, AnswererHas
    <3>3. DOMAIN f.active \subseteq f_has /\ Fetch!Candidates(f) \subseteq f_has
      BY <2>6, <2>7, <2>8, <2>9, <3>1, <3>2
    <3>4. \A q \in Provider \ f_has : t[q] = f_toP[q] /\ F[q] = f_fromP[q]
      BY <1>4, <2>11, <3>2, <3>3
    <3>5. \A q \in Provider : ~Fetch!Sends(F[q], Fetch!NotFound)
      <4> TAKE q \in Provider
      <4>1. ~Fetch!Sends(f_fromP[q], Fetch!NotFound)
        BY <3>1 DEF Untouched
      <4>2. CASE q = p
        BY <1>3, <1>4, <4>1, <4>2
      <4>3. CASE q # p
        BY <1>4, <4>1, <4>3
      <4> QED BY <4>2, <4>3
    <3>6. Untouched(f_has, t, F)
      BY <3>1, <3>4, <3>5 DEF Untouched
    <3> QED BY <3>1, <3>2, <3>3, <3>6
  <2> HIDE DEF t
  <2>13. CASE /\ f.total # 0 /\ f_assembly = Fetch!Chunk
              /\ f_call' = [c \in Call |-> IF c \in Fetch!Waiting THEN "resolved" ELSE f_call[c]]
              /\ f_fromP' = F /\ f_toP' = t /\ f_entry' = Fetch!NoEntry
              /\ f_stored' = TRUE /\ f_assembly' = {}
    <3>1. /\ Sound(Fetch!NoEntry) /\ Blank(Fetch!NoEntry) /\ Fetch!NoEntry.pending = FALSE
          /\ Fetch!Candidates(Fetch!NoEntry) = {} /\ DOMAIN Fetch!NoEntry.active = {}
          /\ Fetch!NoEntry.received = {}
      <4>1. Fetch!NoEntry.pending = FALSE
        BY DEF Fetch!NoEntry, Fetch!FreshEntry
      <4> QED BY <4>1, NewEntries DEF Blank
    <3>2. f_call \in [Call -> {"idle", "waiting", "resolved", "timedOut"}]
      BY FetchFacts
    <3>3. f_call' \in [Call -> {"idle", "waiting", "resolved", "timedOut"}]
      BY <2>13, <3>2
    <3>4. Fetch!Waiting' = {}
      <4>1. \A c \in Call : f_call'[c] # "waiting"
        BY <2>13, <3>2 DEF Fetch!Waiting
      <4> QED BY <4>1 DEF Fetch!Waiting
    <3>5. Fetch!CallsSound'
      <4>1. Fetch!CallsSound
        BY DEF Fetch!FetchInv
      <4> QED BY <1>1, <1>2, <1>4, <2>11, <2>13, <3>1, <3>3, <3>4, <4>1 DEF Fetch!CallsSound
    <3> QED BY <1>1, <2>12, <2>13, <3>1, <3>5, FetchNext
  <2>14. CASE f.total # 0 /\ f_assembly # Fetch!Chunk /\ Fetch!HaveAll(f)
    <3>1. f.total \in {0, Total}
      BY <2>8 DEF Sound, EntryRec
    <3> QED BY <1>2, <2>4, <2>9, <2>14, <3>1
  <2>15. CASE /\ f.total = 0 \/ f_assembly # Fetch!Chunk
              /\ f_fromP' = F /\ f_entry' = f /\ f_toP' = t
              /\ UNCHANGED <<f_call, f_stored, f_assembly>>
    <3>1. ASSUME f_round = 1
          PROVE  /\ Stands(f, t, F) /\ Covered(g) /\ g.total # 0
      <4>1. Stands(f_entry, f_toP, f_fromP) /\ Covered(f_entry)
        BY <1>2, <2>1, <3>1
      <4>2. f_entry.active \in [DOMAIN f_entry.active -> Fetch!Span]
            /\ DOMAIN f_entry.active \subseteq Provider
            /\ Fetch!Candidates(f_entry) \cap DOMAIN f_entry.active = {}
        BY <1>2 DEF Sound, Fetch!Candidates
      <4>3. Stands(g, f_toP, F) /\ f_toP[p] = <<>> /\ Tail(f_fromP[p]) = <<>>
        <5>1. Stands(g, f_toP, F)
          BY <1>1, <1>2, <2>1, <2>3, <2>6, <4>1, <4>2, WorkerLeaves DEF F
        <5>2. Fetch!Standing(f_entry, p, f_toP[p], f_fromP[p])
          BY <4>1 DEF Stands
        <5>3. f_toP[p] \in Seq(Fetch!Asked) /\ f_fromP[p] \in Seq(Fetch!Told)
          BY <1>2
        <5>4. f_toP[p] = <<>> /\ Tail(f_fromP[p]) = <<>>
          BY <1>1, <2>1, <5>2, <5>3, AnswerHeard
        <5> QED BY <5>1, <5>4
      <4>4. \A q \in DOMAIN f.active \ DOMAIN g.active : f_toP[q] = <<>> /\ F[q] = <<>>
        <5> TAKE q \in DOMAIN f.active \ DOMAIN g.active
        <5>1. CASE q = p
          BY <1>4, <4>3, <5>1
        <5>2. CASE q # p
          <6>1. q \in Fetch!Candidates(f_entry) /\ q \notin DOMAIN f_entry.active /\ q \in Provider
            BY <2>7, <2>8, <4>2, <5>2 DEF Sound
          <6>2. f_toP[q] = <<>> /\ f_fromP[q] = <<>>
            BY <4>1, <6>1 DEF Stands, Fetch!Standing
          <6> QED BY <1>4, <5>2, <6>1, <6>2
        <5> QED BY <5>1, <5>2
      <4>5. Stands(f, t, F)
        BY <1>2, <1>4, <2>6, <2>9, <2>10, <4>3, <4>4, WorkersJoin DEF t
      <4>6. Fetch!Standing(f_entry, p, f_toP[p], f_fromP[p])
        BY <4>1 DEF Stands
      <4>7. Fetch!Delivers(f_entry, f_fromP[p], f_entry.active[p]) /\ Len(f_fromP[p]) = 1
        <5>1. f_toP[p] \in Seq(Fetch!Asked) /\ f_fromP[p] \in Seq(Fetch!Told)
          BY <1>2
        <5> QED BY <1>1, <2>1, <4>6, <5>1, AnswerHeard
      <4>8. g.total # 0
        BY <2>6, <4>7 DEF Fetch!Delivers
      <4>9. \A i \in (Fetch!RangeOf(f_entry.active[p]) \cap Fetch!Chunk) : i \in f_entry.received
        <5> SUFFICES ASSUME NEW i \in (Fetch!RangeOf(f_entry.active[p]) \cap Fetch!Chunk) \ f_entry.received
                     PROVE  FALSE
          OBVIOUS
        <5>1. Fetch!Sends(f_fromP[p], Fetch!ChunkPacket(i))
          BY <4>7 DEF Fetch!Delivers
        <5>2. Fetch!ChunkPacket(i) = Head(f_fromP[p]) \/ Fetch!Sends(<<>>, Fetch!ChunkPacket(i))
          <6>1. f_fromP[p] \in Seq(Fetch!Told) /\ f_fromP[p] # <<>> /\ Tail(f_fromP[p]) = <<>>
            BY <1>1, <1>2, <4>3
          <6>2. \A m : Fetch!Sends(f_fromP[p], m)
                  => m = Head(f_fromP[p]) \/ Fetch!Sends(Tail(f_fromP[p]), m)
            BY <6>1, ChannelHead
          <6> QED BY <5>1, <6>1, <6>2
        <5> QED BY <1>1, <5>2, NothingSent, ToldPackets
      <4>10. Covered(g)
        BY <2>3, <2>6, <4>1, <4>9 DEF Covered
      <4> QED BY <4>5, <4>8, <4>10
    <3>2. f_round = 1 => Covered(f)
      BY <2>8, <3>1, GrownCovered
    <3>3. ASSUME f_faults = 0 PROVE DOMAIN f.active # {}
      <4> SUFFICES ASSUME DOMAIN f.active = {} PROVE FALSE
        OBVIOUS
      <4>1. Covered(g) /\ g.total # 0
        BY <2>12, <3>1, <3>3
      <4>2. DOMAIN g.active = {} /\ g.unassigned = <<>>
        BY <2>8, <2>9
      <4>3. \A i : ~Fetch!Covers(g, i)
        BY <4>2 DEF Fetch!Covers
      <4>4. g.high >= Total - 1 /\ g.high \in {-1} \cup Nat
        BY <2>6, <4>1 DEF Covered, Sound, EntryRec
      <4>5. Fetch!Chunk \subseteq 0 .. g.high
        BY <4>4, SomeChunk
      <4>6. Fetch!Chunk \subseteq g.received
        BY <4>1, <4>3, <4>5 DEF Covered
      <4>7. f_assembly = Fetch!Chunk
        BY <1>2, <2>6, <4>6
      <4> QED BY <2>6, <2>9, <2>15, <4>1, <4>7
    <3>4. f_faults = 0 => InHand(f, f_has, t, F)
      BY <2>2, <2>9, <3>3 DEF InHand
    <3>5. f_entry'.received \subseteq f_assembly' /\ f_assembly' \subseteq Fetch!Chunk
      BY <1>2, <2>9, <2>15
    <3> QED BY <1>1, <1>2, <1>4, <2>1, <2>2, <2>8, <2>9, <2>11, <2>12, <2>15, <3>1, <3>2, <3>4, <3>5,
               PacketHandled
  <2> QED BY <2>5, <2>13, <2>14, <2>15
<1> QED BY <1>5, <1>6

\* Every action of the fetch keeps the invariant.
LEMMA FetchStep ==
  ASSUME Fetch!FetchAssumption, Fetch!FetchInv, [Fetch!Next]_(Fetch!vars)
  PROVE  Fetch!FetchInv'
<1>1. ASSUME NEW c \in Call, Fetch!GetContent(c) \/ Fetch!WaiterTimeout(c) PROVE Fetch!FetchInv'
  BY <1>1, GetContentStep, WaiterTimeoutStep
<1>2. ASSUME NEW p \in Provider,
             \/ Fetch!HandleQuery(p) \/ Fetch!HandleRequest(p) \/ Fetch!LoseContent(p)
             \/ Fetch!FetchTimeout(p) \/ Fetch!HandleFound(p) \/ Fetch!HandleNotFound(p)
             \/ Fetch!HandleChunk(p) \/ Fetch!HandleComplete(p)
      PROVE  Fetch!FetchInv'
  BY <1>2, HandleQueryStep, HandleRequestStep, LoseContentStep, FetchTimeoutStep, HandleFoundStep,
     HandleNotFoundStep, HandleChunkStep, HandleCompleteStep
<1>3. ASSUME UNCHANGED Fetch!vars PROVE Fetch!FetchInv'
  <2>1. /\ f_call' = f_call /\ f_entry' = f_entry /\ f_assembly' = f_assembly
        /\ f_stored' = f_stored /\ f_has' = f_has /\ f_toP' = f_toP /\ f_fromP' = f_fromP
        /\ f_round' = f_round /\ f_faults' = f_faults
    BY <1>3 DEF Fetch!vars
  <2>2. Fetch!CallsSound'
    <3>1. Fetch!CallsSound
      BY DEF Fetch!FetchInv
    <3> QED BY <2>1, <3>1 DEF Fetch!CallsSound, Fetch!Waiting
  <2> QED BY <2>1, <2>2, FetchFacts, FetchNext
<1> QED BY <1>1, <1>2, <1>3 DEF Fetch!Next

\* What the invariant says to a reader.
LEMMA FetchMeans ==
  ASSUME Fetch!FetchAssumption, Fetch!FetchInv
  PROVE  /\ Fetch!TypeOK /\ Fetch!FetchesBounded /\ Fetch!FirstRoundForgetsNothing
         /\ Fetch!FetchBacked /\ Fetch!NeverRejected /\ Fetch!FaultFreeCompletes
<1>1. /\ Sound(f_entry) /\ Fetch!CallsSound
      /\ f_round = 1 /\ f_entry.pending => Stands(f_entry, f_toP, f_fromP) /\ Covered(f_entry)
      /\ f_round = 0 => ~f_entry.pending
      /\ f_round \in Nat
      /\ f_faults = 0 => /\ f_has # {} /\ f_round <= 1 /\ f_has \subseteq Provider
                         /\ f_entry.pending => InHand(f_entry, f_has, f_toP, f_fromP)
  BY FetchFacts DEF Fetch!FetchInv
<1>2. Fetch!TypeOK
  <2>1. f_entry.received \subseteq Fetch!Chunk /\ f_entry.total \in {0, Total}
    BY <1>1 DEF Sound, EntryRec
  <2>2. \A p \in DOMAIN f_entry.active :
          p \in Provider /\ f_entry.active[p].start <= f_entry.active[p].end
    BY <1>1 DEF Sound, Fetch!Span
  <2>3. /\ f_call \in [Call -> {"idle", "waiting", "resolved", "timedOut", "rejected"}]
        /\ (f_entry.pending <=> Fetch!Waiting # {})
        /\ f_assembly \subseteq Fetch!Chunk /\ f_has \subseteq Provider /\ f_faults \in 0 .. MaxMishaps
    BY <1>1 DEF Fetch!CallsSound
  <2> QED BY <2>1, <2>2, <2>3 DEF Fetch!TypeOK
<1>3. Fetch!FetchesBounded
  BY <1>1, FetchCardinality DEF Fetch!FetchesBounded, Sound
<1>4. Fetch!FirstRoundForgetsNothing
  BY <1>1 DEF Fetch!FirstRoundForgetsNothing, Fetch!NoChunkForgotten, Covered, Fetch!Covers
<1>5. Fetch!NeverRejected
  BY <1>1 DEF Fetch!NeverRejected, Fetch!CallsSound
<1>6. ASSUME f_entry.pending, f_round = 1, NEW p \in DOMAIN f_entry.active
      PROVE  /\ \/ Fetch!Sends(f_toP[p], Fetch!Request(f_entry.active[p].start, f_entry.active[p].end))
                \/ Fetch!Sends(f_fromP[p], Fetch!NotFound)
                \/ /\ Fetch!Sends(f_fromP[p], Fetch!Complete)
                   /\ \A i \in (Fetch!RangeOf(f_entry.active[p]) \cap Fetch!Chunk) \ f_entry.received :
                        Fetch!Sends(f_fromP[p], Fetch!ChunkPacket(i))
             /\ f_toP[p] # <<>> \/ f_fromP[p] # <<>>
  <2>1. p \in Provider
    BY <1>1 DEF Sound
  <2>2. Fetch!Works(f_entry, p, f_toP[p], f_fromP[p]) /\ f_fromP[p] \in Seq(Fetch!Told)
    BY <1>1, <1>6, <2>1 DEF Stands, Fetch!Standing, Fetch!CallsSound
  <2>3. CASE f_toP[p] = <<Fetch!Request(f_entry.active[p].start, f_entry.active[p].end)>>
    <3>1. f_toP[p] # <<>>
      BY <2>3
    <3> QED BY <2>3, <3>1, OneSent
  <2>4. CASE f_fromP[p] = <<Fetch!NotFound>>
    <3>1. f_fromP[p] # <<>>
      BY <2>4
    <3> QED BY <2>4, <3>1, OneSent
  <2>5. CASE Fetch!Delivers(f_entry, f_fromP[p], f_entry.active[p])
    <3>1. Len(f_fromP[p]) > 0 /\ f_fromP[p][Len(f_fromP[p])] = Fetch!Complete
      BY <2>5 DEF Fetch!Delivers
    <3>2. Len(f_fromP[p]) \in DOMAIN f_fromP[p] /\ f_fromP[p] # <<>>
      BY <2>2, <3>1
    <3>3. Fetch!Sends(f_fromP[p], Fetch!Complete)
      BY <3>1, <3>2 DEF Fetch!Sends
    <3> QED BY <2>5, <3>2, <3>3 DEF Fetch!Delivers
  <2> QED BY <2>2, <2>3, <2>4, <2>5 DEF Fetch!Works
<1>7. Fetch!FetchBacked
  BY <1>6 DEF Fetch!FetchBacked
<1>8. Fetch!FaultFreeCompletes
  <2> SUFFICES ASSUME f_faults = 0, Fetch!Quiet, Fetch!Waiting # {} PROVE FALSE
    BY DEF Fetch!FaultFreeCompletes
  <2>1. f_entry.pending
    BY <1>1 DEF Fetch!CallsSound
  <2>2. f_round = 1
    BY <1>1, <2>1
  <2>3. CASE f_entry.sized
    <3>1. PICK p \in DOMAIN f_entry.active : TRUE
      BY <1>1, <2>1, <2>3 DEF InHand
    <3>2. p \in Provider
      BY <1>1 DEF Sound
    <3> QED BY <1>6, <2>1, <2>2, <3>2 DEF Fetch!Quiet
  <2>4. CASE ~f_entry.sized
    <3>1. PICK p \in f_has : TRUE
      BY <1>1
    <3>2. Fetch!Asks(f_toP[p], f_fromP[p]) \/ Fetch!Answers(f_toP[p], f_fromP[p])
      BY <1>1, <2>1, <2>4 DEF InHand
    <3>3. f_toP[p] = <<>> /\ f_fromP[p] = <<>>
      BY <1>1 DEF Fetch!Quiet
    <3> QED BY <3>2, <3>3 DEF Fetch!Asks, Fetch!Answers
  <2> QED BY <2>3, <2>4
<1> QED BY <1>2, <1>3, <1>4, <1>5, <1>7, <1>8

\* The content fetch in a behaviour about it.
FetchSound == which = "fetch" => Fetch!FetchInv

\* For the first request of a content no part of the transfer is forgotten and every fetch has
\* somebody working on it, the number of fetches is bounded, no call is rejected, and without
\* faults none is left waiting, for any providers, calls, chunks, estimates, limits and faults.
THEOREM FetchesHold == MCSpec => []FetchForgetsNothing
<1>1. MCInit => FetchSound
  BY FetchStart, FetchConstants DEF MCInit, FetchSound
<1>2. FetchSound /\ [MCNext]_mcVars => FetchSound'
  <2> SUFFICES ASSUME FetchSound, [MCNext]_mcVars, which' = "fetch"
               PROVE  Fetch!FetchInv'
    BY DEF FetchSound
  <2>1. which = "fetch" /\ [Fetch!Next]_(Fetch!vars)
    BY DEF MCNext, mcVars, fetchVars, Fetch!vars
  <2> QED BY <2>1, FetchStep, FetchConstants DEF FetchSound
<1>3. FetchSound => FetchForgetsNothing
  BY FetchMeans, FetchConstants DEF FetchForgetsNothing, FetchSound
<1> QED BY <1>1, <1>2, <1>3, PTL DEF MCSpec
=============================================================================
