------------------------------ MODULE TcpSend ------------------------------
(***************************************************************************)
(* The send path of one TCP connection: send() puts a packet in a bucketed *)
(* priority queue, drainQueue() writes the queue out one packet at a time, *)
(* and every promise send() returned is settled by it.                     *)
(*                                                                         *)
(*   node/src/transports/tcp.ts  send(), drainQueue(), writePacket()       *)
(*   node/src/priority-queue.ts  PriorityQueue                             *)
(*                                                                         *)
(* The drain loop is an async function: it runs up to its await, and goes  *)
(* on in a later step, once the write has called back.  Calls of send()    *)
(* fall in between.                                                        *)
(***************************************************************************)
EXTENDS Integers, Sequences, FiniteSetTheorems, NaturalsInduction, TLAPS

CONSTANTS
  Send,         \* the calls of send(), one packet each
  priority,     \* [Send -> Int]   packet.priority: untrusted, any integer
  Levels,       \* PRIORITY_LEVEL_COUNT
  MaxQueued,    \* MAX_QUEUED_SENDS_PER_PEER
  None

ASSUME SendAssumption ==
  /\ priority \in [Send -> Int]
  /\ Levels \in Nat \ {0}
  /\ MaxQueued \in Nat \ {0}
  /\ None \notin Send

VARIABLES
  result,    \* [Send -> "idle" | "refused" | "waiting" | "resolved" | "rejected"]
  buckets,   \* [0..Levels-1 -> Seq(Send)]
  draining,  \* SocketEntry.draining
  writing,   \* the send drainQueue() has dequeued and awaits, or None
  outcome,   \* what became of that write: "pending", "ok", "failed" or "escaped"
  alive      \* the socket is writable and not destroyed

vars == <<result, buckets, draining, writing, outcome, alive>>

Bucket == 0..(Levels - 1)

\* Mutant of BucketOf: an invalid priority goes to the front.
BucketOfFront(p) == IF p \in Bucket THEN p ELSE 0

\* PriorityQueue.enqueue(): out-of-range input is the least urgent.
BucketOf(p) == IF p \in Bucket THEN p ELSE Levels - 1

Enqueued(b, i) == [b EXCEPT ![BucketOf(priority[i])] = Append(@, i)]

Queued(b) == {i \in Send : \E k \in Bucket : \E j \in DOMAIN b[k] : b[k][j] = i}

\* PriorityQueue.size is at the bound.
Full(b) == Cardinality(Queued(b)) >= MaxQueued

\* PriorityQueue.dequeue(): the first non-empty bucket, oldest item.
FirstBucket(b) ==
  CHOOSE k \in Bucket : b[k] # <<>> /\ \A l \in Bucket : b[l] # <<>> => k <= l

IsEmpty(b) == \A k \in Bucket : b[k] = <<>>

\* Mutants of DrainOn: a dead socket ends the loop with packets still queued;
\* an empty queue ends it without clearing the flag.
DrainOnGivesUp(b, settled) ==
  IF IsEmpty(b) \/ ~alive
  THEN /\ result' = settled
       /\ buckets' = b
       /\ draining' = FALSE
       /\ writing' = None
       /\ outcome' = "ok"
  ELSE LET i == Head(b[FirstBucket(b)]) IN
       /\ result' = settled
       /\ buckets' = [b EXCEPT ![FirstBucket(b)] = Tail(@)]
       /\ draining' = TRUE
       /\ writing' = i
       /\ outcome' = "pending"

DrainOnStuck(b, settled) ==
  IF IsEmpty(b) \/ ~alive
  THEN /\ result' = [i \in Send |-> IF i \in Queued(b) THEN "rejected" ELSE settled[i]]
       /\ buckets' = [k \in Bucket |-> <<>>]
       /\ draining' = TRUE
       /\ writing' = None
       /\ outcome' = "ok"
  ELSE LET i == Head(b[FirstBucket(b)]) IN
       /\ result' = settled
       /\ buckets' = [b EXCEPT ![FirstBucket(b)] = Tail(@)]
       /\ draining' = TRUE
       /\ writing' = i
       /\ outcome' = "pending"

\* The drain loop up to its next await, from queue b: with nothing queued it
\* ends; on a dead socket it rejects all that is queued and ends; otherwise it
\* hands the next packet to the socket and awaits the write.
DrainOn(b, settled) ==
  IF IsEmpty(b) \/ ~alive
  THEN /\ result' = [i \in Send |-> IF i \in Queued(b) THEN "rejected" ELSE settled[i]]
       /\ buckets' = [k \in Bucket |-> <<>>]
       /\ draining' = FALSE
       /\ writing' = None
       /\ outcome' = "ok"
  ELSE LET i == Head(b[FirstBucket(b)]) IN
       /\ result' = settled
       /\ buckets' = [b EXCEPT ![FirstBucket(b)] = Tail(@)]
       /\ draining' = TRUE
       /\ writing' = i
       /\ outcome' = "pending"

-----------------------------------------------------------------------------
\* send() throws: the connection is gone or the queue is full.
SendRefused(i) ==
  /\ result[i] = "idle"
  /\ ~alive \/ Full(buckets)
  /\ result' = [result EXCEPT ![i] = "refused"]
  /\ UNCHANGED <<buckets, draining, writing, outcome, alive>>

\* Mutants of SendAccepted: the bound is not looked at; the loop is started
\* only for the first packet in the queue, whether one is running or not.
SendAcceptedUnbounded(i) ==
  /\ result[i] = "idle"
  /\ alive
  /\ IF draining
     THEN /\ result' = [result EXCEPT ![i] = "waiting"]
          /\ buckets' = Enqueued(buckets, i)
          /\ UNCHANGED <<draining, writing, outcome>>
     ELSE DrainOn(Enqueued(buckets, i), [result EXCEPT ![i] = "waiting"])
  /\ UNCHANGED alive

SendAcceptedReentrant(i) ==
  /\ result[i] = "idle"
  /\ alive
  /\ ~Full(buckets)
  /\ DrainOn(Enqueued(buckets, i), [result EXCEPT ![i] = "waiting"])
  /\ UNCHANGED alive

\* send() queues the packet and calls drainQueue(), which starts the loop
\* unless one is running.
SendAccepted(i) ==
  /\ result[i] = "idle"
  /\ alive
  /\ ~Full(buckets)
  /\ IF draining
     THEN /\ result' = [result EXCEPT ![i] = "waiting"]
          /\ buckets' = Enqueued(buckets, i)
          /\ UNCHANGED <<draining, writing, outcome>>
     ELSE DrainOn(Enqueued(buckets, i), [result EXCEPT ![i] = "waiting"])
  /\ UNCHANGED alive

\* The socket settles writePacket(), by its callback or by an "error" event,
\* whichever is first - or the error escapes both and ends in the handler of
\* uncaughtException, so that writePacket() never settles.  A write fails only on
\* a socket that died.
WriteEnds ==
  /\ outcome = "pending"
  /\ outcome' \in {"ok", "failed", "escaped"}
  /\ outcome' # "ok" => ~alive
  /\ UNCHANGED <<result, buckets, draining, writing, alive>>

\* The drain loop goes on after its await: it settles the send it wrote, then
\* takes the next one.
DrainResumes ==
  /\ writing # None
  /\ outcome \in {"ok", "failed"}
  /\ DrainOn(buckets, [result EXCEPT ![writing] =
                         IF outcome = "ok" THEN "resolved" ELSE "rejected"])
  /\ UNCHANGED alive

\* The connection dies or is destroyed.
SocketDies ==
  /\ alive
  /\ alive' = FALSE
  /\ UNCHANGED <<result, buckets, draining, writing, outcome>>

-----------------------------------------------------------------------------
Init ==
  /\ result = [i \in Send |-> "idle"]
  /\ buckets = [k \in Bucket |-> <<>>]
  /\ draining = FALSE
  /\ writing = None
  /\ outcome = "ok"
  /\ alive = TRUE

Next ==
  \/ \E i \in Send : SendRefused(i) \/ SendAccepted(i)
  \/ WriteEnds
  \/ DrainResumes
  \/ SocketDies

\* The socket is done with a write, in one of the ways above, and the event loop
\* resumes the async function if there is something to resume it.
Fairness == WF_vars(WriteEnds) /\ WF_vars(DrainResumes)

Spec == Init /\ [][Next]_vars /\ Fairness

-----------------------------------------------------------------------------
\* Buckets hold sends of their own priority class; a write is awaited exactly
\* while the drain loop runs.
TypeOK ==
  /\ result \in [Send -> {"idle", "refused", "waiting", "resolved", "rejected"}]
  /\ \A k \in Bucket : \A j \in DOMAIN buckets[k] :
       buckets[k][j] \in Send /\ BucketOf(priority[buckets[k][j]]) = k
  /\ draining \in BOOLEAN
  /\ writing \in Send \cup {None}
  /\ draining <=> writing # None

\* No packet waits in a queue that nobody drains: the flag that keeps a second
\* loop from starting is never left set or cleared at the wrong moment.
NoStrandedSend == IsEmpty(buckets) \/ draining

\* A send is unsettled exactly while it is queued or being written, so none
\* is forgotten, settled twice or written after it was settled.
WaitingIsHeld ==
  {i \in Send : result[i] = "waiting"}
    = Queued(buckets) \cup (IF writing = None THEN {} ELSE {writing})

\* However fast sends are produced, a peer has MaxQueued of them waiting.
QueueBounded == Cardinality(Queued(buckets)) <= MaxQueued

\* The packet handed to the socket is at least as urgent as all that wait; one
\* with an invalid priority overtakes nothing.
MostUrgentFirst ==
  [][ writing' # writing /\ writing' # None =>
        \A i \in Queued(buckets') : priority[i] \in Bucket =>
          /\ priority[writing'] \in Bucket => priority[writing'] <= priority[i]
          /\ priority[writing'] \notin Bucket => priority[i] = Levels - 1
    ]_vars

\* Every accepted send settles, written or rejected once the socket is dead, unless
\* the error of a write on its connection escaped: then the loop waits for ever, and
\* so does whoever had a send in its queue.
SendSettles ==
  \A i \in Send :
    result[i] = "waiting" ~> result[i] \in {"resolved", "rejected"} \/ outcome = "escaped"

-----------------------------------------------------------------------------
(***************************************************************************)
(* For any sends, priorities, number of levels and bound: no send is       *)
(* stranded, forgotten or settled twice, the queue is bounded, and what is *)
(* written next is the most urgent.                                        *)
(***************************************************************************)

\* Every send is in its own bucket, and there once.
Sorted(b) ==
  /\ b \in [Bucket -> Seq(Send)]
  /\ \A k \in Bucket : \A j \in 1..Len(b[k]) : BucketOf(priority[b[k][j]]) = k
  /\ \A k \in Bucket : \A i, j \in 1..Len(b[k]) : b[k][i] = b[k][j] => i = j

\* The inductive invariant: TypeOK and the two facts about the queue need each
\* other, and that a send in the buckets is there once and not being written.
Inv ==
  /\ TypeOK
  /\ Sorted(buckets)
  /\ IsFiniteSet(Queued(buckets))
  /\ alive \in BOOLEAN
  /\ outcome \in {"pending", "ok", "failed", "escaped"}
  /\ writing \notin Queued(buckets)
  /\ NoStrandedSend
  /\ WaitingIsHeld
  /\ QueueBounded

-----------------------------------------------------------------------------
\* A priority of the wire, whatever it is, names a bucket.
LEMMA BucketInRange == \A p \in Int : BucketOf(p) \in Bucket
BY SendAssumption DEF BucketOf, Bucket

\* PriorityQueue.enqueue() adds the send and keeps the buckets sorted.
LEMMA EnqueueSorted ==
  ASSUME NEW b, Sorted(b), NEW i \in Send, i \notin Queued(b)
  PROVE  /\ Sorted(Enqueued(b, i))
         /\ Queued(Enqueued(b, i)) = Queued(b) \cup {i}
<1> DEFINE k == BucketOf(priority[i])
           d == Enqueued(b, i)
<1>1. k \in Bucket
  BY BucketInRange, SendAssumption
<1>2. /\ d \in [Bucket -> Seq(Send)]
      /\ d[k] = Append(b[k], i)
      /\ \A l \in Bucket : l # k => d[l] = b[l]
  BY <1>1 DEF Sorted, Enqueued
<1>3. /\ Len(d[k]) = Len(b[k]) + 1
      /\ \A j \in 1..Len(b[k]) : d[k][j] = b[k][j]
      /\ d[k][Len(b[k]) + 1] = i
      /\ Len(b[k]) \in Nat
      /\ DOMAIN d[k] = 1..(Len(b[k]) + 1)
  BY <1>1, <1>2 DEF Sorted
<1> HIDE DEF d, k
<1>4. \A l \in Bucket : \A j \in 1..Len(d[l]) : BucketOf(priority[d[l][j]]) = l
  <2> SUFFICES ASSUME NEW l \in Bucket, NEW j \in 1..Len(d[l])
               PROVE  BucketOf(priority[d[l][j]]) = l
    OBVIOUS
  <2>1. CASE l # k
    BY <1>2, <2>1 DEF Sorted
  <2>2. CASE l = k /\ j = Len(b[k]) + 1
    BY <1>3, <2>2 DEF k
  <2>3. CASE l = k /\ j # Len(b[k]) + 1
    <3>1. j \in 1..Len(b[k])
      BY <1>3, <2>3
    <3> QED BY <1>1, <1>3, <2>3, <3>1 DEF Sorted
  <2> QED BY <2>1, <2>2, <2>3
<1>5. \A l \in Bucket : \A x, y \in 1..Len(d[l]) : d[l][x] = d[l][y] => x = y
  <2> SUFFICES ASSUME NEW l \in Bucket, NEW x \in 1..Len(d[l]), NEW y \in 1..Len(d[l]),
                      d[l][x] = d[l][y]
               PROVE  x = y
    OBVIOUS
  <2>0. \A j \in 1..Len(b[k]) : b[k][j] # i
    BY <1>1 DEF Queued, Sorted
  <2>1. CASE l # k
    BY <1>2, <2>1 DEF Sorted
  <2>2. CASE l = k
    <3>1. x \in 1..Len(b[k]) \/ x = Len(b[k]) + 1
      BY <1>3, <2>2
    <3>2. y \in 1..Len(b[k]) \/ y = Len(b[k]) + 1
      BY <1>3, <2>2
    <3>3. CASE x \in 1..Len(b[k]) /\ y \in 1..Len(b[k])
      BY <1>1, <1>3, <2>2, <3>3 DEF Sorted
    <3> QED BY <1>3, <2>0, <2>2, <3>1, <3>2, <3>3
  <2> QED BY <2>1, <2>2
<1>6. Queued(d) = Queued(b) \cup {i}
  <2>1. ASSUME NEW s \in Queued(d) PROVE s \in Queued(b) \cup {i}
    <3>1. PICK l \in Bucket : \E j \in DOMAIN d[l] : d[l][j] = s
      BY <2>1 DEF Queued
    <3>2. PICK j \in DOMAIN d[l] : d[l][j] = s
      BY <3>1
    <3>3. CASE l # k
      BY <1>2, <2>1, <3>2, <3>3 DEF Queued
    <3>4. CASE l = k
      <4>1. CASE j = Len(b[k]) + 1
        BY <1>3, <3>2, <3>4, <4>1
      <4>2. CASE j # Len(b[k]) + 1
        <5>1. j \in 1..Len(b[k]) /\ b[k][j] = s
          BY <1>3, <3>2, <3>4, <4>2
        <5>2. j \in DOMAIN b[k]
          BY <1>1, <5>1 DEF Sorted
        <5> QED BY <1>1, <2>1, <5>1, <5>2 DEF Queued
      <4> QED BY <4>1, <4>2
    <3> QED BY <3>3, <3>4
  <2>2. ASSUME NEW s \in Queued(b) PROVE s \in Queued(d)
    <3>1. PICK l \in Bucket : \E j \in DOMAIN b[l] : b[l][j] = s
      BY <2>2 DEF Queued
    <3>2. PICK j \in DOMAIN b[l] : b[l][j] = s
      BY <3>1
    <3>3. CASE l # k
      BY <1>2, <2>2, <3>2, <3>3 DEF Queued
    <3>4. CASE l = k
      <4>1. j \in 1..Len(b[k])
        BY <1>1, <3>2, <3>4 DEF Sorted
      <4> QED BY <1>1, <1>3, <2>2, <3>2, <3>4, <4>1 DEF Queued
    <3> QED BY <3>3, <3>4
  <2>3. i \in Queued(d)
    BY <1>1, <1>3 DEF Queued
  <2> QED BY <2>1, <2>2, <2>3
<1> QED BY <1>2, <1>4, <1>5, <1>6 DEF Sorted, d

\* PriorityQueue.dequeue() finds the most urgent non-empty bucket.
LEMMA FirstBucketFound ==
  ASSUME NEW b, Sorted(b), ~IsEmpty(b)
  PROVE  /\ FirstBucket(b) \in Bucket
         /\ b[FirstBucket(b)] # <<>>
         /\ \A l \in Bucket : b[l] # <<>> => FirstBucket(b) <= l
<1> DEFINE T == {k \in Bucket : b[k] # <<>>}
<1>1. T # {} /\ T \subseteq Nat
  BY SendAssumption DEF IsEmpty, Bucket
<1>2. PICK k \in T : \A l \in T : ~ (<<l, k>> \in OpToRel(<, Nat))
  <2> HIDE DEF T
  <2> QED BY <1>1, NatLessThanWellFounded, WFMin
<1>3. \A l \in T : k <= l
  <2> HIDE DEF T
  <2>1. \A l \in T : ~ (l < k)
    BY <1>1, <1>2, Zenon DEF OpToRel
  <2> QED BY <1>1, <2>1
<1>4. \E x \in Bucket : b[x] # <<>> /\ \A l \in Bucket : b[l] # <<>> => x <= l
  BY <1>3
<1> QED BY <1>4 DEF FirstBucket

\* ... and takes its oldest send out.
LEMMA DequeueSorted ==
  ASSUME NEW b, Sorted(b), ~IsEmpty(b)
  PROVE  LET k == FirstBucket(b)
             d == [b EXCEPT ![k] = Tail(@)]
         IN  /\ Sorted(d)
             /\ Head(b[k]) \in Queued(b)
             /\ Queued(d) = Queued(b) \ {Head(b[k])}
<1> DEFINE k == FirstBucket(b)
           d == [b EXCEPT ![k] = Tail(@)]
           h == Head(b[k])
<1>1. k \in Bucket /\ b[k] # <<>>
  BY FirstBucketFound
<1> HIDE DEF k
<1>2. /\ d \in [Bucket -> Seq(Send)]
      /\ d[k] = Tail(b[k])
      /\ \A l \in Bucket : l # k => d[l] = b[l]
      /\ h \in Send /\ h = b[k][1]
  BY <1>1 DEF Sorted
<1>3. /\ Len(b[k]) \in Nat \ {0}
      /\ Len(d[k]) = Len(b[k]) - 1
      /\ \A j \in 1..Len(d[k]) : d[k][j] = b[k][j + 1] /\ j + 1 \in 1..Len(b[k])
      /\ DOMAIN d[k] = 1..Len(d[k])
      /\ DOMAIN b[k] = 1..Len(b[k])
  BY <1>1, <1>2 DEF Sorted
<1> HIDE DEF d, h
<1>4. \A l \in Bucket : \A j \in 1..Len(d[l]) : BucketOf(priority[d[l][j]]) = l
  <2> SUFFICES ASSUME NEW l \in Bucket, NEW j \in 1..Len(d[l])
               PROVE  BucketOf(priority[d[l][j]]) = l
    OBVIOUS
  <2>1. CASE l # k
    BY <1>2, <2>1 DEF Sorted
  <2>2. CASE l = k
    <3>1. d[k][j] = b[k][j + 1] /\ j + 1 \in 1..Len(b[k])
      BY <1>3, <2>2
    <3> QED BY <1>1, <2>2, <3>1 DEF Sorted
  <2> QED BY <2>1, <2>2
<1>5. \A l \in Bucket : \A x, y \in 1..Len(d[l]) : d[l][x] = d[l][y] => x = y
  <2> SUFFICES ASSUME NEW l \in Bucket, NEW x \in 1..Len(d[l]), NEW y \in 1..Len(d[l]),
                      d[l][x] = d[l][y]
               PROVE  x = y
    OBVIOUS
  <2>1. CASE l # k
    BY <1>2, <2>1 DEF Sorted
  <2>2. CASE l = k
    <3>1. b[k][x + 1] = b[k][y + 1] /\ x + 1 \in 1..Len(b[k]) /\ y + 1 \in 1..Len(b[k])
      BY <1>3, <2>2
    <3>2. x + 1 = y + 1
      BY <1>1, <3>1 DEF Sorted
    <3> QED BY <1>3, <2>2, <3>2
  <2> QED BY <2>1, <2>2
<1>6. h \in Queued(b)
  BY <1>1, <1>2, <1>3 DEF Queued
<1>7. Queued(d) = Queued(b) \ {h}
  <2>1. ASSUME NEW s \in Queued(d) PROVE s \in Queued(b) \ {h}
    <3>1. PICK l \in Bucket : \E j \in DOMAIN d[l] : d[l][j] = s
      BY <2>1 DEF Queued
    <3>2. PICK j \in DOMAIN d[l] : d[l][j] = s
      BY <3>1
    <3>3. CASE l # k
      <4>1. s \in Queued(b)
        BY <1>2, <2>1, <3>2, <3>3 DEF Queued
      <4>2. BucketOf(priority[s]) = l
        <5>1. j \in 1..Len(d[l])
          BY <1>2, <3>2
        <5> QED BY <1>4, <3>2, <5>1
      <4>3. BucketOf(priority[h]) = k
        BY <1>1, <1>2, <1>3 DEF Sorted
      <4> QED BY <3>3, <4>1, <4>2, <4>3
    <3>4. CASE l = k
      <4>1. j \in 1..Len(d[k]) /\ b[k][j + 1] = s /\ j + 1 \in 1..Len(b[k]) /\ j + 1 # 1
        BY <1>3, <3>2, <3>4
      <4>2. s \in Queued(b)
        BY <1>1, <1>3, <2>1, <4>1 DEF Queued
      <4>3. s # h
        BY <1>1, <1>2, <1>3, <4>1 DEF Sorted
      <4> QED BY <4>2, <4>3
    <3> QED BY <3>3, <3>4
  <2>2. ASSUME NEW s \in Queued(b), s # h PROVE s \in Queued(d)
    <3>1. PICK l \in Bucket : \E j \in DOMAIN b[l] : b[l][j] = s
      BY <2>2 DEF Queued
    <3>2. PICK j \in DOMAIN b[l] : b[l][j] = s
      BY <3>1
    <3>3. CASE l # k
      BY <1>2, <2>2, <3>2, <3>3 DEF Queued
    <3>4. CASE l = k
      <4>1. j \in 1..Len(b[k]) /\ j # 1
        BY <1>2, <1>3, <2>2, <3>2, <3>4
      <4>2. j - 1 \in 1..Len(d[k]) /\ d[k][j - 1] = b[k][j]
        <5>1. j - 1 \in 1..Len(d[k])
          BY <1>3, <4>1
        <5>2. d[k][j - 1] = b[k][(j - 1) + 1]
          BY <1>3, <5>1
        <5>3. (j - 1) + 1 = j
          BY <4>1
        <5> QED BY <5>1, <5>2, <5>3
      <4> QED BY <1>1, <1>3, <2>2, <3>2, <3>4, <4>2 DEF Queued
    <3> QED BY <3>3, <3>4
  <2> QED BY <2>1, <2>2
<1>8. Sorted(d)
  BY <1>2, <1>4, <1>5 DEF Sorted
<1> QED BY <1>6, <1>7, <1>8 DEF k, d, h

\* The queue drainQueue() leaves behind when it ends.
LEMMA EmptySorted == Sorted([k \in Bucket |-> <<>>]) /\ Queued([k \in Bucket |-> <<>>]) = {}
BY DEF Sorted, Queued
-----------------------------------------------------------------------------
\* One round of the drain loop keeps the invariant, from buckets b that hold
\* exactly the sends that wait once the last one written has been settled.
LEMMA DrainKeepsInv ==
  ASSUME NEW b, Sorted(b), IsFiniteSet(Queued(b)),
         NEW f \in [Send -> {"idle", "refused", "waiting", "resolved", "rejected"}],
         {i \in Send : f[i] = "waiting"} = Queued(b),
         Cardinality(Queued(b)) <= MaxQueued + 1,
         alive \in BOOLEAN,
         DrainOn(b, f), UNCHANGED alive
  PROVE  Inv'
<1>1. CASE IsEmpty(b) \/ ~alive
  <2>1. /\ result' = [i \in Send |-> IF i \in Queued(b) THEN "rejected" ELSE f[i]]
        /\ buckets' = [k \in Bucket |-> <<>>]
        /\ draining' = FALSE
        /\ writing' = None
        /\ outcome' = "ok"
    BY <1>1 DEF DrainOn
  <2>2. Sorted(buckets)' /\ Queued(buckets)' = {}
    BY <2>1, EmptySorted DEF Sorted, Queued
  <2>3. TypeOK'
    <3>1. \A k \in Bucket : DOMAIN buckets'[k] = {}
      BY <2>1
    <3>2. result' \in [Send -> {"idle", "refused", "waiting", "resolved", "rejected"}]
      BY <2>1
    <3> QED BY <2>1, <3>1, <3>2 DEF TypeOK
  <2>4. WaitingIsHeld'
    BY <2>1, <2>2 DEF WaitingIsHeld
  <2>5. NoStrandedSend'
    BY <2>1 DEF NoStrandedSend, IsEmpty
  <2>6. QueueBounded' /\ IsFiniteSet(Queued(buckets))'
    BY <2>2, FS_EmptySet, SendAssumption DEF QueueBounded
  <2> QED BY <2>1, <2>2, <2>3, <2>4, <2>5, <2>6 DEF Inv
<1>2. CASE ~IsEmpty(b) /\ alive
  <2> DEFINE h == Head(b[FirstBucket(b)])
             d == [b EXCEPT ![FirstBucket(b)] = Tail(@)]
  <2>1. /\ result' = f
        /\ buckets' = d
        /\ draining' = TRUE
        /\ writing' = h
        /\ outcome' = "pending"
    BY <1>2 DEF DrainOn
  <2>2. Sorted(d) /\ h \in Queued(b) /\ Queued(d) = Queued(b) \ {h}
    BY <1>2, DequeueSorted
  <2>3. h \in Send
    BY <2>2 DEF Queued
  <2> HIDE DEF h, d
  <2>4. Sorted(buckets)' /\ Queued(buckets)' = Queued(b) \ {h}
    BY <2>1, <2>2 DEF Sorted, Queued
  <2>5. TypeOK'
    <3>1. \A k \in Bucket : DOMAIN d[k] = 1..Len(d[k]) /\ \A j \in 1..Len(d[k]) : d[k][j] \in Send
      BY <2>2 DEF Sorted
    <3>2. h # None
      BY <2>3, SendAssumption
    <3> QED BY <2>1, <2>2, <2>3, <3>1, <3>2 DEF TypeOK, Sorted
  <2>6. WaitingIsHeld'
    BY <2>1, <2>2, <2>3, <2>4, SendAssumption DEF WaitingIsHeld
  <2>7. NoStrandedSend'
    BY <2>1 DEF NoStrandedSend
  <2>8. QueueBounded' /\ IsFiniteSet(Queued(buckets))'
    <3>1. IsFiniteSet(Queued(b) \ {h}) /\ Cardinality(Queued(b) \ {h}) = Cardinality(Queued(b)) - 1
      BY <2>2, FS_RemoveElement
    <3>2. Cardinality(Queued(b)) \in Nat
      BY FS_CardinalityType
    <3> QED BY <2>4, <3>1, <3>2, SendAssumption DEF QueueBounded
  <2> QED BY <2>1, <2>4, <2>5, <2>6, <2>7, <2>8 DEF Inv
<1> QED BY <1>1, <1>2
-----------------------------------------------------------------------------
\* Nothing is queued at the start.
LEMMA InitInv == Init => Inv
<1> SUFFICES ASSUME Init PROVE Inv
  OBVIOUS
<1>1. Sorted(buckets) /\ Queued(buckets) = {}
  BY EmptySorted DEF Init
<1>2. TypeOK
  <2>1. \A k \in Bucket : DOMAIN buckets[k] = {}
    BY DEF Init
  <2> QED BY <2>1 DEF Init, TypeOK
<1>3. WaitingIsHeld /\ NoStrandedSend
  BY <1>1 DEF Init, WaitingIsHeld, NoStrandedSend, IsEmpty
<1>4. QueueBounded /\ IsFiniteSet(Queued(buckets))
  BY <1>1, FS_EmptySet, SendAssumption DEF QueueBounded
<1> QED BY <1>1, <1>2, <1>3, <1>4 DEF Inv, Init

\* Every step keeps the invariant, action by action.
LEMMA NextInv == Inv /\ [Next]_vars => Inv'
<1> SUFFICES ASSUME Inv, [Next]_vars PROVE Inv'
  OBVIOUS
<1> USE DEF Inv
<1>1. ASSUME NEW i \in Send, SendRefused(i) PROVE Inv'
  <2>1. /\ result' = [result EXCEPT ![i] = "refused"] /\ result[i] = "idle"
        /\ UNCHANGED <<buckets, draining, writing, outcome, alive>>
    BY <1>1 DEF SendRefused
  <2>2. Queued(buckets)' = Queued(buckets) /\ Sorted(buckets)'
    BY <2>1 DEF Queued, Sorted
  <2>3. TypeOK'
    BY <2>1 DEF TypeOK
  <2>4. {j \in Send : result'[j] = "waiting"} = {j \in Send : result[j] = "waiting"}
    BY <2>1 DEF TypeOK
  <2>5. WaitingIsHeld' /\ NoStrandedSend' /\ QueueBounded'
    BY <2>1, <2>2, <2>4 DEF WaitingIsHeld, NoStrandedSend, IsEmpty, QueueBounded
  <2> QED BY <2>1, <2>2, <2>3, <2>5
<1>2. ASSUME NEW i \in Send, SendAccepted(i) PROVE Inv'
  <2> DEFINE b == Enqueued(buckets, i)
             f == [result EXCEPT ![i] = "waiting"]
  <2>1. i \notin Queued(buckets)
    BY <1>2 DEF SendAccepted, WaitingIsHeld
  <2>2. Sorted(b) /\ Queued(b) = Queued(buckets) \cup {i}
    BY <2>1, EnqueueSorted
  <2>3. f \in [Send -> {"idle", "refused", "waiting", "resolved", "rejected"}]
    BY DEF TypeOK
  <2>4. {j \in Send : f[j] = "waiting"} = {j \in Send : result[j] = "waiting"} \cup {i}
    BY DEF TypeOK
  <2>5. /\ IsFiniteSet(Queued(b))
        /\ Cardinality(Queued(b)) = Cardinality(Queued(buckets)) + 1
        /\ Cardinality(Queued(buckets)) \in Nat
    BY <2>1, <2>2, FS_AddElement, FS_CardinalityType
  <2>6. Cardinality(Queued(b)) <= MaxQueued
    BY <1>2, <2>5, SendAssumption DEF SendAccepted, Full
  <2> HIDE DEF b, f
  <2>7. CASE draining
    <3>1. result' = f /\ buckets' = b /\ UNCHANGED <<draining, writing, outcome, alive>>
      BY <1>2, <2>7 DEF SendAccepted, b, f
    <3>2. Sorted(buckets)' /\ Queued(buckets)' = Queued(buckets) \cup {i}
      BY <2>2, <3>1 DEF Sorted, Queued
    <3>3. writing # i
      BY <1>2, SendAssumption DEF SendAccepted, WaitingIsHeld
    <3>4. TypeOK'
      <4>1. \A k \in Bucket : DOMAIN b[k] = 1..Len(b[k]) /\ \A j \in 1..Len(b[k]) : b[k][j] \in Send
        BY <2>2 DEF Sorted
      <4> QED BY <2>2, <2>3, <3>1, <4>1 DEF TypeOK, Sorted
    <3>5. WaitingIsHeld'
      BY <2>4, <3>1, <3>2 DEF WaitingIsHeld
    <3>6. NoStrandedSend' /\ QueueBounded' /\ IsFiniteSet(Queued(buckets))'
      BY <2>2, <2>5, <2>6, <2>7, <3>1, <3>2 DEF NoStrandedSend, QueueBounded
    <3> QED BY <3>1, <3>2, <3>3, <3>4, <3>5, <3>6
  <2>8. CASE ~draining
    <3>1. DrainOn(b, f) /\ UNCHANGED alive
      BY <1>2, <2>8 DEF SendAccepted, b, f
    <3>2. {j \in Send : f[j] = "waiting"} = Queued(b)
      BY <2>2, <2>4, <2>8 DEF WaitingIsHeld, TypeOK
    <3>3. Cardinality(Queued(b)) <= MaxQueued + 1
      BY <2>5, <2>6, SendAssumption
    <3> HIDE DEF Inv
    <3> QED BY <2>2, <2>3, <2>5, <3>1, <3>2, <3>3, DrainKeepsInv DEF Inv
  <2> QED BY <2>7, <2>8 DEF TypeOK
<1>3. ASSUME WriteEnds PROVE Inv'
  <2>1. UNCHANGED <<result, buckets, draining, writing, alive>> /\ outcome' \in {"ok", "failed", "escaped"}
    BY <1>3 DEF WriteEnds
  <2> QED BY <2>1 DEF TypeOK, Sorted, Queued, NoStrandedSend, IsEmpty, WaitingIsHeld, QueueBounded
<1>4. ASSUME DrainResumes PROVE Inv'
  <2> DEFINE f == [result EXCEPT ![writing] = IF outcome = "ok" THEN "resolved" ELSE "rejected"]
  <2>1. writing \in Send /\ DrainOn(buckets, f) /\ UNCHANGED alive
    BY <1>4 DEF DrainResumes, TypeOK
  <2>2. f \in [Send -> {"idle", "refused", "waiting", "resolved", "rejected"}]
    BY DEF TypeOK
  <2>3. {j \in Send : f[j] = "waiting"} = {j \in Send : result[j] = "waiting"} \ {writing}
    BY <2>1 DEF TypeOK
  <2>4. {j \in Send : f[j] = "waiting"} = Queued(buckets)
    BY <1>4, <2>1, <2>3 DEF WaitingIsHeld, DrainResumes
  <2>5. Cardinality(Queued(buckets)) <= MaxQueued + 1
    BY FS_CardinalityType, SendAssumption DEF QueueBounded
  <2> HIDE DEF f, Inv
  <2> QED BY <2>1, <2>2, <2>4, <2>5, DrainKeepsInv DEF Inv
<1>5. ASSUME SocketDies PROVE Inv'
  <2>1. UNCHANGED <<result, buckets, draining, writing, outcome>> /\ alive' = FALSE
    BY <1>5 DEF SocketDies
  <2>2. Queued(buckets)' = Queued(buckets) /\ Sorted(buckets)'
    BY <2>1 DEF Queued, Sorted
  <2>3. TypeOK'
    BY <2>1 DEF TypeOK
  <2>4. NoStrandedSend' /\ WaitingIsHeld' /\ QueueBounded'
    BY <2>1, <2>2 DEF NoStrandedSend, IsEmpty, WaitingIsHeld, QueueBounded
  <2> QED BY <2>1, <2>2, <2>3, <2>4
<1>6. CASE UNCHANGED vars
  BY <1>6 DEF vars, TypeOK, Sorted, Queued, NoStrandedSend, IsEmpty, WaitingIsHeld, QueueBounded
<1> QED BY <1>1, <1>2, <1>3, <1>4, <1>5, <1>6 DEF Next

\* The inductive invariant holds in every reachable state.
THEOREM Invariance == Spec => []Inv
BY InitInv, NextInv, PTL DEF Spec

\* Every variable of the send path keeps its type, for any sends and priorities.
THEOREM SendTypeCorrect == Spec => []TypeOK
<1>1. Inv => TypeOK
  BY DEF Inv
<1> QED BY <1>1, Invariance, PTL

\* No packet is left in a queue whose drain loop has ended: there is no lost
\* wake-up between send() and drainQueue().
THEOREM NoneStranded == Spec => []NoStrandedSend
<1>1. Inv => NoStrandedSend
  BY DEF Inv
<1> QED BY <1>1, Invariance, PTL

\* Exactly the sends that are queued or being written are unsettled, so that
\* drainQueue() settles every promise of send() once.
THEOREM EveryWaitingHeld == Spec => []WaitingIsHeld
<1>1. Inv => WaitingIsHeld
  BY DEF Inv
<1> QED BY <1>1, Invariance, PTL

\* The queue of a peer never holds more than MAX_QUEUED_SENDS_PER_PEER sends.
THEOREM SendQueueBounded == Spec => []QueueBounded
<1>1. Inv => QueueBounded
  BY DEF Inv
<1> QED BY <1>1, Invariance, PTL

\* What a round of the drain loop hands to the socket is in the first bucket
\* that is not empty, so nothing that stays behind is more urgent.
LEMMA DrainTakesMostUrgent ==
  ASSUME NEW b, Sorted(b), NEW f, DrainOn(b, f), writing' # None
  PROVE  \A i \in Queued(buckets') : BucketOf(priority[writing']) <= BucketOf(priority[i])
<1> DEFINE k == FirstBucket(b)
           d == [b EXCEPT ![k] = Tail(@)]
<1>1. ~IsEmpty(b) /\ alive /\ writing' = Head(b[k]) /\ buckets' = d
  BY DEF DrainOn
<1>2. k \in Bucket /\ b[k] # <<>> /\ \A l \in Bucket : b[l] # <<>> => k <= l
  BY <1>1, FirstBucketFound
<1>3. BucketOf(priority[writing']) = k
  <2>1. Head(b[k]) = b[k][1] /\ 1 \in 1..Len(b[k])
    BY <1>2 DEF Sorted
  <2> HIDE DEF k
  <2> QED BY <1>1, <1>2, <2>1 DEF Sorted
<1>4. ASSUME NEW i \in Queued(d) PROVE k <= BucketOf(priority[i])
  <2>1. i \in Queued(b)
    BY <1>1, <1>4, DequeueSorted
  <2>2. PICK l \in Bucket : \E j \in DOMAIN b[l] : b[l][j] = i
    BY <2>1 DEF Queued
  <2>3. PICK j \in DOMAIN b[l] : b[l][j] = i
    BY <2>2
  <2>4. b[l] # <<>> /\ j \in 1..Len(b[l])
    BY <2>3 DEF Sorted
  <2>5. BucketOf(priority[i]) = l
    BY <2>3, <2>4 DEF Sorted
  <2> QED BY <1>2, <2>4, <2>5
<1> QED BY <1>1, <1>3, <1>4

\* drainQueue() always writes the most urgent packet waiting, and one with an
\* invalid priority only when nothing more urgent than the last level waits.
THEOREM UrgentFirst == Spec => MostUrgentFirst
<1>1. ASSUME Inv, [Next]_vars, writing' # writing, writing' # None
      PROVE  \A i \in Queued(buckets') : priority[i] \in Bucket =>
               /\ priority[writing'] \in Bucket => priority[writing'] <= priority[i]
               /\ priority[writing'] \notin Bucket => priority[i] = Levels - 1
  <2>1. \E b, f : Sorted(b) /\ DrainOn(b, f)
    <3>1. ASSUME NEW i \in Send, SendAccepted(i) PROVE \E b, f : Sorted(b) /\ DrainOn(b, f)
      <4>1. i \notin Queued(buckets)
        BY <1>1, <3>1 DEF SendAccepted, WaitingIsHeld, Inv
      <4>2. Sorted(Enqueued(buckets, i))
        BY <1>1, <4>1, EnqueueSorted DEF Inv
      <4>3. DrainOn(Enqueued(buckets, i), [result EXCEPT ![i] = "waiting"])
        BY <1>1, <3>1 DEF SendAccepted
      <4> QED BY <4>2, <4>3
    <3>2. CASE DrainResumes
      BY <1>1, <3>2 DEF DrainResumes, Inv
    <3> QED BY <1>1, <3>1, <3>2 DEF Next, SendRefused, WriteEnds, SocketDies, vars
  <2>2. \A i \in Queued(buckets') : BucketOf(priority[writing']) <= BucketOf(priority[i])
    BY <1>1, <2>1, DrainTakesMostUrgent
  <2>3. ASSUME NEW i \in Queued(buckets'), priority[i] \in Bucket
        PROVE  /\ priority[writing'] \in Bucket => priority[writing'] <= priority[i]
               /\ priority[writing'] \notin Bucket => priority[i] = Levels - 1
    BY <2>2, <2>3, SendAssumption DEF BucketOf, Bucket
  <2> QED BY <2>3
<1>2. Inv /\ [Next]_vars =>
        [writing' # writing /\ writing' # None =>
           \A i \in Queued(buckets') : priority[i] \in Bucket =>
             /\ priority[writing'] \in Bucket => priority[writing'] <= priority[i]
             /\ priority[writing'] \notin Bucket => priority[i] = Levels - 1]_vars
  BY <1>1
<1> QED BY <1>2, Invariance, PTL DEF Spec, MostUrgentFirst
=============================================================================
