-------------------------- MODULE ExternalDelivery --------------------------
(***************************************************************************)
(* The last mile out of the mesh.  A Box keeps sealed messages for outside *)
(* organisations in an ExternalDeliveryQueue and POSTs them, one at a time *)
(* and on a timer, to a relay that decrypts each and sends it as an email, *)
(* a webhook call or a WhatsApp text.  The three relays share one shape    *)
(* and are modelled as one.  The POST has a time limit, the relay's        *)
(* handler has none, so a handler outlives the Box's patience and a retry  *)
(* may meet it half way.                                                   *)
(***************************************************************************)
EXTENDS Naturals, FiniteSetsExt, SequencesExt, FiniteSetTheorems, TLAPS

CONSTANTS
  Msgs,        \* sealed messages, by the identity both dedup keys are made of
  Size,        \* sizeBytes of each
  Rank,        \* priorityRank() of each: 0 is the most urgent
  MaxEntries,  \* maxEntries of the queue
  MaxBytes,    \* maxTotalBytes of the queue
  MaxDoubt,    \* bound: faults that may hide a send from the relay, per message
  None         \* no message

\* What the constants are assumed to be.
ExternalDeliveryAssumption ==
  /\ Size \in [Msgs -> Nat] /\ Rank \in [Msgs -> Nat]
  /\ MaxEntries \in Nat /\ MaxBytes \in Nat /\ MaxDoubt \in Nat
  /\ None \notin Msgs

VARIABLES
  queue,       \* ExternalDeliveryQueue.entries, in insertion order
  expired,     \* messages whose expiresAt has passed
  batch,       \* entries still to be attempted by attemptExternalDeliveries()
  inFlight,    \* externalDeliveryAttemptInFlight
  posting,     \* the message of the POST under way, or None
  reported,    \* messages "external-delivery:delivered" was emitted for
  answer,      \* the relay's answer to it: "none", "ok" or "fail"
  late,        \* requests the Box gave up on that the relay may still read
  handlers,    \* relay requests inside await send(): [msg, heard]
  remembered,  \* recentlyDelivered of the relay
  sends,       \* ghost: how often each message really went out
  doubt        \* ghost: faults that kept the relay from knowing about a send

vars == <<queue, expired, batch, inFlight, posting, reported, answer, late,
            handlers, remembered, sends, doubt>>

box == <<queue, expired, batch, inFlight, posting, reported, answer>>
relay == <<handlers, remembered, sends, doubt>>

Init ==
  /\ queue = <<>> /\ expired = {} /\ batch = <<>>
  /\ inFlight = FALSE /\ posting = None /\ answer = "none"
  /\ reported = {} /\ late = {}
  /\ handlers = {} /\ remembered = {}
  /\ sends = [m \in Msgs |-> 0] /\ doubt = [m \in Msgs |-> 0]

-----------------------------------------------------------------------------
(* The queue. *)

Bytes(S) == MapThenSumSet(LAMBDA m : Size[m], S)

Fits(S) == Cardinality(S) <= MaxEntries /\ Bytes(S) <= MaxBytes

\* The eviction order: the least urgent first, the oldest of those first.
EvictedBefore(q, i, j) ==
  Rank[q[i]] > Rank[q[j]] \/ (Rank[q[i]] = Rank[q[j]] /\ i < j)

\* evictWhileOverCapacity() stops as soon as the rest fits, so an entry stays
\* exactly when it fits together with all those that would be evicted after it.
Trim(q) ==
  LET Keeps(m) == \E i \in DOMAIN q :
                    /\ q[i] = m
                    /\ Fits({m} \cup {q[j] : j \in {k \in DOMAIN q : EvictedBefore(q, i, k)}})
  IN  SelectSeq(q, Keeps)

\* As if a packet id that is queued already were queued again.
EnqueueAgain(m) == Trim(Append(queue, m))

Enqueue(m) == IF Contains(queue, m) THEN queue ELSE Trim(Append(queue, m))

\* handleExternalDelivery() and ingestExternalDelivery(): a submission that passed
\* the allowlist and the password check.  The portal may offer one again, and
\* the packet id it is queued under is computed from its bytes.
Accept(m) ==
  /\ queue' = Enqueue(m)
  /\ expired' = IF Contains(queue, m) THEN expired ELSE expired \ {m}
  /\ UNCHANGED <<reported, batch, inFlight, posting, answer, late, relay>>

-----------------------------------------------------------------------------
(* attemptExternalDeliveries(). *)

\* As if an expired entry stayed in the queue.
StartAttemptsKeeping ==
  /\ ~inFlight
  /\ inFlight' = TRUE
  /\ batch' = queue
  /\ UNCHANGED <<reported, queue, expired, posting, answer, late, relay>>

StartAttempts ==
  LET Live(m) == m \notin expired IN
  /\ ~inFlight
  /\ inFlight' = TRUE
  /\ queue' = SelectSeq(queue, Live)
  /\ batch' = queue'
  /\ UNCHANGED <<reported, expired, posting, answer, late, relay>>

EndAttempts ==
  /\ inFlight /\ batch = <<>>
  /\ inFlight' = FALSE
  /\ UNCHANGED <<reported, queue, expired, batch, posting, answer, late, relay>>

Post ==
  /\ inFlight /\ batch # <<>> /\ posting = None
  /\ posting' = Head(batch)
  /\ answer' = "none"
  /\ UNCHANGED <<reported, queue, expired, batch, inFlight, late, relay>>

\* fetch() settled: only a 2xx takes the entry out of the queue.
PostAnswered ==
  /\ posting # None /\ answer # "none"
  /\ queue' = IF answer = "ok" THEN Remove(queue, posting) ELSE queue
  /\ reported' = IF answer = "ok" THEN reported \cup {posting} ELSE reported
  /\ batch' = Tail(batch) /\ posting' = None /\ answer' = "none"
  /\ UNCHANGED <<expired, inFlight, late, relay>>

\* The ten seconds are over.  A request the relay has not read yet may still
\* be in its socket's buffer; a handler that runs already runs on, unheard.
PostTimesOut ==
  /\ posting # None /\ answer = "none"
  /\ late' = IF [msg |-> posting, heard |-> TRUE] \in handlers THEN late
             ELSE late \cup {posting}
  /\ handlers' = {[h EXCEPT !.heard = FALSE] : h \in handlers}
  /\ batch' = Tail(batch) /\ posting' = None
  /\ UNCHANGED <<reported, queue, expired, inFlight, answer, remembered, sends, doubt>>

\* Bad URL, private address, refused connection, malformed or unknown to the
\* relay, not decryptable or empty: every answer but a 2xx leaves it queued.
PostFails ==
  /\ posting # None /\ answer = "none"
  /\ [msg |-> posting, heard |-> TRUE] \notin handlers
  /\ answer' = "fail"
  /\ UNCHANGED <<reported, queue, expired, batch, inFlight, posting, late, relay>>

-----------------------------------------------------------------------------
(* The relay's route(): checked against recentlyDelivered, and reserved there *)
(* before the send is awaited.                                              *)

\* As if the message were not reserved.
RouteUnreserved(m, heard) ==
  IF m \in remembered
  THEN /\ answer' = IF heard THEN "ok" ELSE answer
       /\ UNCHANGED <<handlers, remembered>>
  ELSE /\ handlers' = handlers \cup {[msg |-> m, heard |-> heard]}
       /\ UNCHANGED <<answer, remembered>>

Route(m, heard) ==
  IF m \in remembered
  THEN /\ answer' = IF heard THEN "ok" ELSE answer
       /\ UNCHANGED <<handlers, remembered>>
  ELSE /\ remembered' = remembered \cup {m}
       /\ handlers' = handlers \cup {[msg |-> m, heard |-> heard]}
       /\ UNCHANGED answer

RelayReceives ==
  /\ posting # None /\ answer = "none"
  /\ [msg |-> posting, heard |-> TRUE] \notin handlers
  /\ Route(posting, TRUE)
  /\ UNCHANGED <<reported, queue, expired, batch, inFlight, posting, late, sends, doubt>>

RelayReceivesLate(m) ==
  /\ m \in late
  /\ late' = late \ {m}
  /\ Route(m, FALSE)
  /\ UNCHANGED <<reported, queue, expired, batch, inFlight, posting, sends, doubt>>

Answer(h, a) == answer' = IF h.heard THEN a ELSE answer

SendSucceeds(h) ==
  /\ h \in handlers
  /\ handlers' = handlers \ {h}
  /\ sends' = [sends EXCEPT ![h.msg] = @ + 1]
  /\ Answer(h, "ok")
  /\ UNCHANGED <<reported, queue, expired, batch, inFlight, posting, late, remembered, doubt>>

\* The send threw and the reservation is rolled back; with delivered, the
\* provider had taken the message and only its acknowledgement was lost.
SendFails(h, delivered) ==
  /\ h \in handlers
  /\ delivered => doubt[h.msg] < MaxDoubt
  /\ handlers' = handlers \ {h}
  /\ remembered' = remembered \ {h.msg}
  /\ sends' = [sends EXCEPT ![h.msg] = IF delivered THEN @ + 1 ELSE @]
  /\ doubt' = [doubt EXCEPT ![h.msg] = IF delivered THEN @ + 1 ELSE @]
  /\ Answer(h, "fail")
  /\ UNCHANGED <<reported, queue, expired, batch, inFlight, posting, late>>

\* recentlyDelivered is a BoundedFifoMap: 500 later messages push one out.
ForgetDelivered(m) ==
  /\ m \in remembered /\ doubt[m] < MaxDoubt
  /\ remembered' = remembered \ {m}
  /\ doubt' = [doubt EXCEPT ![m] = @ + 1]
  /\ UNCHANGED <<box, late, handlers, sends>>

\* The relay's process ends and comes back: memory and handlers are gone.
RelayRestarts ==
  /\ \A m \in Msgs : doubt[m] < MaxDoubt
  /\ handlers' = {} /\ remembered' = {}
  /\ doubt' = [m \in Msgs |-> doubt[m] + 1]
  /\ answer' = IF \E h \in handlers : h.heard THEN "fail" ELSE answer
  /\ UNCHANGED <<reported, queue, expired, batch, inFlight, posting, late, sends>>

-----------------------------------------------------------------------------
(* The Box's clock and its end. *)

EntryExpires(m) ==
  /\ Contains(queue, m) /\ m \notin expired
  /\ expired' = expired \cup {m}
  /\ UNCHANGED <<reported, queue, batch, inFlight, posting, answer, late, relay>>

\* The queue lives in memory.  What the Box was sending, the relay may read.
BoxLosesQueue ==
  /\ queue' = <<>> /\ batch' = <<>> /\ inFlight' = FALSE
  /\ expired' = {} /\ posting' = None /\ answer' = "none"
  /\ late' = IF posting = None \/ answer # "none"
                \/ [msg |-> posting, heard |-> TRUE] \in handlers
             THEN late ELSE late \cup {posting}
  /\ handlers' = {[h EXCEPT !.heard = FALSE] : h \in handlers}
  /\ UNCHANGED <<reported, remembered, sends, doubt>>

BoxStep == StartAttempts \/ EndAttempts \/ Post \/ PostAnswered \/ PostTimesOut \/ PostFails

RelayStep ==
  \/ RelayReceives
  \/ \E m \in Msgs : RelayReceivesLate(m)
  \/ \E h \in handlers : SendSucceeds(h) \/ \E delivered \in BOOLEAN : SendFails(h, delivered)

Fault == BoxLosesQueue \/ RelayRestarts \/ \E m \in Msgs : EntryExpires(m) \/ ForgetDelivered(m)

Next == BoxStep \/ RelayStep \/ Fault \/ \E m \in Msgs : Accept(m)

\* cli.ts drives the attempts with setInterval, fetch() has a time limit, and
\* time passes.  Nothing is assumed of the relay.
Fairness ==
  /\ WF_vars(StartAttempts) /\ WF_vars(EndAttempts) /\ WF_vars(Post)
  /\ WF_vars(PostAnswered \/ PostTimesOut)
  /\ \A m \in Msgs : WF_vars(EntryExpires(m))

Spec == Init /\ [][Next]_vars /\ Fairness

-----------------------------------------------------------------------------
TypeOK ==
  /\ queue \in Seq(Msgs) /\ batch \in Seq(Msgs)
  /\ reported \subseteq Msgs /\ expired \subseteq Msgs /\ late \subseteq Msgs /\ remembered \subseteq Msgs
  /\ inFlight \in BOOLEAN /\ posting \in Msgs \cup {None}
  /\ answer \in {"none", "ok", "fail"}
  /\ handlers \subseteq [msg : Msgs, heard : BOOLEAN]
  /\ sends \in [Msgs -> Nat] /\ doubt \in [Msgs -> Nat]

\* A message goes out a second time only after a fault that hid the first send
\* from the relay: the POST that is retried after a time-out, the submission
\* that comes again through the portal and a retry that meets its own earlier
\* handler are all absorbed by the reservation made before the await in
\* route().
SentOnceUnlessInDoubt == \A m \in Msgs : sends[m] <= 1 + doubt[m]

\* What the Box reports as delivered and drops from its queue went out.
DeliveredWasSent ==
  \A m \in reported : sends[m] > 0 \/ \E h \in handlers : h.msg = m

\* ExternalDeliveryQueue keeps within both of its limits whatever comes in, and
\* holds a message once.
QueueFits == Fits(ToSet(queue)) /\ IsInjective(queue)

\* Whatever the relay does, no message occupies the Box for ever: each entry is
\* delivered, evicted, expired or lost with the process.
QueueDrains == \A m \in Msgs : Contains(queue, m) ~> ~Contains(queue, m)

-----------------------------------------------------------------------------
(***************************************************************************)
(* For any messages, queue limits and number of faults: a message goes out *)
(* again only after a fault that hid the first send from the relay.        *)
(***************************************************************************)

\* The relay requests that are sending m.
Sending(m) == {h \in handlers : h.msg = m}

\* Every running send counts as one that will go out, and what the relay
\* forgot, or never heard of, has left room for one more.
SendsAccounted ==
  /\ sends \in [Msgs -> Nat] /\ doubt \in [Msgs -> Nat]
  /\ IsFiniteSet(handlers) /\ \A h \in handlers : h \in [msg : {h.msg}, heard : BOOLEAN]
  /\ \A m \in Msgs : sends[m] + Cardinality(Sending(m)) <= IF m \in remembered THEN 1 + doubt[m] ELSE doubt[m]

LEMMA SendingFinite ==
  ASSUME SendsAccounted, NEW m
  PROVE  IsFiniteSet(Sending(m)) /\ Cardinality(Sending(m)) \in Nat
BY FS_Subset, FS_CardinalityType DEF SendsAccounted, Sending

\* What the invariant needs of a step, message by message.
Accounted(m) ==
  sends'[m] + Cardinality(Sending(m)') <= IF m \in remembered' THEN 1 + doubt'[m] ELSE doubt'[m]

LEMMA RouteAccounts ==
  ASSUME SendsAccounted, NEW n, NEW heard \in BOOLEAN, Route(n, heard), UNCHANGED <<sends, doubt>>
  PROVE  SendsAccounted'
<1>1. CASE n \in remembered
  <2>1. UNCHANGED <<handlers, remembered>>
    BY <1>1 DEF Route
  <2> QED BY <2>1 DEF SendsAccounted, Sending
<1>2. CASE n \notin remembered
  <2> DEFINE h == [msg |-> n, heard |-> heard]
  <2>1. remembered' = remembered \cup {n} /\ handlers' = handlers \cup {h}
    BY <1>2 DEF Route
  <2>2. h \in [msg : {h.msg}, heard : BOOLEAN] /\ h.msg = n
    OBVIOUS
  <2> HIDE DEF h
  <2>3. IsFiniteSet(handlers') /\ \A x \in handlers' : x \in [msg : {x.msg}, heard : BOOLEAN]
    BY <2>1, <2>2, FS_AddElement DEF SendsAccounted
  <2>4. ASSUME NEW m \in Msgs
        PROVE  Accounted(m)
    <3>1. IsFiniteSet(Sending(m)) /\ Cardinality(Sending(m)) \in Nat
      BY SendingFinite
    <3>2. sends[m] \in Nat /\ doubt[m] \in Nat
      BY DEF SendsAccounted
    <3>3. CASE m = n
      <4>1. Sending(m)' = Sending(m) \cup {h}
        BY <2>1, <2>2, <3>3 DEF Sending
      <4>2. /\ Cardinality(Sending(m) \cup {h}) <= Cardinality(Sending(m)) + 1
            /\ Cardinality(Sending(m) \cup {h}) \in Nat
        <5>1. /\ IsFiniteSet(Sending(m) \cup {h})
              /\ Cardinality(Sending(m) \cup {h})
                   = IF h \in Sending(m) THEN Cardinality(Sending(m)) ELSE Cardinality(Sending(m)) + 1
          BY <3>1, FS_AddElement
        <5> QED BY <3>1, <5>1, FS_CardinalityType
      <4>3. sends[m] + Cardinality(Sending(m)) <= doubt[m]
        BY <1>2, <3>3 DEF SendsAccounted
      <4> QED BY <2>1, <3>1, <3>2, <3>3, <4>1, <4>2, <4>3 DEF Accounted
    <3>4. CASE m # n
      <4>1. Sending(m)' = Sending(m) /\ (m \in remembered' <=> m \in remembered)
        BY <2>1, <2>2, <3>4 DEF Sending
      <4> QED BY <4>1 DEF Accounted, SendsAccounted
    <3> QED BY <3>3, <3>4
  <2> QED BY <2>3, <2>4 DEF SendsAccounted, Accounted
<1> QED BY <1>1, <1>2

\* The Box no longer listens: no handler appears.
LEMMA UnheardAccounts ==
  ASSUME SendsAccounted, handlers' = {[h EXCEPT !.heard = FALSE] : h \in handlers},
         UNCHANGED <<remembered, sends, doubt>>
  PROVE  SendsAccounted'
<1> DEFINE Unheard(h) == [h EXCEPT !.heard = FALSE]
           f == [h \in handlers |-> Unheard(h)]
<1>1. \A h \in handlers : Unheard(h) \in [msg : {h.msg}, heard : BOOLEAN] /\ Unheard(h).msg = h.msg
  BY DEF SendsAccounted
<1>2. f \in Surjection(handlers, handlers')
  BY DEF Surjection
<1>3. IsFiniteSet(handlers') /\ \A x \in handlers' : x \in [msg : {x.msg}, heard : BOOLEAN]
  BY <1>1, <1>2, FS_Surjection DEF SendsAccounted
<1>4. ASSUME NEW m \in Msgs
      PROVE  Accounted(m)
  <2> DEFINE g == [h \in Sending(m) |-> Unheard(h)]
  <2>1. Sending(m)' = {Unheard(h) : h \in Sending(m)}
    BY <1>1 DEF Sending
  <2>2. g \in Surjection(Sending(m), Sending(m)')
    BY <2>1 DEF Surjection
  <2>3. IsFiniteSet(Sending(m)) /\ Cardinality(Sending(m)) \in Nat
    BY SendingFinite
  <2>4. IsFiniteSet(Sending(m)') /\ Cardinality(Sending(m)') <= Cardinality(Sending(m))
    BY <2>2, <2>3, FS_Surjection
  <2>5. Cardinality(Sending(m)') \in Nat
    BY <2>4, FS_CardinalityType
  <2>6. sends[m] \in Nat /\ doubt[m] \in Nat
    BY DEF SendsAccounted
  <2> QED BY <2>3, <2>4, <2>5, <2>6 DEF Accounted, SendsAccounted
<1> QED BY <1>3, <1>4 DEF SendsAccounted, Accounted

\* A send ends: it went out, or it is in doubt, or the relay knows it did not.
LEMMA SendEnds ==
  ASSUME SendsAccounted, NEW h \in handlers,
         SendSucceeds(h) \/ \E delivered \in BOOLEAN : SendFails(h, delivered)
  PROVE  SendsAccounted'
<1>1. handlers' = handlers \ {h}
  BY DEF SendsAccounted, SendSucceeds, SendFails
<1>2. IsFiniteSet(handlers')
  BY <1>1, FS_RemoveElement DEF SendsAccounted
<1>3. \/ /\ UNCHANGED <<remembered, doubt>>
         /\ sends' = [sends EXCEPT ![h.msg] = sends[h.msg] + 1]
      \/ /\ remembered' = remembered \ {h.msg} /\ UNCHANGED <<sends, doubt>>
      \/ /\ remembered' = remembered \ {h.msg}
         /\ sends' = [sends EXCEPT ![h.msg] = sends[h.msg] + 1]
         /\ doubt' = [doubt EXCEPT ![h.msg] = doubt[h.msg] + 1]
  <2>1. CASE SendSucceeds(h)
    BY <2>1 DEF SendSucceeds
  <2>2. ASSUME SendFails(h, TRUE)
        PROVE  <1>3
    BY <2>2 DEF SendFails
  <2>3. ASSUME SendFails(h, FALSE)
        PROVE  <1>3
    BY <2>3 DEF SendFails, SendsAccounted
  <2> QED BY <2>1, <2>2, <2>3
<1>4. sends' \in [Msgs -> Nat] /\ doubt' \in [Msgs -> Nat]
  BY <1>1, <1>3 DEF SendsAccounted
<1>5. ASSUME NEW m \in Msgs
      PROVE  Accounted(m)
  <2>1. /\ IsFiniteSet(Sending(m)) /\ Cardinality(Sending(m)) \in Nat
        /\ sends[m] \in Nat /\ doubt[m] \in Nat
        /\ sends[m] + Cardinality(Sending(m)) <= 1 + doubt[m]
    BY SendingFinite DEF SendsAccounted
  <2>2. CASE m = h.msg
    <3>1. h \in Sending(m) /\ Sending(m)' = Sending(m) \ {h}
      BY <1>1, <2>2 DEF Sending
    <3>2. Cardinality(Sending(m)') = Cardinality(Sending(m)) - 1
      BY <2>1, <3>1, FS_RemoveElement
    <3>3. /\ sends'[m] \in Nat /\ doubt'[m] \in Nat
          /\ \/ /\ sends'[m] = sends[m] + 1 /\ doubt'[m] = doubt[m]
                /\ (m \in remembered' <=> m \in remembered)
             \/ m \notin remembered' /\ sends'[m] = sends[m] /\ doubt'[m] = doubt[m]
             \/ m \notin remembered' /\ sends'[m] = sends[m] + 1 /\ doubt'[m] = doubt[m] + 1
      BY <1>1, <1>3, <1>4, <2>2 DEF SendsAccounted
    <3>4. sends[m] + Cardinality(Sending(m)) <= IF m \in remembered THEN 1 + doubt[m] ELSE doubt[m]
      BY DEF SendsAccounted
    <3> QED BY <2>1, <3>2, <3>3, <3>4 DEF Accounted
  <2>3. CASE m # h.msg
    <3>1. Sending(m)' = Sending(m)
      BY <1>1, <2>3 DEF Sending
    <3>2. sends'[m] = sends[m] /\ doubt'[m] = doubt[m] /\ (m \in remembered' <=> m \in remembered)
      BY <1>1, <1>3, <2>3 DEF SendsAccounted
    <3> QED BY <3>1, <3>2 DEF Accounted, SendsAccounted
  <2> QED BY <2>2, <2>3
<1> QED BY <1>1, <1>2, <1>4, <1>5 DEF SendsAccounted, Accounted

\* The relay forgets one message, or all of them with its handlers.
LEMMA ForgettingAccounts ==
  ASSUME SendsAccounted, RelayRestarts \/ \E m \in Msgs : ForgetDelivered(m)
  PROVE  SendsAccounted'
<1>1. CASE RelayRestarts
  <2>1. /\ handlers' = {} /\ remembered' = {} /\ doubt' = [m \in Msgs |-> doubt[m] + 1]
        /\ UNCHANGED sends
    BY <1>1 DEF RelayRestarts
  <2>2. ASSUME NEW m \in Msgs
        PROVE  Accounted(m)
    <3>1. Sending(m)' = {}
      BY <2>1 DEF Sending
    <3>2. Cardinality(Sending(m)') = 0
      BY <3>1, FS_EmptySet
    <3>3. /\ Cardinality(Sending(m)) \in Nat /\ sends[m] \in Nat /\ doubt[m] \in Nat
          /\ sends[m] + Cardinality(Sending(m)) <= 1 + doubt[m]
      BY SendingFinite DEF SendsAccounted
    <3> QED BY <2>1, <3>2, <3>3 DEF Accounted
  <2>3. doubt' \in [Msgs -> Nat] /\ IsFiniteSet(handlers')
    BY <2>1, FS_EmptySet DEF SendsAccounted
  <2> QED BY <2>1, <2>2, <2>3 DEF SendsAccounted, Accounted
<1>2. ASSUME NEW n \in Msgs, ForgetDelivered(n)
      PROVE  SendsAccounted'
  <2>1. /\ remembered' = remembered \ {n} /\ doubt' = [doubt EXCEPT ![n] = doubt[n] + 1]
        /\ UNCHANGED <<handlers, sends>>
    BY <1>2 DEF ForgetDelivered, box
  <2>2. ASSUME NEW m \in Msgs
        PROVE  Accounted(m)
    <3>1. /\ Cardinality(Sending(m)) \in Nat /\ sends[m] \in Nat /\ doubt[m] \in Nat
          /\ sends[m] + Cardinality(Sending(m)) <= 1 + doubt[m]
      BY SendingFinite DEF SendsAccounted
    <3>3. Sending(m)' = Sending(m)
      BY <2>1 DEF Sending
    <3>2. IF m = n THEN m \notin remembered' /\ doubt'[m] = doubt[m] + 1
          ELSE (m \in remembered' <=> m \in remembered) /\ doubt'[m] = doubt[m]
      BY <2>1 DEF SendsAccounted
    <3> QED BY <2>1, <3>1, <3>2, <3>3 DEF Accounted, SendsAccounted
  <2>3. doubt' \in [Msgs -> Nat]
    BY <2>1 DEF SendsAccounted
  <2> QED BY <2>1, <2>2, <2>3 DEF SendsAccounted, Accounted
<1> QED BY <1>1, <1>2

LEMMA AccountedSteps ==
  ASSUME SendsAccounted, [Next]_vars
  PROVE  SendsAccounted'
<1>1. ASSUME UNCHANGED relay
      PROVE  SendsAccounted'
  BY <1>1 DEF SendsAccounted, Sending, relay
<1>2. ASSUME NEW m \in Msgs, Accept(m) \/ EntryExpires(m)
      PROVE  SendsAccounted'
  BY <1>1, <1>2 DEF Accept, EntryExpires
<1>3. CASE StartAttempts \/ EndAttempts \/ Post \/ PostAnswered \/ PostFails
  BY <1>1, <1>3 DEF StartAttempts, EndAttempts, Post, PostAnswered, PostFails
<1>4. CASE PostTimesOut \/ BoxLosesQueue
  BY <1>4, UnheardAccounts DEF PostTimesOut, BoxLosesQueue
<1>5. CASE RelayReceives
  BY <1>5, RouteAccounts DEF RelayReceives
<1>6. ASSUME NEW m \in Msgs, RelayReceivesLate(m)
      PROVE  SendsAccounted'
  BY <1>6, RouteAccounts DEF RelayReceivesLate
<1>7. ASSUME NEW h \in handlers, SendSucceeds(h) \/ \E delivered \in BOOLEAN : SendFails(h, delivered)
      PROVE  SendsAccounted'
  BY <1>7, SendEnds
<1>8. CASE UNCHANGED vars
  BY <1>1, <1>8 DEF vars, relay
<1> QED BY <1>2, <1>3, <1>4, <1>5, <1>6, <1>7, <1>8, ForgettingAccounts
        DEF Next, BoxStep, RelayStep, Fault

\* A message goes out a second time only after a fault that hid the first send
\* from the relay, for any number of messages, retries, late requests and faults.
THEOREM SentOnce == Spec => []SentOnceUnlessInDoubt
<1>1. Init => SendsAccounted
  <2> SUFFICES ASSUME Init
               PROVE  SendsAccounted
    OBVIOUS
  <2>1. handlers = {} /\ sends = [m \in Msgs |-> 0] /\ doubt = [m \in Msgs |-> 0] /\ remembered = {}
    BY DEF Init
  <2>2. \A m : Cardinality(Sending(m)) = 0
    BY <2>1, FS_EmptySet DEF Sending
  <2> QED BY <2>1, <2>2, FS_EmptySet DEF SendsAccounted
<1>2. SendsAccounted /\ [Next]_vars => SendsAccounted'
  BY AccountedSteps
<1>3. SendsAccounted => SentOnceUnlessInDoubt
  <2> SUFFICES ASSUME SendsAccounted, NEW m \in Msgs
               PROVE  sends[m] <= 1 + doubt[m]
    BY DEF SentOnceUnlessInDoubt
  <2>1. Cardinality(Sending(m)) \in Nat /\ sends[m] \in Nat /\ doubt[m] \in Nat
    BY SendingFinite DEF SendsAccounted
  <2> QED BY <2>1 DEF SendsAccounted
<1> QED BY <1>1, <1>2, <1>3, PTL DEF Spec
=============================================================================
