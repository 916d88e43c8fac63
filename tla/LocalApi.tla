------------------------------ MODULE LocalApi ------------------------------
(***************************************************************************)
(* The local HTTP API of a node (WebUiServer): the routes behind the       *)
(* network password, the throttle of wrong passwords with its bounded      *)
(* table, bodies that stall or break off, calls into the node, and the     *)
(* answer "sent" or "queued" of a message, read off the node's events.     *)
(***************************************************************************)
EXTENDS Naturals, Sequences, FiniteSets

CONSTANTS
  Addrs,        \* addresses of clients
  Local,        \* those of the machine itself
  Prefix,       \* per address, its /64, or the address itself (IPv4)
  MaxFailures, PrefixFactor, Window, MaxTracked, \* AuthFailureThrottle
  Options,      \* what the node was started with: "calls", "relays"
  Posts,        \* POST routes in use
  Reqs,         \* bound: requests past the password at one time
  MaxTime

\* What the constructor of AuthFailureThrottle sees to.
LocalApiAssumption ==
  /\ MaxFailures \in Nat \ {0} /\ PrefixFactor \in Nat \ {0}
  /\ Window \in Nat \ {0} /\ MaxTracked \in Nat \ {0}

VARIABLES
  now,
  entries,      \* the throttle: [key, count, since, limit], oldest first
  req,          \* per request [st, route, ans, first, late]
  waiters,      \* deliveryStatusWaiters, by request
  recent        \* recentDeliveryStatuses of the packets of these requests

apiVars == <<now, entries, req, waiters, recent>>

NoReq == [st |-> "free", route |-> "none", ans |-> "none", first |-> "none", late |-> FALSE]

Init ==
  /\ now = 0 /\ entries = <<>>
  /\ req = [r \in Reqs |-> NoReq] /\ waiters = {} /\ recent = [r \in Reqs |-> "none"]

-----------------------------------------------------------------------------
(* The throttle. *)

\* The address, and for IPv6 the /64 with a higher limit, in this order.
Keys(a) ==
  <<[key |-> a, limit |-> MaxFailures]>>
    \o (IF Prefix[a] = a THEN <<>> ELSE <<[key |-> Prefix[a], limit |-> MaxFailures * PrefixFactor]>>)

Entry(es, k) == {i \in DOMAIN es : es[i].key = k}

Full(e) == e.count >= e.limit

LockedFor(es, t, a) ==
  \E n \in DOMAIN Keys(a) : \E i \in Entry(es, Keys(a)[n].key) : Full(es[i]) /\ es[i].since + Window > t

\* As if the oldest entry went, whatever it says.
VictimOldest(es) == 1

\* Entries that lock nobody go first.
Victim(es) ==
  CHOOSE i \in DOMAIN es :
    /\ Full(es[i]) => \A j \in DOMAIN es : Full(es[j])
    /\ \A j \in 1..(i - 1) : Full(es[j]) /\ ~Full(es[i])

Without(es, i) == SubSeq(es, 1, i - 1) \o SubSeq(es, i + 1, Len(es))

Count(es, k) ==
  LET fresh == [key |-> k.key, count |-> 1, since |-> now, limit |-> k.limit]
      I == Entry(es, k.key)
  IN
  IF I = {} THEN Append(IF Len(es) >= MaxTracked THEN Without(es, Victim(es)) ELSE es, fresh)
  ELSE [i \in DOMAIN es |-> IF i \notin I THEN es[i]
                            ELSE IF now - es[i].since >= Window THEN fresh ELSE [es[i] EXCEPT !.count = @ + 1]]

RecordFailure(a) ==
  LET ks == Keys(a)
      one == Count(entries, ks[1])
  IN IF a \in Local THEN entries ELSE IF Len(ks) = 1 THEN one ELSE Count(one, ks[2])

RecordSuccess(a) ==
  LET I == Entry(entries, a) IN IF I = {} THEN entries ELSE Without(entries, CHOOSE i \in I : TRUE)

-----------------------------------------------------------------------------
(* A request. *)

\* The option a route is behind.
Gate(route) == IF route \in {"relays", "relay-command"} THEN "relays" ELSE "calls"

\* authorize() refuses: 401, counted; or 429 and not even compared. A request
\* without a password is answered 401 and not counted.
Refused(a) ==
  /\ entries' = IF LockedFor(entries, now, a) THEN entries ELSE RecordFailure(a)
  /\ UNCHANGED <<now, req, waiters, recent>>

\* authorize() lets a POST through; its body is awaited.
Post(r, a, route) ==
  /\ Gate(route) \in Options /\ ~LockedFor(entries, now, a)
  /\ req[r].st = "free" /\ req' = [req EXCEPT ![r] = [NoReq EXCEPT !.st = "reading", !.route = route]]
  /\ entries' = RecordSuccess(a)
  /\ UNCHANGED <<now, waiters, recent>>

\* The reads behind the password: messages, groups and their messages,
\* locations, relays, beacons. They are answered at once.
Get(a) ==
  /\ ~LockedFor(entries, now, a) /\ entries' = RecordSuccess(a)
  /\ UNCHANGED <<now, req, waiters, recent>>

Answer(r, ans) == req' = [req EXCEPT ![r] = [NoReq EXCEPT !.st = "done", !.ans = ans]]

\* readRequestBody() fails (too large, timed out, broken off), or what it read
\* is not JSON.
BodyFails(r) ==
  /\ req[r].st = "reading" /\ Answer(r, "4xx")
  /\ UNCHANGED <<now, entries, waiters, recent>>

\* The body is there: the handlers differ in what they do with it. "4xx" when a
\* field is missing or the node throws.
Read(r, route) == req[r].st = "reading" /\ req[r].route = route

Immediate(r, route) ==
  /\ Read(r, route) /\ \E ans \in {"200", "4xx"} : Answer(r, ans)
  /\ UNCHANGED <<now, entries, waiters, recent>>

HandleSendChannelMessage(r) == Immediate(r, "channel-messages")
HandleSendNodeAppend(r) == Immediate(r, "node-append")
HandleCreateGroup(r) == Immediate(r, "groups")
HandleSendGroupMessage(r) == Immediate(r, "group-messages")
HandleRegisterRelay(r) == Immediate(r, "relays")
HandleSendRelayCommand(r) == Immediate(r, "relay-command")

Awaiting(r, route) ==
  /\ Read(r, route)
  /\ \/ Answer(r, "4xx")
     \/ req' = [req EXCEPT ![r].st = "calling"]
  /\ UNCHANGED <<now, entries, waiters, recent>>

HandleCall(r) == Awaiting(r, "call")
HandleShareLocation(r) == Awaiting(r, "location-report")
HandleDiscoverPeer(r) == Awaiting(r, "discover-peer")

\* The node answers, fails, or the timer of the call ends it.
CallEnds(r) ==
  /\ req[r].st = "calling" /\ \E ans \in {"200", "5xx"} : Answer(r, ans)
  /\ UNCHANGED <<now, entries, waiters, recent>>

-----------------------------------------------------------------------------
(* "sent" or "queued". *)

\* As if nobody looked whether the event came during the send itself.
SeenIgnored(st) == "none"

AlreadySeen(st) == st

\* awaitDeliveryStatus(): a node without peers queues the packet, and says so,
\* before the send returns; the others do it later.
AwaitDeliveryStatus(r, route) ==
  /\ Read(r, route)
  /\ \/ Answer(r, "4xx") /\ UNCHANGED <<waiters, recent>>
     \/ \E at \in {"none", "queued"} :
          /\ recent' = [recent EXCEPT ![r] = at]
          /\ IF AlreadySeen(at) # "none"
             THEN req' = [req EXCEPT ![r] = [@ EXCEPT !.st = "done", !.ans = at, !.first = at]] /\ UNCHANGED waiters
             ELSE req' = [req EXCEPT ![r] = [@ EXCEPT !.st = "status", !.first = at]] /\ waiters' = waiters \cup {r}
  /\ UNCHANGED <<now, entries>>

HandleSendMessage(r) == AwaitDeliveryStatus(r, "messages")
HandleSendExternalDelivery(r) == AwaitDeliveryStatus(r, "external-delivery")

\* What the client of request r has been told first, once it is told this.
First(r, status) == IF req[r].first = "none" THEN status ELSE req[r].first

\* The node's event about the packet of this request: to its waiter, or kept.
Event(r, status) ==
  /\ req[r].route \in {"messages", "external-delivery"} /\ req[r].st \in {"status", "done"}
  /\ (req[r].first = "none" \/ status = "sent")
  /\ \/ /\ r \in waiters /\ waiters' = waiters \ {r} /\ UNCHANGED recent
        /\ req' = [req EXCEPT ![r] = [@ EXCEPT !.st = "done", !.ans = status, !.first = First(r, status)]]
     \/ /\ r \notin waiters /\ UNCHANGED waiters
        /\ recent' = [recent EXCEPT ![r] = status]
        /\ req' = [req EXCEPT ![r] = [@ EXCEPT !.first = First(r, status), !.late = req[r].late \/ req[r].first = "none"]]
  /\ UNCHANGED <<now, entries>>

\* As if the timer were given up with the waiter in place.
StatusTimerNever(r) == FALSE

StatusTimer(r) == r \in waiters

StatusTimesOut(r) ==
  /\ StatusTimer(r) /\ waiters' = waiters \ {r}
  /\ req' = [req EXCEPT ![r].st = "done", ![r].ans = "sent"]
  /\ UNCHANGED <<now, entries, recent>>

\* The answer has gone out; the number is used again.
Forget(r) ==
  /\ req[r].st = "done"
  /\ req' = [req EXCEPT ![r] = NoReq] /\ recent' = [recent EXCEPT ![r] = "none"]
  /\ UNCHANGED <<now, entries, waiters>>

Tick == now < MaxTime /\ now' = now + 1 /\ UNCHANGED <<entries, req, waiters, recent>>

Handle(r) ==
  \/ HandleSendChannelMessage(r) \/ HandleSendNodeAppend(r) \/ HandleCreateGroup(r) \/ HandleSendGroupMessage(r)
  \/ HandleRegisterRelay(r) \/ HandleSendRelayCommand(r)
  \/ HandleCall(r) \/ HandleShareLocation(r) \/ HandleDiscoverPeer(r)
  \/ HandleSendMessage(r) \/ HandleSendExternalDelivery(r)

Next ==
  \/ \E a \in Addrs : Refused(a) \/ Get(a) \/ \E r \in Reqs, route \in Posts : Post(r, a, route)
  \/ \E r \in Reqs : BodyFails(r) \/ Handle(r) \/ CallEnds(r) \/ StatusTimesOut(r) \/ Forget(r)
                     \/ \E status \in {"sent", "queued"} : Event(r, status)
  \/ Tick

\* Bodies, calls and statuses all have a timer.
Spec ==
  /\ Init /\ [][Next]_apiVars
  /\ \A r \in Reqs : WF_apiVars(BodyFails(r)) /\ WF_apiVars(CallEnds(r)) /\ WF_apiVars(StatusTimesOut(r))

-----------------------------------------------------------------------------
\* An address that is locked out stays so until its window has passed, however
\* many other addresses fail meanwhile and fill the table, unless locks are all
\* that is in the table but for the one entry that a failure may turn into one.
LockKept ==
  \A a \in Addrs : LockedFor(entries, now, a) /\ Cardinality({i \in DOMAIN entries : ~Full(entries[i])}) > 1
                     => LockedFor(entries', now, a)
LockHolds == [][LockKept]_apiVars

\* What the client is told of its message is what became of the packet, unless
\* the node had said nothing of it when the timer fired.
StatusIsEvent ==
  \A r \in Reqs : req[r].st = "done" /\ req[r].ans \in {"sent", "queued"} /\ ~req[r].late =>
                    req[r].first \in {"none", req[r].ans}

\* What makes the two hold at every step: a key has one entry, so that a failure
\* can turn one entry into a lock and no more; and who waits for a status has
\* been told none.
OneEntryEach ==
  /\ now \in Nat
  /\ entries \in Seq([key : Addrs \cup {Prefix[a] : a \in Addrs}, count : Nat, since : Nat, limit : Nat])
  /\ \A i, j \in DOMAIN entries : entries[i].key = entries[j].key => i = j

WaitersUntold ==
  /\ req \in [Reqs -> [st : {"free", "reading", "calling", "status", "done"}, route : Posts \cup {"none"},
                      ans : {"none", "200", "4xx", "5xx", "sent", "queued"},
                      first : {"none", "sent", "queued"}, late : BOOLEAN]]
  /\ waiters \subseteq {r \in Reqs : req[r].st = "status" /\ req[r].first = "none"}

ApiInv == OneEntryEach /\ WaitersUntold /\ StatusIsEvent

\* Every request that passed the password is answered.
RequestAnswered == \A r \in Reqs : [](req[r].st # "free" => <>(req[r].st \in {"done", "free"}))
=============================================================================
