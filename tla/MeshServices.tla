---------------------------- MODULE MeshServices ----------------------------
(***************************************************************************)
(* Services over the mesh: nodes register and withdraw one service, a      *)
(* caller discovers a provider and calls it, or reports its position to    *)
(* it, while announcements, queries, answers and reports overtake one      *)
(* another or are lost, handlers hang, timers fire and the caller stops.   *)
(***************************************************************************)
EXTENDS Naturals, Sequences, FiniteSets, SequencesExt

CONSTANTS
  Self,         \* the caller
  Remotes,      \* the other nodes
  Calls,        \* callService()
  Shares,       \* shareLocation(), reportRelayTelemetry(): 1, 2, ... in order
  Skew,         \* how far the caller's clock is ahead of the registry's
  MaxTime,      \* bound: readings of the clock
  MaxAnnounced, \* bound: announcements
  MaxLost       \* bound: packets lost

\* The reports of the caller are numbered in the order it makes them; the caller is
\* no provider to itself.
MeshServicesAssumption ==
  /\ Shares \subseteq Nat \ {0} /\ Calls \cap Shares = {}
  /\ Self \notin Remotes

VARIABLES
  now, local,   \* per node, its own announcement [avail, at, n], n counting them
  services,     \* the caller's directory: [p, avail, at, n], oldest entry first
  task,         \* per call or share [st, to, timer]
  net,          \* packets under way
  handling,     \* <<call, node>>: handlers running
  started,
  slot,         \* per node, the report it has on file [k, at]
  lost, tied    \* history: two announcements of one node in one millisecond

svcVars == <<now, local, services, task, net, handling, started, slot, lost, tied>>

Nodes == Remotes \cup {Self}
Tasks == Calls \cup Shares
Unregistered == [avail |-> FALSE, at |-> 0, n |-> 0]
NoTask == [st |-> "none", to |-> Self, timer |-> FALSE]
Pending == {"discovering", "waiting", "local"}

Init ==
  /\ now = 1 /\ local = [p \in Nodes |-> Unregistered] /\ services = <<>>
  /\ task = [k \in Tasks |-> NoTask] /\ net = {} /\ handling = {} /\ started = TRUE
  /\ slot = [p \in Remotes |-> [k |-> 0, at |-> 0]] /\ lost = 0 /\ tied = FALSE

-----------------------------------------------------------------------------
(* Announcements. *)

Ann(p, a) == [t |-> "announce", p |-> p, avail |-> a.avail, at |-> a.at, n |-> a.n]

\* registerService(), setServiceAvailability(): signed at Date.now(), flooded.
Announce(p, avail) ==
  LET a == [avail |-> avail, at |-> now, n |-> local[p].n + 1] IN
  /\ local[p].n < MaxAnnounced /\ (avail \/ local[p].n > 0)
  /\ local' = [local EXCEPT ![p] = a]
  /\ tied' = (tied \/ local[p].at = now)
  /\ net' = net \cup {Ann(p, a)}
  /\ UNCHANGED <<now, services, task, handling, started, slot, lost>>

\* The same on the caller itself, whose own announcements it never compares.
AnnounceOwn(avail) ==
  /\ local[Self].avail # avail
  /\ local' = [local EXCEPT ![Self].avail = avail]
  /\ UNCHANGED <<now, services, task, net, handling, started, slot, lost, tied>>

\* As if the last to arrive were always right.
RecordAny(dir, a) ==
  LET e == [p |-> a.p, avail |-> a.avail, at |-> a.at, n |-> a.n]
      I == {i \in DOMAIN dir : dir[i].p = a.p}
  IN IF I = {} THEN Append(dir, e) ELSE [i \in DOMAIN dir |-> IF i \in I THEN e ELSE dir[i]]

Record(dir, a) ==
  IF \E i \in DOMAIN dir : dir[i].p = a.p /\ dir[i].at > a.at THEN dir ELSE RecordAny(dir, a)

ProvidersFor(dir) == SelectSeq(dir, LAMBDA e : e.avail)

-----------------------------------------------------------------------------
(* The caller. *)

\* What follows once a provider is known: the request, or the report.
Sent(k, p) ==
  IF k \in Calls THEN {[t |-> "request", k |-> k, p |-> p]}
                 ELSE {[t |-> "report", k |-> k, p |-> p, at |-> now + Skew]}

Going(k, p) ==
  IF k \in Calls THEN [st |-> "waiting", to |-> p, timer |-> TRUE]
                 ELSE [st |-> "done", to |-> p, timer |-> FALSE]

\* callService(), shareLocation() and reportRelayTelemetry(), in program order:
\* a share to oneself has no key to be sealed with.
Start(k) ==
  LET known == ProvidersFor(services) IN
  /\ started /\ task[k].st = "none" /\ \A j \in Shares : k \in Shares /\ j < k => task[j].st # "none"
  /\ \/ /\ local[Self].avail
        /\ task' = [task EXCEPT ![k] = [st |-> IF k \in Calls THEN "local" ELSE "failed", to |-> Self, timer |-> k \in Calls]]
        /\ handling' = IF k \in Calls THEN handling \cup {<<k, Self>>} ELSE handling
        /\ UNCHANGED net
     \/ /\ ~local[Self].avail /\ known # <<>>
        /\ task' = [task EXCEPT ![k] = Going(k, known[1].p)]
        /\ net' = net \cup Sent(k, known[1].p) /\ UNCHANGED handling
     \/ /\ ~local[Self].avail /\ known = <<>>
        /\ task' = [task EXCEPT ![k] = [st |-> "discovering", to |-> Self, timer |-> TRUE]]
        /\ net' = net \cup {[t |-> "query", k |-> k, p |-> p] : p \in Remotes}
        /\ UNCHANGED handling
  /\ UNCHANGED <<now, local, services, started, slot, lost, tied>>

\* As if the timer went before the provider is looked up.
AnnouncedEager(k, dir) ==
  IF ProvidersFor(dir) # <<>> THEN Going(k, ProvidersFor(dir)[1].p) ELSE [task[k] EXCEPT !.timer = FALSE]

\* The listener of discoverService() on "service:announced".
Announced(k, dir) ==
  IF ProvidersFor(dir) # <<>> THEN Going(k, ProvidersFor(dir)[1].p) ELSE task[k]

\* recordServiceAnnouncement(), from an announcement or a discovery reply.
HandleServiceAnnounce(a) ==
  LET dir == Record(services, a)
      heard == {k \in Tasks : task[k].st = "discovering"}
  IN
  /\ a \in net /\ a.t = "announce" /\ started
  /\ services' = dir
  /\ task' = [k \in Tasks |-> IF k \in heard THEN Announced(k, dir) ELSE task[k]]
  /\ net' = (net \ {a}) \cup UNION {Sent(k, ProvidersFor(dir)[1].p) : k \in {j \in heard : ProvidersFor(dir) # <<>>}}
  /\ UNCHANGED <<now, local, handling, started, slot, lost, tied>>

HandleServiceResponse(r) ==
  /\ r \in net /\ r.t = "reply" /\ started
  /\ net' = net \ {r}
  /\ task' = IF task[r.k].st = "waiting" /\ task[r.k].to = r.p
             THEN [task EXCEPT ![r.k].st = IF r.ok THEN "done" ELSE "failed", ![r.k].timer = FALSE] ELSE task
  /\ UNCHANGED <<now, local, services, handling, started, slot, lost, tied>>

Timeout(k) ==
  /\ task[k].st \in Pending /\ task[k].timer
  /\ task' = [task EXCEPT ![k].st = "failed", ![k].timer = FALSE]
  /\ UNCHANGED <<now, local, services, net, handling, started, slot, lost, tied>>

\* stop(): calls are rejected, a discovery is left to its timer.
Stop ==
  /\ started /\ started' = FALSE
  /\ task' = [k \in Tasks |-> IF task[k].st \in {"waiting", "local"}
                              THEN [task[k] EXCEPT !.st = "failed", !.timer = FALSE] ELSE task[k]]
  /\ UNCHANGED <<now, local, services, net, handling, slot, lost, tied>>

-----------------------------------------------------------------------------
(* The providers. *)

HandleServiceQuery(q) ==
  /\ q \in net /\ q.t = "query"
  /\ net' = (net \ {q}) \cup (IF local[q.p].avail THEN {Ann(q.p, local[q.p])} ELSE {})
  /\ UNCHANGED <<now, local, services, task, handling, started, slot, lost, tied>>

Reply(k, p, ok) == [t |-> "reply", k |-> k, p |-> p, ok |-> ok]

HandleServiceRequest(r) ==
  /\ r \in net /\ r.t = "request"
  /\ \/ local[r.p].avail /\ handling' = handling \cup {<<r.k, r.p>>} /\ net' = net \ {r}
     \/ ~local[r.p].avail /\ net' = (net \ {r}) \cup {Reply(r.k, r.p, FALSE)} /\ UNCHANGED handling
  /\ UNCHANGED <<now, local, services, task, started, slot, lost, tied>>

\* A handler that hangs never gets here.
HandlerEnds(k, p, ok) ==
  /\ <<k, p>> \in handling /\ handling' = handling \ {<<k, p>>}
  /\ \/ p # Self /\ net' = net \cup {Reply(k, p, ok)} /\ UNCHANGED task
     \/ /\ p = Self /\ UNCHANGED net
        /\ task' = IF task[k].st = "local"
                   THEN [task EXCEPT ![k].st = IF ok THEN "done" ELSE "failed", ![k].timer = FALSE] ELSE task
  /\ UNCHANGED <<now, local, services, started, slot, lost, tied>>

\* As if a report were filed as it comes.
FileAny(s, k, at) == [k |-> k, at |-> at]

\* LocationRegistry.record() and RelayRegistry.recordTelemetry().
File(s, k, at) ==
  LET clamped == IF at < now THEN at ELSE now IN
  IF s.k # 0 /\ s.at >= clamped THEN s ELSE [k |-> k, at |-> clamped]

HandleReport(r) ==
  /\ r \in net /\ r.t = "report"
  /\ net' = net \ {r}
  /\ slot' = [slot EXCEPT ![r.p] = File(@, r.k, r.at)]
  /\ UNCHANGED <<now, local, services, task, handling, started, lost, tied>>

-----------------------------------------------------------------------------
Lose(x) ==
  /\ x \in net /\ lost < MaxLost /\ lost' = lost + 1
  /\ net' = net \ {x}
  /\ UNCHANGED <<now, local, services, task, handling, started, slot, tied>>

Tick ==
  /\ now < MaxTime /\ now' = now + 1
  /\ UNCHANGED <<local, services, task, net, handling, started, slot, lost, tied>>

Next ==
  \/ \E avail \in BOOLEAN : AnnounceOwn(avail) \/ \E p \in Remotes : Announce(p, avail)
  \/ \E k \in Tasks : Start(k) \/ Timeout(k)
  \/ \E x \in net : HandleServiceAnnounce(x) \/ HandleServiceResponse(x) \/ HandleServiceQuery(x)
                    \/ HandleServiceRequest(x) \/ HandleReport(x) \/ Lose(x)
  \/ \E k \in Calls, p \in Nodes, ok \in BOOLEAN : HandlerEnds(k, p, ok)
  \/ Stop \/ Tick

Spec == Init /\ [][Next]_svcVars /\ \A k \in Tasks : WF_svcVars(Timeout(k))

-----------------------------------------------------------------------------
\* Once every packet has arrived the caller's directory says of every provider
\* what that provider said last, in whatever order the announcements came.
DirectoryCurrent ==
  started /\ lost = 0 /\ ~tied /\ net = {} =>
    \A i \in DOMAIN services : services[i].n = local[services[i].p].n

\* What makes it so at every step: until a packet is lost or two announcements are
\* of one millisecond, what a provider said last is on its way or in the directory,
\* and what it said before is older by its own clock.
Dated(a) ==
  /\ a.p \in Remotes /\ a.n \in 1..local[a.p].n
  /\ a.n = local[a.p].n => a.avail = local[a.p].avail /\ a.at = local[a.p].at
  /\ ~tied /\ a.n < local[a.p].n => a.at < local[a.p].at

SaidLast(p) ==
  \/ Ann(p, local[p]) \in net
  \/ \E i \in DOMAIN services : services[i].p = p /\ \A j \in DOMAIN services : services[j].p = p => services[j].n = local[p].n

DirectoryInv ==
  /\ now \in Nat \ {0} /\ lost \in Nat /\ tied \in BOOLEAN
  /\ local \in [Nodes -> [avail : BOOLEAN, at : 0..now, n : Nat]]
  /\ \A p \in Remotes : local[p].avail => local[p].n > 0
  /\ \A x \in net : x.t = "query" => x.p \in Remotes
  /\ services \in Seq([p : Remotes, avail : BOOLEAN, at : 0..now, n : Nat])
  /\ \A i \in DOMAIN services : Dated(services[i])
  /\ \A a \in net : a.t = "announce" => a \in [t : {"announce"}, p : Remotes, avail : BOOLEAN, at : 0..now, n : Nat] /\ Dated(a)
  /\ started /\ lost = 0 /\ ~tied => \A p \in Remotes : local[p].n > 0 => SaidLast(p)

\* A call or a report that was begun ends: a provider that hangs, withdraws or
\* never answers, an announcement that offers nothing, a stop.
CallSettles == \A k \in Tasks : [](task[k].st \in Pending => <>(task[k].st \notin Pending))

\* A registry never goes back to an earlier report of the same node.
ReportKept == \A p \in Remotes : slot'[p].k >= slot[p].k

\* What makes it so at every step: reports are sent in the order they were begun,
\* since those that wait for a provider wait for the same announcement, and are
\* dated in that order.
Reports == {r \in net : r.t = "report"} \cup {slot[p] : p \in {q \in Remotes : slot[q].k # 0}}

ReportsInv ==
  /\ now \in Nat \ {0}
  /\ slot \in [Remotes -> [k : Shares \cup {0}, at : 0..now]]
  /\ task = [k \in Tasks |-> [st |-> task[k].st, to |-> task[k].to, timer |-> task[k].timer]]
  /\ \A k \in Shares : task[k].st \in {"none", "done", "failed", "discovering"}
  /\ \A r \in Reports : r.k \in Shares /\ r.at \in 0..now /\ task[r.k].st = "done"
  /\ \A r, q \in Reports : r.k < q.k => r.at <= q.at
  /\ \A k, j \in Shares : j < k =>
       /\ task[k].st = "done" => task[j].st \in {"done", "failed"}
       /\ task[k].st # "none" => task[j].st # "none"
  /\ \A k \in Tasks : task[k].st = "discovering" => ProvidersFor(services) = <<>>

ReportNotRegressed == [][ReportKept]_svcVars
=============================================================================
