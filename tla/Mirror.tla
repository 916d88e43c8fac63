------------------------------- MODULE Mirror -------------------------------
(***************************************************************************)
(* The mirror the portal shows: a Box's backend copies its snapshot, table *)
(* by table and without a transaction, into a shared database              *)
(* (arald-backend/postgres-sync.ts); a page of the portal reads five       *)
(* tables with five independent queries, any of which may fail alone       *)
(* (mirror-portal/lib/db.ts), and derives from them the list of what needs *)
(* attention now (lib/node-status.ts).  A table row of an alert has one    *)
(* node_url: the Box that copied it last.                                  *)
(***************************************************************************)
EXTENDS Integers, Sequences, FiniteSets, SequencesExt

CONSTANTS Boxes,        \* Box addresses (node_url)
          Orgs,         \* organisations
          Alerts,       \* [kind, at, located]: beacons and drops of the mesh
          FixedRelays,  \* Boxes registered as fixed relays
          Offering,     \* Boxes with a destination that needs no password
          FetchCap,     \* SQL_FETCH_CAP
          Limit,        \* RECENT_LIST_LIMIT
          None

VARIABLES via,      \* alert -> node_url of its row
          written,  \* alerts with a row, by synced_at: the last written last
          status,   \* Box -> "connected" of its latest status row
          nodes,    \* Box -> organisation it is assigned to
          view      \* the page being loaded or shown

vars == <<via, written, status, nodes, view>>

Sections == {"nodes", "relays", "beacons", "drops", "destinations"}
Blank == [who |-> None, pending |-> {}, got |-> [s \in Sections |-> {}], errors |-> {}, owed |-> {}]
IsBeacon(a) == a.kind = "sos"

Init ==
    /\ via = [a \in Alerts |-> None] /\ written = <<>>
    /\ status = [u \in Boxes |-> None]
    /\ nodes = [u \in Boxes |-> None]
    /\ view = Blank

-----------------------------------------------------------------------------
(* The Box's side.  A sync writes its tables one after the other and ends  *)
(* at the first query that fails, and at any moment a Box may have nothing *)
(* new for a table: so a table is written at any time.  Which alerts the   *)
(* Box has then is open, it hears new ones and old ones expire.  The relay *)
(* and destination rows are those of an earlier sync.                      *)

(* A row belongs to whoever wrote it last, so an alert moves: what the     *)
(* viewer of a page is owed is only what stays where it was.               *)
Upsert(u, S) ==
    /\ via' = [a \in Alerts |-> IF a \in S THEN u ELSE via[a]]
    /\ \E now \in SetToSeqs(S) : written' = SelectSeq(written, LAMBDA a : a \notin S) \o now
    /\ view' = [view EXCEPT !.owed = {a \in @ : a \in S => via[a] = u}]
    /\ UNCHANGED <<status, nodes>>

syncEmergencyBeacons(u, known) == (\A a \in known : IsBeacon(a)) /\ Upsert(u, known)

syncDrops(u, known) == (\A a \in known : ~IsBeacon(a)) /\ Upsert(u, known)

(* The status is copied only when the node answered it.                    *)
syncStatus(u, connected) ==
    /\ status' = [status EXCEPT ![u] = connected]
    /\ UNCHANGED <<via, written, nodes, view>>

assignNode(u, o) ==
    /\ nodes' = [nodes EXCEPT ![u] = o]
    /\ view' = [view EXCEPT !.owed = {a \in @ : via[a] # u}]
    /\ UNCHANGED <<via, written, status>>

-----------------------------------------------------------------------------
(* The queries, each at its own moment.                                    *)

organizationFilterClause(who, u) == who = "admin" \/ nodes[u] = who

Own(who) == {u \in Boxes : organizationFilterClause(who, u)}

queryLatestNodeStatus(who) == {[box |-> u, connected |-> status[u]] : u \in {v \in Own(who) : status[v] # None}}

queryRelays(who) == Own(who) \cap FixedRelays

queryDestinations(who) == Own(who) \cap Offering

rankByEventTimestamp(S) == {r \in S : Cardinality({q \in S : q.alert.at > r.alert.at}) < Limit}

AlertRows(who, which(_)) ==
    {[alert |-> a, box |-> via[a]] : a \in {b \in Alerts : which(b) /\ via[b] # None /\ via[b] \in Own(who)}}

LaterWritten(r, q) == \E i, j \in DOMAIN written : i > j /\ written[i] = r.alert /\ written[j] = q.alert

Fetched(S) == {r \in S : Cardinality({q \in S : LaterWritten(q, r)}) < FetchCap}

queryRecentBeacons(who) == rankByEventTimestamp(Fetched(AlertRows(who, IsBeacon)))

queryRecentDrops(who) == rankByEventTimestamp(Fetched(AlertRows(who, LAMBDA a : ~IsBeacon(a))))

Result(s, who) ==
    CASE s = "nodes" -> queryLatestNodeStatus(who)
      [] s = "relays" -> queryRelays(who)
      [] s = "beacons" -> queryRecentBeacons(who)
      [] s = "drops" -> queryRecentDrops(who)
      [] s = "destinations" -> queryDestinations(who)

(* A page, the map or the list, starts to load.  Its viewer is owed the    *)
(* beacons in the database, of the viewer's Boxes whose status is known.   *)
getMirrorSnapshot(who) ==
    /\ view.pending = {}
    /\ view' = [Blank EXCEPT !.who = who, !.pending = Sections,
                  !.owed = {r.alert : r \in {q \in queryRecentBeacons(who) : status[q.box] # None}}]
    /\ UNCHANGED <<via, written, status, nodes>>

QueryAnswers(s) ==
    /\ s \in view.pending
    /\ view' = [view EXCEPT !.pending = @ \ {s}, !.got[s] = Result(s, view.who)]
    /\ UNCHANGED <<via, written, status, nodes>>

unwrapSectionSilently(s) ==
    /\ s \in view.pending
    /\ view' = [view EXCEPT !.pending = @ \ {s}]
    /\ UNCHANGED <<via, written, status, nodes>>

(* unwrapSection: a rejected query leaves an empty list and an error.      *)
unwrapSection(s) ==
    /\ s \in view.pending
    /\ view' = [view EXCEPT !.pending = @ \ {s}, !.errors = @ \cup {s}]
    /\ UNCHANGED <<via, written, status, nodes>>

-----------------------------------------------------------------------------
(* What the page makes of it.                                              *)

Loaded == view.who # None /\ view.pending = {}

(* One entry per Box with a status: its alerts (an "info" drop is none),   *)
(* whether it can be rebooted, and whether it has destinations.            *)
summarizeFleet ==
    {[box |-> n.box, connected |-> n.connected,
      isFixedRelay |-> n.box \in view.got["relays"],
      offers |-> n.box \in view.got["destinations"],
      alerts |-> {r.alert : r \in {q \in view.got["beacons"] \cup view.got["drops"] :
                                      q.box = n.box /\ q.alert.kind # "info"}}] : n \in view.got["nodes"]}

Rank == [sos |-> 0, emergency |-> 1, hazard |-> 2, offline |-> 3]

FeedItems ==
    UNION {{[kind |-> a.kind, at |-> a.at] : a \in f.alerts}
             \cup (IF f.connected THEN {} ELSE {[kind |-> "offline", at |-> 0]}) : f \in summarizeFleet}

MoreUrgent(i, j) == Rank[i.kind] < Rank[j.kind] \/ (Rank[i.kind] = Rank[j.kind] /\ i.at >= j.at)

NewerFirst(i, j) == i.at >= j.at

buildAttentionFeedByTime == SetToSortSeq(FeedItems, NewerFirst)

buildAttentionFeed == SetToSortSeq(FeedItems, MoreUrgent)

(* The one line of the map page: the head of the feed.                     *)
AttentionBar == IF buildAttentionFeed = <<>> THEN {} ELSE {Head(buildAttentionFeed)}

toMapPoints == {r.alert : r \in {q \in view.got["beacons"] \cup view.got["drops"] : q.alert.located}}

(* app/page.tsx: every section the map or its bar depends on.              *)
partialErrors == view.errors \cap {"nodes", "beacons", "drops", "relays"}

(* app/elenco/page.tsx: the attention panel's own warning.                 *)
attentionIncomplete == view.errors \cap {"beacons", "drops"}

(* Each Box's row of forms: a reboot for an administrator, a delivery.     *)
NodeForms(f) ==
    {"drop", "append"}
      \cup (IF f.isFixedRelay /\ view.who = "admin" THEN {"reboot"} ELSE {})
      \cup (IF f.offers THEN {"delivery"} ELSE {})

Next ==
    \/ \E u \in Boxes : \/ \E known \in SUBSET Alerts : syncEmergencyBeacons(u, known) \/ syncDrops(u, known)
                        \/ \E connected \in BOOLEAN : syncStatus(u, connected)
                        \/ \E o \in Orgs : assignNode(u, o)
    \/ \E who \in Orgs \cup {"admin"} : getMirrorSnapshot(who)
    \/ \E s \in Sections : QueryAnswers(s) \/ unwrapSection(s)

Spec == Init /\ [][Next]_vars

-----------------------------------------------------------------------------
TypeOK ==
    /\ via \in [Alerts -> Boxes \cup {None}]
    /\ nodes \in [Boxes -> Orgs \cup {None}]
    /\ view.pending \cap view.errors = {}

(* The map page gives no false all-clear: a beacon that was there before   *)
(* the page loaded is counted in the attention bar, whose line is about a  *)
(* beacon too, or a warning says the picture is incomplete - whichever     *)
(* query failed and whatever the Boxes copied meanwhile (app/page.tsx,     *)
(* getMirrorSnapshot, summarizeFleet, buildAttentionFeed).                 *)
MapGivesNoFalseAllClear ==
    Loaded /\ view.owed # {} /\ partialErrors = {} =>
       \E i \in AttentionBar : i.kind = "sos"

(* The same of the list page's attention panel: "one section failing never *)
(* hides the sections that loaded fine".                                   *)
ListGivesNoFalseAllClear ==
    Loaded /\ view.owed # {} /\ attentionIncomplete = {} =>
       buildAttentionFeed # <<>>
=============================================================================
