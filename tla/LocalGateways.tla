---------------------------- MODULE LocalGateways -----------------------------
(***************************************************************************)
(* The gateways of a box's local services: the news feed read on a timer,  *)
(* published, announced and digested, and the services that call a backend *)
(* (notes, encyclopedia, language model, internet) for the mesh.           *)
(*                                                                         *)
(*   gateway/local-services/news-gateway.ts, fetch-bounded.ts,             *)
(*   flatnotes-gateway.ts, internet-gateway.ts, kiwix-gateway.ts,          *)
(*   ai-gateway.ts, translate-gateway.ts, cli.ts                           *)
(*                                                                         *)
(* The feed is a sequence of editions, each a sequence of items            *)
(* [id, version, emergency]; id and version stand for the headline's       *)
(* content id. syncGeneration and digestGeneration are the "newest" flags: *)
(* starting a call makes every earlier one stale.                          *)
(***************************************************************************)
EXTENDS Naturals, FiniteSets, Sequences

CONSTANTS
  Editions,             \* sequence of the feed's contents over time
  MaxTracked,           \* MAX_TRACKED_HEADLINES
  MaxTrackedEmergency,  \* MAX_TRACKED_EMERGENCY_HEADLINES
  MaxPerSync,           \* MAX_EMERGENCY_ANNOUNCES_PER_SYNC
  MaxInFlight,          \* syncs, and digests, in flight at once
  MaxFailures,          \* syncs and digests that may fail
  Peer,                 \* nodes that call the limited services
  MaxPerPeer, MaxPerWindow,
  MaxCalls              \* bound on calls

VARIABLES
  edition,      \* what the feed's server serves now
  syncs,        \* syncNews() in flight: [at, edition, newest]
  published,    \* publishedById: sequence of <<id, version>>, oldest first
  emergencies,  \* announcedEmergencyById: likewise
  announced,    \* [<<id, version>> -> times announced at EMERGENCY, 2 for more]
  headlines,    \* edition of cachedHeadlines, 0 before the first sync
  digests,      \* generateDigest() in flight: [at, edition, newest]
  digest,       \* edition cachedDigest was made from
  failures,
  calls,        \* calls of a limited service: [peer, n, at, fresh]: fresh since
                \* the gateway's window began
  window,       \* globalRateLimitState.count
  perPeer       \* [Peer -> count in rateLimitState]

news == <<edition, syncs, published, emergencies, announced, headlines, digests, digest, failures>>
services == <<calls, window, perPeer>>
vars == <<news, services>>

Item == UNION {{Editions[e][i] : i \in DOMAIN Editions[e]} : e \in DOMAIN Editions}
Content(item) == <<item.id, item.version>>

------------------------------------------------------------------------------
(* News *)

(* BoundedFifoMap.get and set: a key that is there keeps its place *)
Get(map, id) == {map[i][2] : i \in {j \in DOMAIN map : map[j][1] = id}}
Put(map, c, max) ==
  IF Get(map, c[1]) # {} THEN [i \in DOMAIN map |-> IF map[i][1] = c[1] THEN c ELSE map[i]]
  ELSE Append(IF Len(map) >= max THEN Tail(map) ELSE map, c)

\* Mutant: a headline is announced when it is new or changed for publishedById.
AlreadyAnnouncedByPublished(st, c) == c[2] \in Get(st.published, c[1])

(* alreadyAnnouncedThisVersion *)
AlreadyAnnounced(st, c) == c[2] \in Get(st.emergencies, c[1])

\* Mutant: a headline over the cap is noted as announced all the same.
NotedOverCap(st, item) == item.emergency /\ ~AlreadyAnnounced(st, Content(item))

(* Only what was announced is noted: a headline over the cap comes back *)
Noted(st, item) == item.emergency /\ ~AlreadyAnnounced(st, Content(item)) /\ st.count < MaxPerSync

(* One item of syncNews()'s loop, both tiers of it published *)
SyncItem(st, item) ==
  LET c == Content(item)
      isEmergency == item.emergency /\ ~AlreadyAnnounced(st, c) /\ st.count < MaxPerSync
  IN  [count |-> IF isEmergency THEN st.count + 1 ELSE st.count,
       emergencies |-> IF Noted(st, item) THEN Put(st.emergencies, c, MaxTrackedEmergency) ELSE st.emergencies,
       announced |-> IF isEmergency THEN [st.announced EXCEPT ![c] = IF @ < 2 THEN @ + 1 ELSE @] ELSE st.announced,
       published |-> IF c[2] \in Get(st.published, c[1]) THEN st.published ELSE Put(st.published, c, MaxTracked)]

SyncItems(items) ==
  LET before == [count |-> 0, emergencies |-> emergencies, announced |-> announced, published |-> published]
      after[i \in 0..Len(items)] == IF i = 0 THEN before
                                    ELSE CHOOSE st \in {SyncItem(prev, items[i]) : prev \in {after[i - 1]}} : TRUE
  IN  after[Len(items)]

Stale(s) == [s EXCEPT !.newest = FALSE]
Asked == [at |-> "asked", edition |-> 0, newest |-> TRUE]

(* syncNews, by startAutoSync()'s timer, armed once the first sync landed: a *)
(* gateway whose first sync fails serves no news                            *)
SyncNews ==
  /\ headlines # 0 /\ Cardinality(syncs) < MaxInFlight
  /\ syncs' = {Stale(s) : s \in syncs} \cup {Asked}
  /\ UNCHANGED <<edition, published, emergencies, announced, headlines, digests, digest, failures, services>>

(* fetchTextBounded: the server reads its edition of the moment *)
FeedAnswers(s) ==
  /\ s \in syncs /\ s.at = "asked"
  /\ syncs' = (syncs \ {s}) \cup {[s EXCEPT !.at = "here", !.edition = edition]}
  /\ UNCHANGED <<edition, published, emergencies, announced, headlines, digests, digest, failures, services>>

(* No answer, too many bytes, or a feed parseFeed() does not take *)
SyncFails(s) ==
  /\ s \in syncs /\ failures < MaxFailures
  /\ failures' = failures + 1
  /\ syncs' = syncs \ {s}
  /\ UNCHANGED <<edition, published, emergencies, announced, headlines, digests, digest, services>>

\* Mutant: a sync overtaken by a newer one is applied too.
SupersededNever(s) == FALSE

Superseded(s) == ~s.newest

(* The rest of syncNews: the whole loop in one go, or nothing *)
SyncLands(s) ==
  /\ s \in syncs /\ s.at = "here"
  /\ syncs' = syncs \ {s}
  /\ IF Superseded(s) THEN UNCHANGED <<published, emergencies, announced, headlines>>
     ELSE \E done \in {SyncItems(Editions[s.edition])} :
            /\ published' = done.published /\ emergencies' = done.emergencies
            /\ announced' = done.announced /\ headlines' = s.edition
  /\ UNCHANGED <<edition, digests, digest, failures, services>>

(* generateDigest: nothing to do without headlines; the prompt is built now *)
GenerateDigest ==
  /\ headlines # 0 /\ Cardinality(digests) < MaxInFlight
  /\ digests' = {Stale(d) : d \in digests} \cup {[at |-> "asked", edition |-> headlines, newest |-> TRUE]}
  /\ UNCHANGED <<edition, syncs, published, emergencies, announced, headlines, digest, failures, services>>

DigestFails(d) ==
  /\ d \in digests /\ failures < MaxFailures
  /\ failures' = failures + 1
  /\ digests' = digests \ {d}
  /\ UNCHANGED <<edition, syncs, published, emergencies, announced, headlines, digest, services>>

DigestLands(d) ==
  /\ d \in digests
  /\ digests' = digests \ {d}
  /\ digest' = IF Superseded(d) THEN digest ELSE d.edition
  /\ UNCHANGED <<edition, syncs, published, emergencies, announced, headlines, failures, services>>

(* The newspaper's next edition *)
NewEdition ==
  /\ edition < Len(Editions)
  /\ edition' = edition + 1
  /\ UNCHANGED <<syncs, published, emergencies, announced, headlines, digests, digest, failures, services>>

------------------------------------------------------------------------------
(* Limited services: service://flatnotes-create and service://internet-fetch *)

\* Mutant: a call counts for the mesh before its peer's own limit is looked at.
ChargeMeshFirst(p) ==
  IF perPeer[p] < MaxPerPeer THEN window' = window + 1 /\ perPeer' = [perPeer EXCEPT ![p] = @ + 1]
  ELSE window' = window + 1 /\ UNCHANGED perPeer

(* checkRateLimit: a call over either limit is charged to neither *)
Charge(p) ==
  IF perPeer[p] < MaxPerPeer THEN window' = window + 1 /\ perPeer' = [perPeer EXCEPT ![p] = @ + 1]
  ELSE UNCHANGED <<window, perPeer>>

(* handleCreate, handleFetch: charged before the first await *)
HandleCall(p) ==
  /\ Cardinality(calls) < MaxCalls
  /\ IF window < MaxPerWindow THEN Charge(p) ELSE UNCHANGED <<window, perPeer>>
  /\ LET admitted == window < MaxPerWindow /\ perPeer[p] < MaxPerPeer
     IN  calls' = calls \cup {[peer |-> p, n |-> Cardinality(calls), fresh |-> TRUE,
                               at |-> IF admitted THEN "backend" ELSE "refused"]}
  /\ UNCHANGED news

(* The backend answers: the result is published, or the call rejected *)
BackendAnswers(c) ==
  /\ c \in calls /\ c.at = "backend"
  /\ \E end \in {"published", "rejected"} : calls' = (calls \ {c}) \cup {[c EXCEPT !.at = end]}
  /\ UNCHANGED <<news, window, perPeer>>

(* windowMs elapses, for the gateway or for one peer *)
WindowEnds ==
  /\ window > 0
  /\ window' = 0
  /\ calls' = {[c EXCEPT !.fresh = FALSE] : c \in calls}
  /\ UNCHANGED <<news, perPeer>>

PeerWindowEnds(p) ==
  /\ perPeer[p] > 0
  /\ perPeer' = [perPeer EXCEPT ![p] = 0]
  /\ UNCHANGED <<news, calls, window>>

------------------------------------------------------------------------------
(* cli.ts: one sync before the services are registered *)
Init ==
  /\ edition = 1 /\ syncs = {Asked} /\ published = <<>> /\ emergencies = <<>>
  /\ announced = [c \in {Content(i) : i \in Item} |-> 0]
  /\ headlines = 0 /\ digests = {} /\ digest = 0 /\ failures = 0
  /\ calls = {} /\ window = 0 /\ perPeer = [p \in Peer |-> 0]

NewsNext ==
  \/ SyncNews \/ GenerateDigest \/ NewEdition
  \/ \E s \in syncs : FeedAnswers(s) \/ SyncFails(s) \/ SyncLands(s)
  \/ \E d \in digests : DigestFails(d) \/ DigestLands(d)

(* The two halves share nothing: they are checked one at a time *)
CallsNext ==
  \/ WindowEnds
  \/ \E p \in Peer : HandleCall(p) \/ PeerWindowEnds(p)
  \/ \E c \in calls : BackendAnswers(c)

Next == NewsNext \/ CallsNext

(* The timer goes on, and its interval (5 minutes) is long enough for the   *)
(* newest sync to be answered again and again.                              *)
Fairness ==
  /\ WF_vars(SyncNews)
  /\ SF_vars(\E s \in syncs : s.newest /\ FeedAnswers(s))
  /\ SF_vars(\E s \in syncs : s.newest /\ SyncLands(s))
  /\ WF_vars(NewEdition)

Spec == Init /\ [][Next]_vars /\ Fairness

------------------------------------------------------------------------------
(* Syncs and digests overtake one another on their way, and neither the      *)
(* headlines nor the digest served ever go back to an earlier edition.       *)
NewsNotRegressed == [][headlines' >= headlines /\ digest' >= digest]_vars

(* A bulletin is announced to the mesh at emergency priority once for each   *)
(* version of it, however many syncs, failures and routine headlines pass    *)
(* through the bounded map of what was published (Editions keeps within      *)
(* MAX_TRACKED_EMERGENCY_HEADLINES).                                         *)
AnnouncedOnce == \A c \in DOMAIN announced : announced[c] <= 1

(* Once the first sync landed, every bulletin of the edition in force is     *)
(* announced in the end, those over the cap of one sync included.            *)
BulletinsAnnounced ==
  \A i \in {Editions[Len(Editions)][j] : j \in DOMAIN Editions[Len(Editions)]} :
     i.emergency => ((headlines # 0) ~> (announced[Content(i)] > 0))

(* The mesh's budget is spent by the calls that reach a backend and by       *)
(* nothing else: a peer that keeps calling over its own limit leaves the     *)
(* others theirs, with the two windows running out at different moments.     *)
BudgetIsSpentOnWork ==
  /\ window = Cardinality({c \in calls : c.fresh /\ c.at # "refused"})
  /\ window <= MaxPerWindow
==============================================================================
