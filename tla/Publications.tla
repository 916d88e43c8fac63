---------------------------- MODULE Publications -----------------------------
(***************************************************************************)
(* What one node keeps of what the mesh publishes: the content store with  *)
(* its eviction by priority and trust, the drops, channel messages and     *)
(* external-delivery directories it fetches when it learns of them, the    *)
(* chunks it caches while relaying, and its groups.                        *)
(*                                                                         *)
(*   node/src/content.ts  ContentStore, ChunkAssembler                     *)
(*   node/src/node.ts     publishContent(), publish*(), consider*(),       *)
(*                        observeRelayedContent(), handleGroupMessage()    *)
(*   node/src/drops.ts, public-channels.ts, groups.ts, external-delivery.ts*)
(*                                                                         *)
(* A publication is a record [kind, by, urgency, stamp, shape]: shape      *)
(* "bad" is a signed content whose bytes are not what its name says.       *)
(* getContent() either returns the bytes or rejects (ContentFetch).        *)
(***************************************************************************)
EXTENDS BoundedMap

CONSTANTS
  Content,         \* publications of the mesh and of this node
  Publisher, Me,   \* who publishes; this node
  Chunks,          \* chunks of a content
  MaxStore, MaxDrops, MaxBoxes, MaxFetches, MaxElevated,
  GroupMessages,   \* messages of the one group
  MaxEvents

PublicationsAssumption ==
  /\ Me \in Publisher /\ MaxElevated \in Nat /\ MaxBoxes \in Nat \ {0}
  /\ \A c \in Content : c.by \in Publisher /\ c.urgency \in 0..5 /\ c.stamp \in Nat

VARIABLES
  trust,      \* [Publisher -> rank]: 0 unknown, 2 verified, 3 trusted
  catalog,    \* contents known, bytes elsewhere
  store,      \* BoundedMap of contents held
  fetching,   \* pending{Channel,Drop,Directory}Fetches
  channel,    \* channel messages listed
  drops,      \* BoundedMap of drops listed
  directory,  \* [Publisher -> stamp of the directory recorded, 0 for none]
  boxes,      \* BoundedMap of the publishers whose directory is recorded
  assembling, \* [Content -> chunks seen while relaying]
  expired,    \* contents past their expiresAt
  group,      \* "none", or "member" once the invite is here
  messages,   \* group messages listed
  events

vars == <<trust, catalog, store, fetching, channel, drops, directory, boxes, assembling, expired,
          group, messages, events>>

DefaultUrgency == 4    \* priorityRank(Priority.CONTENT); lower is more urgent
TierSpread == 10
OwnRank == 5

Event == events < MaxEvents /\ events' = events + 1

------------------------------------------------------------------------------
(* ContentStore *)

Rank(p) == IF p = Me THEN OwnRank ELSE trust[p]
IsUnvetted(p) == Rank(p) <= 2
Elevated(c) == c.urgency < DefaultUrgency
Stranger(c) == Elevated(c) /\ IsUnvetted(c.by)

\* Mutant: every self-declared priority counts.
SnapshotAll(m) == {c \in m.keys : Stranger(c)}

(* refreshUnvettedElevatedSnapshot: the latest MaxElevated of them count *)
Snapshot(m) ==
  LET q == {c \in m.keys : Stranger(c)}
  IN  {c \in q : Cardinality({d \in q : <<c, d>> \in m.older}) < MaxElevated}

(* pickEvictionScore *)
EvictionScore(m) ==
  [c \in m.keys |->
     LET urgency == IF Stranger(c) /\ c \notin Snapshot(m) THEN DefaultUrgency ELSE c.urgency
     IN  Rank(c.by) - urgency * TierSpread]

(* has: readLive takes an expired content for none, and deletes it *)
Holds(c) == c \in store.keys \ expired

(* putVerified, of bytes that match: refused when already expired *)
Put(m, c) == IF c \in expired THEN m ELSE MapSet(m, c, EvictionScore(m), MaxStore)

------------------------------------------------------------------------------
(* Lists *)

(* Drops.record; a known drop keeps its place *)
RecordDrop(c) == MapSet(drops, c, [d \in drops.keys |-> Rank(d.by)], MaxDrops)

\* Mutant: the last directory that came replaces the one recorded.
RecordDirectoryAny(c) == [directory EXCEPT ![c.by] = c.stamp]

(* ExternalDeliveryDirectory.record: an older publication is ignored, and a *)
(* new publisher makes the oldest known be forgotten at the bound           *)
Fifo == [p \in Publisher |-> 0]
RecordDirectory(c) ==
  [p \in Publisher |->
     IF p = c.by THEN IF directory[p] >= c.stamp THEN directory[p] ELSE c.stamp
     ELSE IF p \in EvictedBy(boxes, c.by, Fifo, MaxBoxes) THEN 0 ELSE directory[p]]

Listed(c) ==
  /\ channel' = IF c.kind = "channel" THEN channel \cup {c} ELSE channel
  /\ drops' = IF c.kind = "drop" THEN RecordDrop(c) ELSE drops
  /\ IF c.kind = "directory"
       THEN directory' = RecordDirectory(c) /\ boxes' = MapSet(boxes, c.by, Fifo, MaxBoxes)
       ELSE UNCHANGED <<directory, boxes>>

Unlisted == UNCHANGED <<channel, drops, directory, boxes>>

(* considerChannelMessage, considerDrop, considerExternalDeliveryDirectory: *)
(* one fetch per content and MaxFetches per kind                            *)
InFlight(k) == {c \in fetching : c.kind = k}
ConsiderChannelMessage(c) == c.kind = "channel" /\ Cardinality(InFlight("channel")) < MaxFetches
ConsiderDrop(c) == c.kind = "drop" /\ Cardinality(InFlight("drop")) < MaxFetches
ConsiderDirectory(c) == c.kind = "directory" /\ Cardinality(InFlight("directory")) < MaxFetches
Considered(c) == ConsiderChannelMessage(c) \/ ConsiderDrop(c) \/ ConsiderDirectory(c)

------------------------------------------------------------------------------
(* Publishing *)

(* publishContent: stored under this node's own rank, then announced *)
Publish(c) ==
  /\ c.by = Me /\ c \notin store.keys /\ c \notin expired /\ Event
  /\ store' = Put(store, c)
  /\ UNCHANGED <<trust, catalog, fetching, assembling, expired, group, messages>>

PublishChannelMessage(c) == c.kind = "channel" /\ Publish(c) /\ Listed(c)
PublishDrop(c) == c.kind = "drop" /\ Publish(c) /\ Listed(c)
PublishDirectory(c) == c.kind = "directory" /\ Publish(c) /\ Listed(c)

------------------------------------------------------------------------------
(* Learning and fetching *)

(* acceptCatalogEntry: not for bytes already here; a signature earns VERIFIED *)
Accepts(c) == c.by # Me /\ ~Holds(c) /\ c \notin expired
Verified(p) == [trust EXCEPT ![p] = IF @ < 2 THEN 2 ELSE @]

(* handleContentAnnounce, handleSyncResponse of one entry *)
Announced(c) ==
  /\ Accepts(c) /\ Event
  /\ catalog' = catalog \cup {c}
  /\ trust' = Verified(c.by)
  /\ fetching' = IF Considered(c) THEN fetching \cup {c} ELSE fetching
  /\ Unlisted
  /\ UNCHANGED <<store, assembling, expired, group, messages>>

(* getContent returned the bytes: they are stored, and listed if they parse *)
Fetched(c) ==
  /\ c \in fetching
  /\ fetching' = fetching \ {c}
  /\ store' = Put(store, c)
  /\ c \notin expired
  /\ IF c.shape = "ok" THEN Listed(c) ELSE Unlisted
  /\ UNCHANGED <<trust, catalog, assembling, expired, group, messages, events>>

FetchRejected(c) ==
  /\ c \in fetching
  /\ fetching' = fetching \ {c}
  /\ UNCHANGED <<trust, catalog, store, channel, drops, directory, boxes, assembling, expired, group,
                 messages, events>>

(* Any other fetch of this node's users: stored, never listed *)
GetContent(c) ==
  /\ c \in catalog /\ ~Holds(c) /\ c \notin fetching /\ c \notin expired /\ Event
  /\ store' = Put(store, c)
  /\ Unlisted
  /\ UNCHANGED <<trust, catalog, fetching, assembling, expired, group, messages>>

(* observeRelayedContent: chunks on their way to somebody else *)
RelayedChunk(c, i) ==
  /\ c.by # Me /\ ~Holds(c) /\ i \notin assembling[c] /\ Event
  /\ assembling' = [assembling EXCEPT ![c] = @ \cup {i}]
  /\ Unlisted
  /\ UNCHANGED <<trust, catalog, store, fetching, expired, group, messages>>

(* tryComplete, discard *)
RelayedComplete(c) ==
  /\ assembling[c] # {}
  /\ assembling' = IF Holds(c) \/ assembling[c] = Chunks THEN [assembling EXCEPT ![c] = {}] ELSE assembling
  /\ LET cached == ~Holds(c) /\ assembling[c] = Chunks /\ c \notin expired
     IN  /\ cached \/ Holds(c)
         /\ store' = IF cached THEN Put(store, c) ELSE store
         /\ trust' = IF cached THEN Verified(c.by) ELSE trust
  /\ Unlisted
  /\ UNCHANGED <<catalog, fetching, expired, group, messages, events>>

------------------------------------------------------------------------------
(* Time, the operator and groups *)

Expire(c) ==
  /\ c \notin expired /\ Event
  /\ expired' = expired \cup {c}
  /\ Unlisted
  /\ UNCHANGED <<trust, catalog, store, fetching, assembling, group, messages>>

(* readLive: the first read of an expired content deletes it *)
ReadExpired(c) ==
  /\ c \in store.keys \cap expired
  /\ store' = MapDelete(store, {c})
  /\ Unlisted
  /\ UNCHANGED <<trust, catalog, fetching, assembling, expired, group, messages, events>>

(* listKnownContent for a catalog sync or a page: list() purges what has expired *)
ListKnownContent ==
  /\ store.keys \cap expired # {}
  /\ store' = MapDelete(store, expired)
  /\ Unlisted
  /\ UNCHANGED <<trust, catalog, fetching, assembling, expired, group, messages, events>>

(* Drops.list drops what has expired *)
ListDrops ==
  /\ drops.keys \cap expired # {}
  /\ drops' = MapDelete(drops, expired)
  /\ UNCHANGED <<trust, catalog, store, fetching, channel, directory, boxes, assembling, expired, group,
                 messages, events>>

TrustPublisher(p) ==
  /\ p # Me /\ trust[p] # 3 /\ Event
  /\ trust' = [trust EXCEPT ![p] = 3]
  /\ UNCHANGED <<catalog, store, fetching, channel, drops, directory, boxes, assembling, expired, group, messages>>

(* considerGroupInvite *)
Invited ==
  /\ group = "none" /\ Event
  /\ group' = "member"
  /\ UNCHANGED <<trust, catalog, store, fetching, channel, drops, directory, boxes, assembling, expired, messages>>

(* handleGroupMessage: for a node that is not a member the message is nothing *)
HandleGroupMessage(g) ==
  /\ group = "member" /\ g \notin messages /\ Event
  /\ messages' = messages \cup {g}
  /\ UNCHANGED <<trust, catalog, store, fetching, channel, drops, directory, boxes, assembling, expired, group>>

------------------------------------------------------------------------------
Init ==
  /\ trust = [p \in Publisher |-> 0]
  /\ catalog = {} /\ store = EmptyMap /\ fetching = {}
  /\ channel = {} /\ drops = EmptyMap
  /\ directory = [p \in Publisher |-> 0] /\ boxes = EmptyMap
  /\ assembling = [c \in Content |-> {}] /\ expired = {}
  /\ group = "none" /\ messages = {} /\ events = 0

(* deliver: the packets this module is about *)
Deliver ==
  \/ \E c \in Content : Announced(c) \/ RelayedComplete(c)
  \/ \E c \in Content, i \in Chunks : RelayedChunk(c, i)
  \/ Invited
  \/ \E g \in GroupMessages : HandleGroupMessage(g)

Next ==
  \/ Deliver
  \/ \E c \in Content :
       \/ PublishChannelMessage(c) \/ PublishDrop(c) \/ PublishDirectory(c)
       \/ Fetched(c) \/ FetchRejected(c) \/ GetContent(c) \/ Expire(c) \/ ReadExpired(c)
  \/ ListKnownContent \/ ListDrops
  \/ \E p \in Publisher : TrustPublisher(p)

Spec == Init /\ [][Next]_vars

------------------------------------------------------------------------------
(* No flood of self-declared urgent content pushes out what vetted           *)
(* publishers and this node published: an eviction takes an entry of theirs, *)
(* unless they ranked it below ordinary content themselves, only while the   *)
(* strangers' urgent entries are within their budget                         *)
(* (MAX_UNVETTED_ELEVATED_ENTRIES), whatever mix of publishing, fetching,    *)
(* relaying, expiry and changes of trust led there.                          *)
TrustedKept ==
  \A c \in store.keys \ (store'.keys \cup expired) :
     ~IsUnvetted(c.by) /\ c.urgency <= DefaultUrgency =>
       Cardinality({d \in store.keys : Stranger(d)}) <= MaxElevated

(* The directory of destinations of a box never goes back to an older one,   *)
(* although its publications are fetched side by side and end in any order,  *)
(* unless the box was forgotten altogether to make room for another.         *)
DirectoryKept == \A p \in Publisher : directory'[p] >= directory[p] \/ p \notin boxes'.keys

(* What the two rest on: the store lists its contents in the order they      *)
(* came, and ranks and dates can be compared.                                *)
PublicationsInv ==
  /\ trust \in [Publisher -> 0..4] /\ directory \in [Publisher -> Nat]
  /\ IsMap(store) /\ WellOrdered(store) /\ IsFiniteSet(store.keys) /\ store.keys \subseteq Content
==============================================================================
