# A TLA+ verification of ARALD

ARALD is an off-grid mesh: phones, radio cards and small computers ("Boxes")
pass content, messages, services and SOS beacons from device to device, and a
few programs around the mesh carry things out of it or show what goes on in it.
Nearly every program is single-threaded JavaScript. What makes it hard is that
everything in it waits for something - a write, a timer, a peer, a database, a
person - and other events run in between; and that most of it may be cut off,
restarted or told the same thing twice at any point. This project models those
parts in TLA+, checks them with TLC on small instances, and proves the core of
them with TLAPS for every instance.

Contents: 1 inventory, 2 modules and their correspondence to the code, 3 runs,
4 bounds and fairness, 5 proofs, 6 disagreements with the documentation,
7 abstractions, 8 not modelled, 9 plan.

## 1. Inventory

`PROJECT.json` lists every component (also those not modelled), the source lines
of every definition (`map`) and the hazards with their lines.

| part | state | operations | hard behaviour | what makes it correct |
|---|---|---|---|---|
| store-and-forward (`store-and-forward.ts`, `floodExcept`, `flushPendingDeliveries`, relay gates) | queued packets with deadline and sender; sends awaited | accept, route, flood, queue, drain, retry, requeue, expire | state read before an `await`, used after it; connections, gates and clock change meanwhile | no packet lost or in two places; urgent ones outlive routine traffic; no echo; no way round a gate |
| bounded map (`bounded-map.ts`) | keys in insertion order, an eviction score | set, delete, evict | eviction at the bound | bounded; lowest score first, oldest of those |
| TCP (`transports/tcp.ts`, `priority-queue.ts`, `addTransport` callbacks) | sockets, peers, counts; buckets, a `draining` flag | dial, HELLO, replace, tear down, stop; send, drain | simultaneous dials, late `close`; sends during the loop's `await` | ends agree; nothing stranded, settled unless the error surfaces elsewhere, most urgent first |
| distance-vector routing (`routing-table.ts`, `handleRouteAnnounce`) | a table per node, announcements in transit | offer, withdraw, announce, split horizon | ends notice a link event at different times | next hop connected; no two neighbours route through each other; announcements die out |
| simulated links, BLE fragments, LoRa drivers (`transports/*`, `ble-link.js`) | entries per connection, reassembly, a half-duplex radio and its bridge | connect, identify, replace, stop; fragment; poll, transmit | crossing connects; ids that wrap; answers that come late, a chip that is BUSY | no half-open link; whole packets only; the radio listens again |
| content retrieval (`getContent`, `handleContent*`) | pending entry, ranges, chunks, waiters | query, split, retry, assemble | two providers, late packets, wrong sizes | no part forgotten, bounded fetches, honest transfers complete |
| SOS on the mesh (`sendEmergencyBeacon`, catalog sync, `considerEmergencyBeacon`) | seen ids, bytes, catalog, fetches, sightings | flood, radio copy, sync, fetch, evict, expire | copies by several paths, partial knowledge, caps | reaches the connected mesh; catalogs reconcile; none dropped silently |
| identity, messages, services, directories, publications (`node.ts`, `discovery.ts`, `content.ts`, ...) | directories, replay guards, waits | announce, seal, open, call, report, publish, evict | first contact, restarts, overtaking, floods | decrypts at first contact; a command acted on once; newest report stays; trusted outlasts flood |
| local API and launch (`web-ui.ts`, `cli.ts`) | throttle, waits, files of one install | check password, send, start, stop | stalled bodies; killed between create and write | a lock holds; identity survives a crash; a process told to end ends |
| phone: queues (`sos-queue.js`, `drop-queue.js`, `emergency-state.js`) | `localStorage`, requests, claims | send, queue, flush, claim, report | two tabs that read and write one array in turn, restarts, a timeout racing the answer | held until the user is told or a tab overwrites it; not published twice but in doubt |
| phone: Bluetooth (`ble-*.js`) | session, slots, carried packets, one timer | activate, scan, connect, carry, role cycle | steps of a session that has ended, clean-ups of two awaits, late disconnect events | what an old session leaves running takes no entry of the new one; emergencies are kept |
| phone: pages (`app.js`, `hub-control.js`, Wi-Fi set-up) | screen, token, form | poll, pair, save, act | an answer for what is no longer shown | a page shows the device it names |
| out of the mesh (`external-delivery.ts`, relay servers, `arald-backend`, `gateway`) | queues, reservations, remote commands, news | POST, dedup, poll, announce | at-least-once on top of at-least-once | once unless in doubt; nothing held for ever |
| portal and mirror (`mirror-portal`, `postgres-sync.ts`) | database rows, audit, sessions | sign in, assign, command, read | two administrators, queries that fail alone | history agrees with state; no false all-clear |
| tools (`network-design`, `scenario-model`, `map-data`, `local-portal`, `qrcode.ts`) | a plan, tiles, sessions; pure algorithms | edit, undo, load; build, trim; encode | late tiles and files; concurrent builds; boundaries | results are of the plan shown; limits hold; codes scan back |

Interactions. A transport reports `onPeerConnected`, `onPeerDisconnected` and
packets to `NomadNode`. A connection makes the node announce its routes, start a
catalog and an identity sync, and flush the store-and-forward queue. A packet
goes through `decideForward()`, local delivery and, behind the relay gates,
`floodExcept()`, which asks the routing table, sends through the transport, and
falls back on the queue. `getContent()` sends through the same path. The phone
and the Box's backend reach the node through `web-ui.ts`; the backend copies the
node's snapshot to the portal's database and carries the portal's commands back;
a message for the outside waits in the Box's queue for a relay server.

## 2. Modules

One action is one stretch of JavaScript without an `await`: an event handler, a
timer callback, or an async function up to its next `await`. Where the code
waits, the model has a state ("in flight", "writing", "pending") and the outcome
is another action. Definitions keep the source's names (`HandleSyncRequest` is
`handleSyncRequest()`). A definition introduced by "As if ..." is a plausible
mistake in the code: no specification uses it, and it serves to show that a
property would notice it. Variables marked "ghost" or "history" have no
counterpart in the code.

**Moving packets.**

| module | models | state and correspondence |
|---|---|---|
| `BoundedMap` | `BoundedFifoMap` | keys and the order they were set in; extended by `StoreAndForward`, `Messaging`, `Discovery`, `Publications` |
| `StoreAndForward` | `PendingDeliveryQueue` and the node code around it | `queue`, `expiresAt`, `exceptPeer` are the entries; `flight[p]` is what `floodExcept(p)` awaits; `PeerConnected` is the whole callback: expire, drain, retry or requeue each entry in order. The routing table may answer anything, so the results hold whatever `DistanceVector` computes |
| `TcpConnections` | sockets of nodes that dial one another | an end per node with the states of `Socket`; the `data`, `close` and `error` handlers each include the node's callback |
| `TcpSend` | `send()`, `drainQueue()`, `PriorityQueue` | `buckets`, `draining`, `writing`; `DrainOn` is one round up to the `await`; a write is called back, fails, or "escaped": its error surfaced as an uncaught exception and nothing tells the write |
| `DistanceVector` | `RoutingTable`s and announcements | `link` is the connection, `due` the ends that have not read its HELLO, `up` what a node was told of it; a connection may be replaced while an end still lists the peer |
| `SimulatedLink` | the link below the BLE and LoRa transports | `byId`, `byPeer` as in the code; `air` the packets on their way; `told` what the handlers were told |
| `LoraSerial`, `LoraChip` | the SX127x driver with its bridge, and the SX126x twin (extends it) | `turns` is `withRadio()`, `asked`/`answers` the serial line without request ids |
| `ContentFetch` | one `getContent()` | `entry` is `PendingContentEntry`; providers may fall silent, refuse, misstate the size |
| `Dissemination` | an SOS across nodes | `seen`, `store`, `catalog`, `fetch` (`pendingBeaconFetches`), `sight` (`EmergencyBeacons`) per node; uses `getContent()` by what it promises |

**The node and its users.**

| module | models |
|---|---|
| `Messaging` | identity directories and their gossip, `waitForPeerKey()`, private messages and what they carry, the replay guard |
| `MeshServices` | registration, discovery, calls, location reports; Self and remote nodes |
| `Publications` | the content store with its eviction, drops, channel, directory and group messages, chunks cached in passing |
| `Discovery` | the directory of nodes and the administrator's badge |
| `LocalApi` | password throttle, stalling bodies, "sent" or "queued" of a message |
| `Launch` | flags, configuration and identity files, start, signals, shutdown, crashes between any two steps |
| `Records` | every JSON record: writer's checks, signed fields and order in each of the three copies, reader's checks, mirrored row |
| `QrCode` | the encoder, one action per loop body, read back by a scanner |

**The phone.**

| module | models |
|---|---|
| `PhoneSos` | the one-slot queue, the race of two channels, claims, retries, restarts |
| `PhoneDrops` | the queue of drops shared by tabs, each call of which reads the whole array (`call`) and writes it back in a later step; the Box's idempotency keys; implements `Custody`. The ghost `overwritten` holds the drops whose entry a tab wrote back over a change it had not seen |
| `Custody` | abstract: what is taken is held until its end is told, "delivered" is said only of what arrived, the bound holds |
| `BleRelay`, `BleCourier`, `Fragments`, `BleRoleManager`, `BleDualRole` | sessions and slots of the relay, its clean-up in two steps (entry first, native link later); carried packets; fragmentation with any number of packets under way (`crowded`, a ghost, are those of a crowd larger than the reassembler or the id space); the role cycle; the two-role client, where `gone` counts the ends of links the plug-in has yet to report by device |
| `PhoneDashboard`, `Hub`, `WifiProvisioning` | the screens around the gateway; the hub's server and page; Wi-Fi set-up over Bluetooth, both ends |

**Around the mesh.**

| module | models |
|---|---|
| `ExternalDelivery` | the Box's queue and the relay that sends: reservation, rollback, timeouts, restarts |
| `CommandChannel` | portal row, poller, ingest endpoint, node; lets `ExternalDelivery` see the same delivery again |
| `LocalGateways`, `RssFeed` | news syncs, announcements and digests, rate-limited services; the feed parser |
| `Portal`, `Mirror` | routes as queries under row locks and failing commits; the copied tables and a page's five queries |
| `NetworkDesign`, `Resilience`, `DesignTool`, `TileService` | the editor; its graph algorithms; login and sessions; tiles and their builds |

Composition. `LoraChip` extends `LoraSerial`; the users of `BoundedMap` extend
it; `PhoneDrops` instantiates `Custody` under a refinement mapping (`held` is the
set of queued drops that no tab has overwritten, `arrived` what some Box published,
`delivered` what the user was told, `abandoned` that and what was overwritten). Where
one component uses another that has
its own module, it takes it by its contract: any routing answer, any resolved or
rejected `getContent()`, any repetition of a delivery.

Three modules hold proofs about the runs' own specifications, and so about the
properties as the runs state them: `StoreAndForwardProofs` (extends `MCMesh`:
store-and-forward, opened by the lemmas about `BoundedMap`; simulated links,
messages, the two-role relay, fragments, content retrieval), `DisseminationProofs` (extends
`MCServices`: SOS, command channel, local API, directories, publications) and
`PhoneDropsProofs` (extends `MCPhone`: drops, SOS queue). The proofs of `TcpSend`,
`SimulatedLink`, `TcpConnections`, `ExternalDelivery` and `PhoneSos` stand at the
end of their modules, and the first three build on those of the last five.

**MC modules.** `MCLinks`, `MCMesh`, `MCServices`, `MCPhone` and `MCTools` each
instantiate several components on variables of their own. The first step chooses
`which` component the behaviour is about (among `Chosen`); `MCNext` then takes
only that component's steps, and the variables of the others rest at a constant.
The graph TLC explores is thus the disjoint union of the components' graphs, and
a property named after one component is checked on its part (`which = "x" => ...`).
A liveness property is stated as `X!Fairness => X!P`: each component under its own
fairness only.

## 3. Runs

| run | components | instance | shows |
|---|---|---|---|
| `transport` | `TcpSend`, `TcpConnections`, `DistanceVector`, `BleRoleManager` | 5 sends of 3 levels, one priority invalid, queue of 2; both nodes dial, 1 failure, 1 stop; triangle a fourth node may join, 2 link events; 3 windows | nothing stranded, most urgent first, sends settle unless the error of a write escapes; connections agree, `stop()` and `connect()` settle; next hop connected, no two-node loop once the two have read each other, announcements die out; one timer at a time and every asker answered |
| `links` | `ExternalDelivery`, `BleRelay`, `LocalGateways` | 2 messages; 2 devices, 1 slot; 3 editions, 2 callers | sent once unless in doubt, queue bounded and emptied in the end; no slot held for ever, the scan belongs to the session, an identified peer keeps its entry; no step back to older news, each bulletin announced exactly once |
| `radio` | `LoraSerial`, `LoraChip`, `Launch` | 2 sends of 2 and 1 fragments; 2 processes, kills, bad flags | the radio listens again, what resolved was aired, every send settles; identity and password survive crashes, shutdown completes |
| `mesh` | `StoreAndForward`, `Fragments`, `BleCourier`, `BleDualRole`, `Messaging` | 3 packets of 3 ranks, queue 2, clock 2 = Ttl; 5 packets of 1 or 2 fragments, ids modulo 3, 3 under way, 2 places; queue 2; 3 sessions; 3 nodes | nothing slips away, only routine packets expire, eviction order; whole packets, lost only to a crowd or a failed write; emergencies kept; sessions apart; first contact works, a command acted on once |
| `fetch` | `ContentFetch`, `SimulatedLink` | 3 chunks, 3 providers, 2 calls, sizes claimed 1-4; 3 nodes with room for one | nothing forgotten, fetches bounded and backed; both ends agree on their link |
| `hold` | `StoreAndForward` | 2 neighbours, an EMERGENCY and a routine packet, queue of 1 | no echo, gates honoured, the EMERGENCY packet leaves |
| `services` | `Dissemination`, `MeshServices`, `LocalApi`, `Publications`, `Discovery`, `CommandChannel` | 4 nodes, 1 SOS, hop limit 2, 3 events; a caller and a provider; 4 addresses; 8 publications; 2 nodes and 2 labels; 2 commands | the flood reaches the connected mesh, catalogs reconcile, no silent drop, first report stays; directories current, lock-out holds, trusted content kept, a delivered command was accepted and repeated only when unheard |
| `phone` | `PhoneDrops`, `PhoneSos`, `PhoneDashboard`, `NetworkDesign`, `Hub`, `WifiProvisioning` | 2 tabs, 2 drops, 1 Box; 2 SOS; 2 gateways; 2 devices on a plan; 2 hosts; 2 phones | not published twice but in doubt, `Custody` implemented; pages show the device they name; undo history and results of the plan shown |
| `tools` | `Portal`, `Mirror`, `Records`, `QrCode`, `RssFeed`, `Resilience`, `DesignTool`, `TileService` | 2 browsers and organisations; 2 Boxes; every record; symbols by length; feeds of five tokens after four beginnings, 2 items read; 5 places; 3 browsers; 2 tiles | history agrees with assignment, no false all-clear; what is written is read back; the report agrees with the journeys; limits hold under concurrency |
| `tile_slot` (violated) | `TileService` | 2 tiles, 1 slot | a build that never settles keeps its slot for ever |
| `append_is_chat` (violated) | `Records` | every record | a node append is also recorded as a chat message |

The violated runs each check one sentence of a comment against what the code
does; `findings` quotes the sentence and section 6 explains. Every property of a
passing run has a mutant in `PROJECT.json`: a mistake in one definition under
which TLC finds that property violated.

## 4. Bounds and fairness

### Why the bounds are enough for these questions

A bound on the environment (`MaxTime`, `MaxEvents`, `MaxFailures`, `MaxStops`,
`MaxFaults`, `MaxDoubt`, `MaxSessions`, `MaxRestarts`, budgets) limits how often it
acts and never what the code may do in response. The bounds of the code itself
(queue sizes, slots, caps) are set so small that they are reached. In particular:

- Store-and-forward: eviction needs one packet more than the queue holds, of a
  different rank; three packets and two places give every order of two entries
  and a third arrival. The clock runs from below a deadline past it. Two
  neighbours (`hold`) are what echo and liveness need.
- Routing: a triangle is the smallest mesh with an alternative path, the fourth
  node joins behind it. Two events give a break and a return, a break and another,
  a connection replaced before one end or both noticed; `MaxCost` is 6, twice the
  longest path, so that counting up is seen before it is cut off.
- Fragments: five packets with ids modulo three let an id come round while a packet
  of it is under way; three under way and two places make a crowd, and two are none.
- Connections: two in opposite directions and one failure give every order of
  HELLOs, closes and timers. Three simulated nodes with room for one connection
  give crossing dials and a refusal.
- Sends: five fill a queue of two while one is being written, two of one level
  and two others, and a priority of no level.
- Content: two fetch slots, one candidate and three providers give the split, the
  takeover and an unused candidate; estimates below, at and above the truth.
- An SOS: hop limit 2 is what the longest simple path among four nodes needs, so a
  hop lost anywhere shows.
- Phone queues: two tabs are the smallest race for a claim and for a read that is
  overwritten, a queue of one and two drops reach its limit, one Box restart forgets
  the keys, one lost answer is a doubt. Three scenarios share these: two drops with
  nothing else, one with a restart and a network forgotten, a refused one with a
  network forgotten. Sessions: three, so that two old ones may act on the third.
- Delivery and commands: two items, so that one overtakes or waits behind the
  other; two lives and one change of identity of the Box.
- Pages and tools: two of each thing that may be confused with another. The feeds
  begin empty, inside the CDATA section of a title, at a second and at a third item,
  and go on with up to five tokens, so that titles with a closed CDATA section, a bad
  item among good ones and more items than `MaxItems` (2) occur. A page of the mirror
  fetches one row (`FetchCap`) of two drops. The table of failed logins holds as many
  addresses as there are (`MaxKeys`), and the directory of publications forgets the
  publisher it has known longest at one (`MaxBoxes`).

Deadlock checking is off throughout: an environment that has used up its budget
may rest, and `which` may name a component whose work is done.

### Fairness

- `StoreAndForward!Fairness` (only `hold`): sends settle, a neighbour that may come
  does so again and again, a send repeated often enough succeeds, the gates open
  infinitely often. All but the first are assumptions about the world: the property
  says that *under* them the code does not strand an EMERGENCY packet.
- `TcpSend`: weak fairness of the end of a write and of resuming the async function.
  A write may end without a word: `tcp.ts:45-63` describes an error that bypasses
  both the callback and the `error` listener. `SendSettles` says that a send settles
  or a write has escaped in this way. `TcpConnections`: of the connect timer and of
  the `close` and loss events Node.js delivers. `DistanceVector` needs none: that
  announcements die out is that no run of steps without end exists. `LoraSerial`:
  the bridge answers or times out, the turn goes on; `LoraChip` adds strong fairness
  of the transmit time-out, which BUSY answers may postpone.
- `BleRoleManager`, `BleRelay`, `Launch`: timers fire and steps begun go on.
- `ExternalDelivery`: the timer starts an attempt, a POST is answered or times out,
  a message grows old. `LocalGateways`: the timer starts a sync, and a newest sync
  is not cut off for ever (strong fairness on the feed: an assumption on the world).
- All other runs are of safety properties, with completion stated for quiet states.

## 5. Proofs

A theorem holds for every value of the constants under the named assumption of
its module (types of constants, markers outside the sets they mark), which the
runs evaluate. The components proved about in an MC module take their parameters
from constants of that module, which the `.cfg` sets: the theorem is about all
values, the run about the ones given there. A theorem about `MCSpec` states the
run's property itself; its invariant speaks of one component and is guarded by
`which`, since the other components leave its variables alone.

| module | theorems | property of a run |
|---|---|---|
| `StoreAndForwardProofs` | `TypeCorrect`, `BoundHolds`, `NothingIsLost`, `NoEcho`, `EmergencyOutlivesClock`; action properties `NoWayAroundTheGates`, `EvictionOrder`, `DeniedOnSchedule` | `NothingSlipsAway`, `NeverSentBack`, `OnlyRoutineExpires`, `GateHonoured`, `EvictsLeastUrgentOldest` |
| same, other components of the mesh | `RadioEndsAgree`, `FirstMessageReads`, `FragmentsComeOut`, `FetchesHold`; with an action property `DualSessionsHold` | `LinkEndsAgree`, `FirstContactWorks`, `FaultFreeReassembled`, `FetchForgetsNothing`, `DualSessionsApart` |
| `TcpSend` | `SendTypeCorrect`, `NoneStranded`, `EveryWaitingHeld`, `SendQueueBounded`; action property `UrgentFirst` | `NoStrandedSend`, `MostUrgentFirst` |
| `DisseminationProofs` | `NoneDroppedSilently`, `CatalogsReconcile`, `FloodReachesMesh`; action property `FirstReportStays` | `AcceptedIsShown`, `Reconciled`, `ReachesConnectedMesh`, `SightingSticks` |
| same, other services | `CommandsHold`; with action properties `LockStands`, `DirectoriesStand`, `VettedOutlast` | `CommandsSettled`, `LockHolds`, `DirectoriesHold`, `TrustedOutlastsFlood` |
| `PhoneDropsProofs` | refinement `QueueKeepsCustody`; `BoxPublishesOnce`, `ClaimsSeparate`, `PhoneHolds` | `KeepsCustody`, `PhonePublishesOnce` |
| `PhoneSos` | `SosKept` | (used by `PhoneHolds`) |
| `SimulatedLink` | `LinksAgree` | (used by `RadioEndsAgree`) |
| `ExternalDelivery` | `SentOnce` | (part of `SentOnceUnlessInDoubt`) |
| `TcpConnections` | `SocketsTracked` | (part of `ConnectionsAgree`) |

`MCLinks!SentOnceUnlessInDoubt` and `MCLinks!ConnectionsAgree` are conjunctions for
the run; the theorems state conjuncts of them, as their modules define them.

Several arguments look for a first or a last of something: the least urgent entry,
the oldest key of a scan, the nearest node that has not heard. The induction
theorems of the library cannot be used for them, but one consequence can: a set of
numbers that is not empty has a least element (`LeastNat`, from the
well-foundedness of `<`).

**Store-and-forward** (`IInv`): TypeOK, the finite and bounded queue,
`NothingSlipsAway`, the shape of a flight, `NeverSentBack`, hand-off means sent,
and the deadlines behind `OnlyRoutineExpires`. They need each other: the bound
needs the insertion order to be total, or there might be no eviction candidate
(the lemmas of `BoundedMap`: `set`, `delete` and the reordering of a flush keep the
order total, and a candidate exists); `NothingSlipsAway` needs the evicted key to be
a queued packet; `NeverSentBack` needs a packet not yet accepted to have no target.
`EvictionOrder` adds that the candidate is the first of its rank, `DeniedOnSchedule`
that drain and requeue carry the deadline through.

**Send path** (`Inv`): TypeOK, buckets in which each send is in its own bucket and
there once (`Sorted`), the send being written not in them. Without "once",
taking a send out could leave it behind and `WaitingIsHeld` would not be inductive.

**Dissemination.** `NoneDroppedSilently` and `FirstReportStays` rest on the domains
of the tables. `CatalogsReconcile` needs `Exchange`: for each connected pair, what is
owed to a node and still missing there is either named by the answer on its way
to it, or its request is still on the way to the other end, which still lists it
(`KeepsOwed`, `ListsTruly`, `OnItsWay`). The proof follows the request and the
response through both channels while floods, fetches, expiry and evictions change
the tables. `Reconciled` leaves out what an end evicted: a node does not list its
own SOS without the bytes, so an origin that evicts before it answers never tells.

`FloodReachesMesh` needs `Flood`: for each SOS since whose sending no connection came
or went there is a set of nodes `F`, the origin among them, that know it, while the
nodes outside have neither handled nor passed it on, and every connection that leads
out of `F` carries an announcement whose hops are all but one less than the nodes of
`F` (`Spreads`): a copy by a longer path has fewer hops left, but then `F` has at least
as many nodes, and the first copy a node handles is the one that counts. When nothing
is on its way no connection leads out of `F`, so that it holds the whole `Component` of
the origin. The mesh is finite, and the hop limit at least its nodes less two.

**Commands** (`ChannelInv`): a command that was not lost track of has no copy still
under way (`strays`), and has been accepted at most once, and then its row says
delivered or the answer "accepted" is on its way (`ActedOnIsKnown`). The poller works
through the pending rows in their order; the order of those it has left is that of
the rows, so they are a set in the model.

**Local API** (`ApiInv`): the throttle holds one entry per key (`OneEntryEach`), and who
waits for an event of delivery has been told nothing yet (`WaitersUntold`). That a
lock is not pushed out needs more than the eviction rule: a failure that has to make
room evicts an entry that locks nobody, if there is one (`VictimIsFree`), and as an
address is counted for itself and for its network, a failure may take two; so while
two entries of the table lock nobody, no lock is lost (`CountedOnce`, `FailureCounted`).

**Directories** (`DirectoryInv`, `ReportsInv`, `DiscoveryInv`): every announcement is
dated by its provider's clock at the time, and what a provider said last is on the air
or in the caller's directory (`SaidLast`), unless two announcements carried the same
date (`tied`) or one was lost. Location reports are sent in the order they were begun,
because those waiting for a provider wait for the same announcement, and dated in that
order; so a registry that compares dates compares the order. The clocks of the nodes
are in step here: `location-registry.ts:145-156` accepts what clocks that are not do.

**Publications** (`PublicationsInv`): a directory's date goes back only for a publisher
that the table forgets at its bound. The store lists its contents in the order they
came. If strangers' urgent contents exceed their budget, the oldest of them has the
score of ordinary content of a stranger (`OldestStranger`), which is below that of
anything vetted and not ranked below ordinary content by its publisher (`ScoreOf`);
the eviction takes a lowest score (`LowestGoes`), and so nothing vetted. Urgencies are
the numbers of `packet.ts:41-48`, where ordinary content has 4: what a vetted publisher
ranks below that is outside the property, as it is in the code.

**Messages** (`MessagesInv`): while no node has restarted every node has one key, and
whoever lists another lists that key; a replay is older than what was accepted
(`ReplaysAreOld`); and while TrustManager has forgotten nobody, whoever is listed is
verified. A response that carries several identities is read one by one, each
possibly evicting another: the argument takes the first one that breaks what held.

**Fragments** (`FragmentsInv`): every packet being written has a place of the
reassembler with all of its fragments so far and no other's, and no older packet has a
fragment in the places after it (`Placed`), unless it may be lost already (`Excused`): it
was one of too many (`crowded`: more under way at once than there are places, or an id
in use twice, which nothing in the phone prevents), or there is a packet cut off by a
failed write, or lost itself, of the same id or of about the same time. Ids wrap around;
those of packets less than `IdSpace` apart differ, and packets in flight are at most
`MaxLag` apart. Outside a crowd, when a place is needed the oldest goes, which is then
nobody's that is still being written.

**Content retrieval** (`FetchInv`): an entry has a slot for each of its fetches and its
candidates are others (`EntrySound`); what counts as received is in the assembler, and
a pending entry has a caller waiting (`CallsSound`). In the first request of a content
(`FirstRound`) every provider is still to be asked, works on its range, waits as a
candidate or is done with (`Standing`), and every missing chunk has somebody to ask
for it, up to the estimate, or up to the true total once a chunk has told it
(`Covers`). A provider at work has its request before it, or has the missing chunks of
its range and then COMPLETE under way (`Works`): a COMPLETE that comes alone comes
after a chunk, so that the total is known when ranges are closed. The chunk count and
the assembler then agree on when all is there, and no call is rejected. Without a
fault (`FaultFree`) there is one round in which somebody is always at work. Nothing of
this is claimed of a later request of the same content, where the COMPLETE of an
abandoned fetch may end the next one (section 6).

**Two roles** (`SessionInv`, `HandshakeInv`): an active session has an activation under
way that has taken the steps before its next one, or is through, and no deactivation
is of that session; a handshake is of an entry with no name yet, so what a failing
handshake removes is never an identified peer. What may remove one is its own end, a
central that leaves, the need for room and a disconnect event, which names a device and
not a link and may be that of an earlier link (section 6). The connections are a set
ordered by
the number they were made with.

**Drops** (`DropsInv`): the Box remembers the key of what it published since its
last restart (`KeysRemember`), the entry of a request under way bears the mark of its
claim, and no other tab has a
request for it, unless it was `overwritten` (`SentIsClaimed`); the form holds a drop that
no queue, flush or call has been given (`FormHolds`); an answer "ok" is only given for
what arrived (`AnswersTruly`). What a call has read and what
is stored differ, while it has not written, only in entries that become `overwritten`
when it does. From it each step of `PhoneDrops` is a step of `Custody` or a stutter:
`TabReloads`, late answers and requests that outlive the tab that sent them included,
and a write over another tab's change gives up custody of the drops it touches and of
no other.

**SOS of the phone** (`SosInv`): an occupied slot means an emergency is active, so a
new SOS never overwrites one (`SlotSound`); what the slot or a request may still put
out was not put out yet, up to the doubts (`BeaconsAccounted`); and the answer to the
request for the SOS in the slot will empty it (`AnswerClaims`), because some waiter
for that request still claims it. Without the last, an SOS published and not claimed
would be flushed again without any answer having been lost. `PhoneHolds` joins this
with the drops, as the run states it.

**External delivery** (`SendsAccounted`): sends made plus handlers that are sending
are at most one more than the doubts while the relay remembers the message, and at
most the doubts when it does not: the reservation is taken before the `await`.

**Simulated link** (`LinkInv`): an entry has two ends; a named peer has an entry;
and what one end has greeted is either still on the air to the other or known there
(`GreetingArrives`). With nothing on the air both ends then know each other.

**TCP connections** (`ConnInv`): what the transport tracks was identified and has not
been closed yet (`TrackedIsLive`), and a HELLO comes from a socket that was wired
(`HelloIsSent`). From the first, a replaced or stopped socket closing late takes
nothing along, because it is tracked no more (`CloseMove`), and the connection that
is replaced is never the one that replaces it (`HelloMove`). From both, with nothing
left to handle, the end a node tracks has a live, identified other end, which by
`NoOrphanSocket` the other node tracks (`QuietAgreement`).

What cannot be proved here, and stays with TLC:

- all liveness: `SendSettles`, `StopCompletes`, `ConnectSettles`, `AnnouncementsDieOut`,
  `RoleAnswers`, `QueueDrains`, `SlotSettles`, `LoraSendSettles`, `ChipSendSettles`,
  `ShutdownCompletes`, `BulletinsAnnounced`, `EmergencyEventuallyLeaves`;
- `QueueFits` of `ExternalDelivery`: the sum of the sizes in a queue is a fold;
- the pure algorithms (`Resilience`, `QrCode`, `RssFeed`, `Records`): recursion over
  data, checked over every input of their bounds;

- `CourierKeepsEmergency`, `PagesAreCurrent` and `DesignSound`, the
  conjunctions of `links`, `radio` and `transport` about components other than the
  ones above, and the properties of `tools`: no theorem yet (section 9).

The order of the phone's drop queue is left open in the model (a queue is a set of
entries): it decides only what a flush sends first, and no property is about it.

## 6. Disagreements with the documentation

Two are shown by violated runs:

- `tools/map-data/tile-service.ts:149` says a slot is freed when the build has
  really finished "o dopo il doppio del tempo"; the timer of twice the time is
  cleared when the simple time is over (`tile_slot`).
- `node/src/node.ts:868` says other private-message payloads "simply aren't chat
  messages"; a node append has the `text` that makes it one (`append_is_chat`).

Others were met while modelling, with TLC or in reading, and have no run of their
own. In the node:

- a failed retry puts a packet back with a new TTL (`storeAndForwardTtlMs` is
  documented as how long a packet is held);
- a route to an unreachable destination can stay for good once counting stops, and
  with a `maxCost` of 6 or more (the code has 64) three nodes can keep routes to it
  round a loop: an offer above the bound is ignored and withdraws nothing, and a
  withdrawal can be overtaken by an advertisement that is older. A unicast packet then
  circles until its hops are spent, since a routed send that succeeds never falls back
  to a flood. `NoTwoNodeLoop` is about two neighbours;
- a peer that connects anew while it is still listed (`tcp.ts:304-320`) gets its full
  announcement, but the routes learned from it before stay, also those it no longer
  has; they stay until it disconnects or a better route is
  offered;
- a write whose error surfaces as an uncaught exception (`tcp.ts:45-73`) is never
  called back: its send does not settle, and the queue of the connection is not
  drained any more while `draining` stays true;
- two connections that replace each other can both be destroyed, and a relay can
  stay "online" after it left;
- the COMPLETE of an abandoned fetch ends the next fetch from the same provider;
- the SX126x driver uses one buffer for sending and receiving, and a LoRa node may
  read its own frame back; `entry.peerId!` may be unset after a refusal;
- a reboot command that arrives before `cli.ts:752` has its handler is lost; bad
  flags are only found after `node.start()`; two launches at once may write two
  identities over one another;
- the time a content was created is not signed.

On the phone:

- a tab that calls `setItem()` with what it read before another tab's write takes that
  write back (`drop-queue.js:193-240`): a drop just saved is gone although the user was
  told it is kept, one just published or given up is back, and a claim is undone, so that
  two tabs may send one entry. `drop-queue.js:218-220` says the claim is not atomic;
  `drop-queue.js:17-18` says queueing never takes anything away;
- an abandoned attempt of the relay deletes its entry, awaits `stopNotifications()` and
  then disconnects by device: it may end the link a newer attempt has made to the same
  device meanwhile, which the comment at `ble-client.js:515-527` means to exclude. The
  list `deactivateRelay()` takes after awaiting `stopLEScan()` may name devices of a
  session started meanwhile (`ble-client.js:727-731` says they are the old session's).
  The new attempt then sees its link go down and its slot is freed like any other's;
- a late disconnect event deletes the entry of the next link to the same device
  (`ble-dual-role-client.js:583-594` says so): the exception in `NamedKept`;
- `flushPendingFor()` writes all the packets that wait for a peer at once
  (`ble-client.js:357-364`), where `ble-link.js:26-31` sees no reason for more than a
  couple under way: with more than its eight places the reassembler gives up packets
  none of whose writes failed.

Around it:

- a relay answers "deduped" to a retry while the send it stands for may still fail:
  the Box then drops the only copy;
- a phone may report an SOS as sent by the gateway on the answer to another SOS's
  request; a flush may send a drop to another Box than the one it was written for
  when the user pairs anew; a body that stalls outlives `fetchWithTimeout`; forms of
  the panel stay disabled when a `fetch` rejects;
- the hub's page takes late answers of a host it has left, and may send a button's
  command to the other host;
- the row of a beacon on the map names the Box that synced last; of two concurrent first
  assignments of a Box the second records that there was none before it, although it
  moves the Box (`auth-db.ts:352-359`): `HistoryHolds` asks for the previous
  organisation of every entry but one whose call read the row while it had none; a login
  attempt
  released in a later window frees a count of that window, so more checks than the
  limit may run;
- releasing a drag after tiles arrived does not always recompute (`app.ts:528`), a
  device released over another tab leaves its links stale, a drag is not always one
  step of the history (`editor.ts:2`), and a retried tile of the view is not counted;
- the resilience report calls a node redundant which a single failure can cut off
  (`resilience.ts:585`); the tile cache stays over its cap while everything in it is
  protected, until the next build.

## 7. Abstractions

- Cryptography, signatures and content hashes verify; providers are honest in
  `ContentFetch`, and an SOS is authentic in `Dissemination`.
- The node's rate limits are not reached in the modules of the mesh. Packets on one
  connection arrive in order; on a broken one a suffix is lost.
- `StoreAndForward` sees an id once; `Dissemination` lets the SeenCache forget.
- Deadlines and timers: where durations are compared the module has a clock;
  elsewhere a timer may fire at any time after it was set, which includes every real
  timing.
- Tables other than the queues modelled stay below their bounds of hundreds and
  thousands: routes, the sightings of `EmergencyBeacons` (the oldest of which would go
  first), catalogs.
- The page decodes a camera picture before the user fills in the form by hand
  (`PhoneDashboard`): a picture under way holds up `SubmitSetup` and nothing else.
- A call of the drop queue ends before its claims lapse or its tab is closed.
- Values are classes (`Records`), places small numbers (`Resilience`), tiles of one
  size (`TileService`).

## 8. Not modelled

Map view, geometry and drawing of the phone; terrain, land cover and radio coverage
computed off line; the simulator that runs real nodes; build scripts, pages and
container definitions: no state of their own, or input and output only. In modelled
components: telemetry, activity logs, pairing codes, the windows of the per-caller
origination budgets and of `PeerRateLimiter`, the levels of `TrustStore` (any level at
any time instead), wording and layout. `components` says so part by part.

Liveness that was checked while the modules were written and has no run now, for
lack of room: `MeshServices!CallSettles`, `LocalApi!RequestAnswered`,
`CommandChannel!EveryCommandSettles`, `PhoneDashboard!FormReleased`,
`TileService!AskedIsAnswered`.

## 9. Plan

1. Theorems for `DistanceVector` (`NextHopConnected`, `NeighbourRouted`) and
   `BleCourier`, and for the remaining conjuncts of `SentOnceUnlessInDoubt` and
   `ConnectionsAgree`.
2. `StoreAndForward` as an implementation of an abstract custody of packets.
3. `GatewayReportIsOwn` of `PhoneSos` and the other disagreements of section 6 as
   properties, when the code is changed.
