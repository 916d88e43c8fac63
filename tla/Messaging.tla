----------------------------- MODULE Messaging -----------------------------
(***************************************************************************)
(* Keys and private messages of a mesh: the identity directories and their *)
(* gossip at connection time, waitForPeerKey(), PRIVATE_MESSAGE with the   *)
(* sender's own announcement, and what it may carry: a text, an append, a  *)
(* relay command, an invitation to a group.                                *)
(*                                                                         *)
(* A node id outlives a restart (--identity-dir), its encryption key does  *)
(* not.  The wire delivers in any order or never, and brings a copy again  *)
(* when its id has aged out of SeenCache.                                  *)
(***************************************************************************)
EXTENDS BoundedMap, Sequences, Functions

CONSTANTS
  Nodes,
  Admins,       \* per node, those an operator gave TrustLevel.ADMIN
  MaxPeers,     \* maxSize of PeerDirectory
  Links,        \* pairs of nodes that may connect, again and again
  Writes,       \* pairs <<from, to>> between which users write
  Waiter,       \* the node whose user waits for a key and opens a group
  MaxLinks,     \* bound: connections made
  MaxMsgs,      \* bound: private messages and groups
  MaxFaults     \* bound: restarts and evictions from TrustManager

\* Nodes are finitely many, a directory has room for one, message ids are counted.
MessagingAssumption ==
  IsFiniteSet(Nodes) /\ MaxPeers \in Nat \ {0} /\ MaxMsgs \in Nat

VARIABLES
  key,          \* encryptionIdentity, by number
  dir, keyOf,   \* peerDirectory: its ids in order, and the key recorded for each
  verified,     \* trust: ids at VERIFIED
  wait,         \* waitForPeerKey() of Waiter: the id, or how it ended
  wire,
  lastSent,     \* lastSentRelayCommandTimestamp
  lastAccepted, \* lastAcceptedRelayCommandAt
  members,      \* groups: which nodes know the group
  acted,        \* the commands a node has acted on since it started
  unread,       \* <<from, to>> of messages that could not be decrypted
  refused,      \* <<from, to>> of appends refused for want of trust
  now, links, msgs, restarts, forgets

vars == <<key, dir, keyOf, verified, wait, wire, lastSent, lastAccepted, members, acted, unread, refused, now, links, msgs, restarts, forgets>>
book == <<dir, keyOf, verified, wait>>
told == <<lastSent, lastAccepted, members, acted, unread, refused>>
counts == <<now, links, msgs, restarts, forgets>>

NoKeys == [m \in Nodes |-> 0]
\* A plain text is read as an append is, and asks for less.
Bodies == {"append", "command"}

Init ==
  /\ key = [n \in Nodes |-> 1]
  /\ dir = [n \in Nodes |-> EmptyMap] /\ keyOf = [n \in Nodes |-> NoKeys]
  /\ verified = [n \in Nodes |-> {}] /\ wait = "none"
  /\ wire = {} /\ lastSent = NoKeys /\ lastAccepted = [n \in Nodes |-> NoKeys]
  /\ members = {}
  /\ acted = [n \in Nodes |-> <<>>] /\ unread = {} /\ refused = {}
  /\ now = 0 /\ links = 0 /\ msgs = 0 /\ restarts = 0 /\ forgets = 0

-----------------------------------------------------------------------------
(* The directory. *)

Announcement(n) == [id |-> n, key |-> key[n]]

\* trustRank(): what eviction spares.
TrustRank(n, ver) == [m \in Nodes |-> IF m \in Admins[n] THEN 2 ELSE IF m \in ver THEN 1 ELSE 0]

\* As if an announcement that came with a message left its sender unverified.
MarkVerifiedNot(ver, id) == ver

MarkVerified(ver, id) == ver \cup {id}

\* acceptIdentityAnnouncement(): the first binding of an id stays.
Accept(n, st, a) ==
  IF a.id = n \/ a.id \in st.map.keys THEN st
  ELSE [map |-> MapSet(st.map, a.id, TrustRank(n, st.ver), MaxPeers),
        key |-> [st.key EXCEPT ![a.id] = a.key],
        ver |-> MarkVerified(st.ver, a.id),
        new |-> st.new \cup {a.id}]

\* What n knows before it reads a list, and after each announcement of it.
Known(n) == [map |-> dir[n], key |-> keyOf[n], ver |-> verified[n], new |-> {}]

Learning(n, anns) ==
  LET st[i \in 0 .. Len(anns)] == IF i = 0 THEN Known(n) ELSE Accept(n, st[i - 1], anns[i])
  IN  st

\* A list of announcements is accepted and "identity:synced" emitted: a wait
\* for one of the new ids ends, if its key is still there.
Learn(n, anns) ==
  LET st == Learning(n, anns)[Len(anns)]
  IN
  /\ dir' = [dir EXCEPT ![n] = st.map]
  /\ keyOf' = [keyOf EXCEPT ![n] = [m \in Nodes |-> IF m \in st.map.keys THEN st.key[m] ELSE 0]]
  /\ verified' = [verified EXCEPT ![n] = st.ver]
  /\ wait' = IF n = Waiter /\ wait \in st.new THEN (IF wait \in st.map.keys THEN "resolved" ELSE "orphaned") ELSE wait

\* startIdentitySync() at both ends of a new connection.
Connect(a, b) ==
  /\ <<a, b>> \in Links /\ links < MaxLinks /\ links' = links + 1
  /\ wire' = wire \cup {[kind |-> "request", from |-> f, to |-> IF f = a THEN b ELSE a,
                         known |-> dir[f].keys \cup {f}] : f \in {a, b}}
  /\ UNCHANGED <<key, book, told, now, msgs, restarts, forgets>>

\* The ids of S in the order of the directory.
Listings(n, S) ==
  {s \in [1 .. Cardinality(S) -> S] : \A i, j \in DOMAIN s : i < j => <<s[i], s[j]>> \in dir[n].older}

\* The directory's announcements of the listed ids, and the node's own last.
Answer(n, listed, known) ==
  [i \in 1 .. Len(listed) |-> [id |-> listed[i], key |-> keyOf[n][listed[i]]]]
    \o (IF n \in known THEN <<>> ELSE <<Announcement(n)>>)

HandleIdentityRequest(p) ==
  LET n == p.to IN
  /\ p.kind = "request"
  /\ \E listed \in Listings(n, dir[n].keys \ p.known) :
       LET anns == Answer(n, listed, p.known) IN
       wire' = (wire \ {p}) \cup (IF anns = <<>> THEN {} ELSE {[kind |-> "response", from |-> n, to |-> p.from, anns |-> anns]})
  /\ UNCHANGED <<key, book, told, counts>>

HandleIdentityResponse(p) ==
  /\ p.kind = "response"
  /\ wire' = wire \ {p}
  /\ Learn(p.to, p.anns)
  /\ UNCHANGED <<key, told, counts>>

WaitForPeerKey(m) ==
  /\ m # Waiter /\ wait = "none"
  /\ wait' = IF m \in dir[Waiter].keys THEN "resolved" ELSE m
  /\ UNCHANGED <<key, dir, keyOf, verified, wire, told, counts>>

WaitTimesOut ==
  /\ wait \in Nodes /\ wait' = "rejected"
  /\ UNCHANGED <<key, dir, keyOf, verified, wire, told, counts>>

-----------------------------------------------------------------------------
(* Messages. *)

Private(f, t, body, ts) ==
  [kind |-> "private", id |-> msgs, from |-> f, to |-> t, fromKey |-> key[f], toKey |-> keyOf[f][t], body |-> body, ts |-> ts]

\* sendRelayCommand(): never the timestamp of an earlier command.
NextTimestamp(f) == IF now > lastSent[f] THEN now ELSE lastSent[f] + 1

\* sendPrivateMessage(), appendToNode(), sendRelayCommand().
SendPrivateMessage(f, t, body) ==
  /\ <<f, t>> \in Writes /\ t \in dir[f].keys /\ msgs < MaxMsgs /\ msgs' = msgs + 1
  /\ lastSent' = IF body = "command" THEN [lastSent EXCEPT ![f] = NextTimestamp(f)] ELSE lastSent
  /\ wire' = wire \cup {Private(f, t, body, IF body = "command" THEN NextTimestamp(f) ELSE 0)}
  /\ UNCHANGED <<key, book, lastAccepted, members, acted, unread, refused, now, links, restarts, forgets>>

\* createGroup(): every member is invited, or nobody.
CreateGroup(f) ==
  /\ f = Waiter /\ members = {} /\ dir[f].keys # {} /\ msgs < MaxMsgs /\ msgs' = msgs + 1
  /\ members' = {f}
  /\ wire' = wire \cup {Private(f, t, "invite", 0) : t \in dir[f].keys}
  /\ UNCHANGED <<key, book, lastSent, lastAccepted, acted, unread, refused, now, links, restarts, forgets>>

\* As if a command with the timestamp of the last one passed.
FreshAgain(p) == p.ts >= lastAccepted[p.to][p.from]

Fresh(p) == p.ts > lastAccepted[p.to][p.from]

\* handlePrivateMessage(): the announcement first, then the text under the key
\* on record, then what it carries.
HandlePrivateMessage(p, copy) ==
  LET n == p.to
      readable == keyOf'[n][p.from] = p.fromKey /\ p.toKey = key[n]
      obeyed == readable /\ p.body = "command" /\ p.from \in Admins[n] /\ Fresh(p)
      appended == p.from \in Admins[n] \/ p.from \in verified'[n]
  IN
  /\ p.kind = "private"
  /\ wire' = IF copy THEN wire ELSE wire \ {p}
  /\ Learn(n, <<[id |-> p.from, key |-> p.fromKey]>>)
  /\ unread' = IF readable THEN unread ELSE unread \cup {<<p.from, n>>}
  /\ refused' = IF readable /\ p.body = "append" /\ ~appended THEN refused \cup {<<p.from, n>>} ELSE refused
  /\ members' = IF readable /\ p.body = "invite" THEN members \cup {n} ELSE members
  /\ lastAccepted' = IF obeyed THEN [lastAccepted EXCEPT ![n][p.from] = p.ts] ELSE lastAccepted
  /\ acted' = IF obeyed THEN [acted EXCEPT ![n] = Append(@, p.id)] ELSE acted
  /\ UNCHANGED <<key, lastSent, counts>>

\* A node starts again: the same id, another encryption key, nothing else.
Restart(n) ==
  /\ restarts + forgets < MaxFaults /\ restarts' = restarts + 1
  /\ key' = [key EXCEPT ![n] = @ + 1]
  /\ dir' = [dir EXCEPT ![n] = EmptyMap] /\ keyOf' = [keyOf EXCEPT ![n] = NoKeys]
  /\ verified' = [verified EXCEPT ![n] = {}] /\ wait' = IF n = Waiter THEN "none" ELSE wait
  /\ lastSent' = [lastSent EXCEPT ![n] = 0] /\ lastAccepted' = [lastAccepted EXCEPT ![n] = NoKeys]
  /\ members' = members \ {n}
  /\ acted' = [acted EXCEPT ![n] = <<>>]
  /\ now' = now + MaxMsgs + 1
  /\ UNCHANGED <<wire, unread, refused, links, msgs, forgets>>

\* ensureCapacityFor(): other ids push one out of TrustManager.
ForgetTrust(n, m) ==
  /\ m \in verified[n] /\ restarts + forgets < MaxFaults /\ forgets' = forgets + 1
  /\ verified' = [verified EXCEPT ![n] = @ \ {m}]
  /\ UNCHANGED <<key, dir, keyOf, wait, wire, told, now, links, msgs, restarts>>

Next ==
  \/ \E a, b \in Nodes : Connect(a, b) \/ ForgetTrust(a, b)
                         \/ \E body \in Bodies : SendPrivateMessage(a, b, body)
  \/ WaitTimesOut \/ \E n \in Nodes : WaitForPeerKey(n) \/ CreateGroup(n) \/ Restart(n)
  \/ \E p \in wire : \/ HandleIdentityRequest(p) \/ HandleIdentityResponse(p)
                     \/ \E copy \in BOOLEAN : HandlePrivateMessage(p, copy)

Spec == Init /\ [][Next]_vars

-----------------------------------------------------------------------------
Announced == [id : Nodes, key : Nat]

Requests  == [kind : {"request"}, from : Nodes, to : Nodes, known : SUBSET Nodes]
Responses == [kind : {"response"}, from : Nodes, to : Nodes, anns : Seq(Announced)]
Privates  == [kind : {"private"}, id : Nat, from : Nodes, to : Nodes, fromKey : Nat, toKey : Nat,
              body : Bodies \cup {"invite"}, ts : Nat]

Directory == [keys : SUBSET Nodes, older : SUBSET (Nodes \X Nodes)]

\* wire, acted and what is counted, by their types.
WireTypes ==
  /\ wire \subseteq Requests \cup Responses \cup Privates
  /\ acted \in [Nodes -> Seq(Nat)]
  /\ now \in Nat /\ msgs \in Nat /\ restarts \in Nat /\ forgets \in Nat

BookTypes ==
  /\ key \in [Nodes -> Nat] /\ dir \in [Nodes -> Directory]
  /\ keyOf \in [Nodes -> [Nodes -> Nat]] /\ verified \in [Nodes -> SUBSET Nodes]
  /\ lastSent \in [Nodes -> Nat] /\ lastAccepted \in [Nodes -> [Nodes -> Nat]]

Commands == {p \in wire : p.kind = "private" /\ p.body = "command"}

ActedOn(n) == {acted[n][i] : i \in DOMAIN acted[n]}

\* Ids are given once, a command goes to one node, and a node that has acted on it
\* takes nothing as old as it from its sender.
IdsOnce ==
  /\ \A p \in wire : p.kind = "private" => p.id < msgs
  /\ \A n \in Nodes : \A id \in ActedOn(n) : id < msgs
  /\ \A p \in Commands : \A q \in wire : q.kind = "private" /\ q.id = p.id => q = p

ReplaysAreOld ==
  \A p \in Commands : p.id \in ActedOn(p.to) => p.ts <= lastAccepted[p.to][p.from]

\* While no node has restarted, there is one key of a node, on the wire and in every
\* directory.
Tells(p) ==
  CASE p.kind = "request"  -> TRUE
    [] p.kind = "response" -> \A i \in DOMAIN p.anns : p.anns[i].key = 1
    [] p.kind = "private"  -> p.fromKey = 1 /\ p.toKey = 1

OneKey ==
  /\ \A n \in Nodes : key[n] = 1 /\ \A m \in dir[n].keys : keyOf[n][m] = 1
  /\ \A p \in wire : Tells(p)

NobodyListsItself ==
  /\ \A n \in Nodes : n \notin dir[n].keys
  /\ \A p \in wire : p.kind = "private" => p.from # p.to

\* Whoever met whom first, however small the directories: while no node has
\* restarted, a message that arrives is decrypted, and while TrustManager has
\* forgotten nobody, its sender counts as verified.
FirstContactWorks == restarts = 0 => unread = {} /\ (forgets = 0 => refused = {})

\* A command is acted on once, however often a copy of it comes and in
\* whatever order, for as long as the node that got it runs.
CommandOnce == \A n \in Nodes : IsInjective(acted[n])

\* What makes the two hold at every step: while TrustManager has forgotten nobody,
\* whoever is listed is verified.
MessagesInv ==
  /\ WireTypes /\ BookTypes
  /\ IdsOnce /\ ReplaysAreOld /\ CommandOnce
  /\ NobodyListsItself
  /\ restarts = 0 => OneKey
  /\ forgets = 0 => \A n \in Nodes : dir[n].keys \subseteq verified[n]
  /\ FirstContactWorks

\* "The destination can always decrypt as long as the announcement's signature
\* checks out."
AlwaysDecrypts == unread = {}

\* waitForPeerKey() "resolves once the key is known, or rejects".
NoWaitHangs == wait # "orphaned"
=============================================================================
