-------------------------- MODULE WifiProvisioning --------------------------
(***************************************************************************)
(* Wi-Fi provisioning of a Box over Bluetooth: provisionWifiOverBluetooth()*)
(* of phones that write a sealed request in fragments, get cut off, reload *)
(* and try again, and the GATT server of the Box, which reassembles per    *)
(* device, tries one network at a time and notifies whoever listens.       *)
(***************************************************************************)
EXTENDS Naturals, Sequences, FiniteSets

CONSTANTS
  Phones,
  Sizes,            \* fragments a request may have
  IdSpace,          \* message ids
  MaxReassemblies,  \* MAX_CONCURRENT_REASSEMBLIES
  MaxTries,         \* bound: attempts of all phones
  MaxReloads        \* bound: reloads and restarts

VARIABLES
  page,         \* per phone [st, try, id, size, at]
  nextMsgId,    \* per phone
  partial,      \* per phone, the Box's reassembler: entries [id, total, chunks], oldest first
  applying,     \* the pieces of the request nmcli is at, {} when none
  wifi,         \* how the last nmcli ended
  outcomes,     \* per try, what its phone was told
  sizeOf,       \* per try, its fragments
  server,       \* "down", "starting" or "up"
  tries, reloads

wifiVars == <<server, page, nextMsgId, partial, applying, wifi, outcomes, sizeOf, tries, reloads>>

Idle == [st |-> "idle", try |-> 0, id |-> 0, size |-> 0, at |-> 0]
Tries == 1..MaxTries

Init ==
  /\ server = "down"
  /\ page = [p \in Phones |-> Idle] /\ nextMsgId = [p \in Phones |-> 0]
  /\ partial = [p \in Phones |-> <<>>]
  /\ applying = {} /\ wifi = "none"
  /\ outcomes = [t \in Tries |-> "none"] /\ sizeOf = [t \in Tries |-> 0]
  /\ tries = 0 /\ reloads = 0

-----------------------------------------------------------------------------
(* The server. *)

\* GetManagedObjects(): the characteristics and what each allows.
GetManagedObjects ==
  [publicKey |-> {"read"}, request |-> {"write", "write-without-response"}, response |-> {"notify"}]

Offers(op, char) == server = "up" /\ op \in GetManagedObjects[char]

\* startWifiGattServer(): a new key pair, the objects exported, BlueZ asked.
StartServer ==
  /\ server = "down" /\ server' = "starting"
  /\ UNCHANGED <<page, nextMsgId, partial, applying, wifi, outcomes, sizeOf, tries, reloads>>

\* findAdapterWithGattManager() found one, both registrations are done.
Registered ==
  /\ server = "starting" /\ server' = "up"
  /\ UNCHANGED <<page, nextMsgId, partial, applying, wifi, outcomes, sizeOf, tries, reloads>>

\* No adapter, an error of the bus or the time is over: all is taken back.
StartFails ==
  /\ server = "starting" /\ server' = "down"
  /\ UNCHANGED <<page, nextMsgId, partial, applying, wifi, outcomes, sizeOf, tries, reloads>>

-----------------------------------------------------------------------------
(* The phone. *)

\* Scan, connect, read the key, subscribe, seal and cut: the writes follow.
Provision(p, n) ==
  /\ Offers("read", "publicKey") /\ Offers("notify", "response")
  /\ page[p].st = "idle" /\ tries < MaxTries /\ tries' = tries + 1
  /\ page' = [page EXCEPT ![p] = [st |-> "on", try |-> tries + 1, id |-> nextMsgId[p], size |-> n, at |-> 0]]
  /\ nextMsgId' = [nextMsgId EXCEPT ![p] = (@ + 1) % IdSpace]
  /\ sizeOf' = [sizeOf EXCEPT ![tries + 1] = n]
  /\ UNCHANGED <<server, partial, applying, wifi, outcomes, reloads>>

\* Those who subscribed are told, whoever asked; the first answer counts.
Told(result) ==
  outcomes' = [t \in Tries |-> IF outcomes[t] = "none" /\ \E p \in Phones : page[p].st = "on" /\ page[p].try = t
                               THEN result ELSE outcomes[t]]

-----------------------------------------------------------------------------
(* The Box. *)

\* As if a fragment went in whatever total it states.
TotalsAgreeAny(e, n) == TRUE

TotalsAgree(e, n) == e.total = n

\* addFragment(): the oldest entry makes room for a new one.
WithFragment(es, f) ==
  LET known == {i \in DOMAIN es : es[i].id = f.id}
      fresh == [id |-> f.id, total |-> f.total, chunks |-> [i \in {f.at} |-> f.try]]
  IN
  IF known = {}
  THEN Append(IF Len(es) >= MaxReassemblies THEN Tail(es) ELSE es, fresh)
  ELSE [i \in DOMAIN es |->
          IF i \in known /\ TotalsAgree(es[i], f.total)
          THEN [es[i] EXCEPT !.chunks = [k \in DOMAIN @ \cup {f.at} |-> IF k = f.at THEN f.try ELSE @[k]]]
          ELSE es[i]]

Complete(e) == Cardinality(DOMAIN e.chunks) = e.total

\* WriteValue(), and the guard that lets one request through at a time.
Write(p) ==
  LET g == page[p]
      es == WithFragment(partial[p], [id |-> g.id, total |-> g.size, at |-> g.at, try |-> g.try])
      done == {i \in DOMAIN es : es[i].id = g.id /\ Complete(es[i])}
      taken == UNION {{<<es[i].chunks[k], k>> : k \in DOMAIN es[i].chunks} : i \in done}
  IN
  /\ g.st = "on" /\ g.at < g.size /\ Offers("write", "request")
  /\ page' = [page EXCEPT ![p].at = @ + 1]
  /\ partial' = [partial EXCEPT ![p] = SelectSeq(es, LAMBDA e : ~(e.id = g.id /\ Complete(e)))]
  /\ applying' = IF applying = {} THEN taken ELSE applying
  /\ IF done # {} /\ applying # {} THEN Told("failed") ELSE UNCHANGED outcomes
  /\ UNCHANGED <<server, nextMsgId, wifi, sizeOf, tries, reloads>>

\* openWifiProvisioningRequest() and nmcli end, and the guard is released.
Applied(ok) ==
  /\ applying # {}
  /\ applying' = {} /\ wifi' = IF ok THEN "connected" ELSE "failed"
  /\ Told(wifi')
  /\ UNCHANGED <<server, page, nextMsgId, partial, sizeOf, tries, reloads>>

\* The call returns what it was told, or its timer or the link ends it; the
\* Box keeps what had been written.
Returns(p) ==
  /\ page[p].st = "on"
  /\ page' = [page EXCEPT ![p] = Idle]
  /\ outcomes' = [outcomes EXCEPT ![page[p].try] = IF @ = "none" THEN "error" ELSE @]
  /\ UNCHANGED <<server, nextMsgId, partial, applying, wifi, sizeOf, tries, reloads>>

\* The application starts again, and counts its messages from zero.
Reload(p) ==
  /\ reloads < MaxReloads /\ reloads' = reloads + 1
  /\ page' = [page EXCEPT ![p] = Idle] /\ nextMsgId' = [nextMsgId EXCEPT ![p] = 0]
  /\ UNCHANGED <<server, partial, applying, wifi, outcomes, sizeOf, tries>>

\* stop(), or the Box starts again: its links drop, so every call ends.
StopServer ==
  /\ server = "up" /\ server' = "down"
  /\ reloads < MaxReloads /\ reloads' = reloads + 1
  /\ partial' = [p \in Phones |-> <<>>] /\ applying' = {}
  /\ page' = [p \in Phones |-> Idle] /\ Told("error")
  /\ UNCHANGED <<nextMsgId, wifi, sizeOf, tries>>

Next ==
  \/ \E p \in Phones : Write(p) \/ Returns(p) \/ Reload(p) \/ \E n \in Sizes : Provision(p, n)
  \/ \E ok \in BOOLEAN : Applied(ok)
  \/ StartServer \/ Registered \/ StartFails \/ StopServer

Spec == Init /\ [][Next]_wifiVars

-----------------------------------------------------------------------------
\* What the Box tries is one whole request of one attempt: what was cut off
\* before, under the same id and from the same phone, never becomes a part of
\* it, and a Box that was busy never takes up half of two.
AppliesWhole == \A x \in applying : applying = {<<x[1], i>> : i \in 0..(sizeOf[x[1]] - 1)}
=============================================================================
