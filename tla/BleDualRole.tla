---------------------------- MODULE BleDualRole ----------------------------
(***************************************************************************)
(* The dual-role Bluetooth relay (ble-dual-role-client.js): activateRelay()*)
(* registers listeners and turns the radio on step by step, deactivate-    *)
(* Relay() turns it off step by step, each step preceded by a check that   *)
(* its session is still the current one, and connections holds the links   *)
(* the phone opened and the ones centrals opened to it.                    *)
(***************************************************************************)
EXTENDS Naturals, Sequences, FiniteSets

CONSTANTS
  Devices,
  MaxOut,        \* MAX_CONNECTIONS
  MaxIn,         \* MAX_INBOUND_CONNECTIONS
  MaxSessions,   \* bound: activations and deactivations
  MaxEntries     \* bound: entries made in connections

VARIABLES
  dsession, dactive,
  turningOn,     \* activations under way: [sess, pc]
  turningOff,    \* deactivations under way: [sess, pc, todo]
  radio,         \* what the plug-in has on: "service", "advert", "scan"
  listeners,     \* sessions whose listeners are registered
  entries,       \* connections: [dev, dir, id, named], the oldest has the least id
  pend,          \* handshakes under way: [dev, dir, sess, id, stage]
  links,         \* devices whose outbound link is up
  gone,          \* per device, ends of its outbound links that the plug-in has yet to report
  made           \* entries made so far

vars == <<dsession, dactive, turningOn, turningOff, radio, listeners, entries, pend, links, gone, made>>

On  == <<"listeners", "central", "peripheral", "service", "advert", "scan">>
Off == <<"scan", "advert", "service", "links", "listeners">>
Parts == {"service", "advert", "scan"}

Init ==
  /\ dsession = 0 /\ dactive = FALSE /\ turningOn = {} /\ turningOff = {} /\ radio = {}
  /\ listeners = {} /\ entries = {} /\ pend = {} /\ links = {}
  /\ gone = [d \in Devices |-> 0] /\ made = 0

-----------------------------------------------------------------------------
(* Turning the relay on and off. *)

ActivateRelay ==
  /\ ~dactive /\ dsession < MaxSessions
  /\ dsession' = dsession + 1 /\ dactive' = TRUE /\ entries' = {}
  /\ turningOn' = turningOn \cup {[sess |-> dsession + 1, pc |-> 1]}
  /\ UNCHANGED <<turningOff, radio, listeners, pend, links, gone, made>>

\* registerListeners() makes no check of its own.
RegisterListeners(t) == listeners' = listeners \cup {t.sess}

\* A step of activateRelay() is issued and, later, ends: first the check of
\* the session, then the call.
ActivateStep(t) ==
  LET step == On[t.pc]
      goes == t.sess = dsession \/ step = "listeners"
  IN
  /\ turningOn' = (turningOn \ {t}) \cup
       (IF goes /\ t.pc < Len(On) THEN {[t EXCEPT !.pc = @ + 1]} ELSE {})
  /\ radio' = IF goes /\ step \in Parts THEN radio \cup {step} ELSE radio
  /\ IF step = "listeners" THEN RegisterListeners(t) ELSE UNCHANGED listeners
  /\ UNCHANGED <<dsession, dactive, turningOff, entries, pend, links, gone, made>>

\* A call of the plug-in throws.
ActivateFails(t) ==
  /\ turningOn' = turningOn \ {t}
  /\ dactive' = (dactive /\ t.sess # dsession)
  /\ UNCHANGED <<dsession, turningOff, radio, listeners, entries, pend, links, gone, made>>

DeactivateRelay ==
  /\ dactive /\ dsession < MaxSessions
  /\ dsession' = dsession + 1 /\ dactive' = FALSE
  /\ turningOff' = turningOff \cup {[sess |-> dsession + 1, pc |-> 1, todo |-> {}]}
  /\ UNCHANGED <<turningOn, radio, listeners, entries, pend, links, gone, made>>

\* As if the session were looked at after the call, not before it.
StillMineLate(t) == t.sess = dsession \/ t.pc <= Len(Off)

StillMine(t) == t.sess = dsession

Outbound == {e \in entries : e.dir = "out"}
Inbound  == {e \in entries : e.dir = "in"}

DeactivateStep(t) ==
  /\ t.pc <= Len(Off) /\ t.todo = {}
  /\ LET step == Off[t.pc] IN
     IF StillMine(t)
     THEN /\ turningOff' = (turningOff \ {t}) \cup
               {[t EXCEPT !.pc = @ + 1,
                          !.todo = IF step = "links" THEN {e.dev : e \in Outbound} ELSE {}]}
          /\ radio' = radio \ {step}
          /\ listeners' = IF step = "listeners" THEN {} ELSE listeners
     ELSE turningOff' = turningOff \ {t} /\ UNCHANGED <<radio, listeners>>
  /\ UNCHANGED <<dsession, dactive, turningOn, entries, pend, links, gone, made>>

\* An outbound link ends, by disconnect() or by itself. The plug-in will report it,
\* by its device alone.
Disconnect(d) ==
  /\ links' = links \ {d}
  /\ gone' = IF d \in links THEN [gone EXCEPT ![d] = @ + 1] ELSE gone

\* The disconnect of one device, unless a newer session has begun.
DeactivateDisconnects(t, d) ==
  /\ turningOff' = (turningOff \ {t}) \cup
       {[t EXCEPT !.todo = IF StillMine(t) THEN @ \ {d} ELSE {}]}
  /\ IF StillMine(t) THEN Disconnect(d) ELSE UNCHANGED <<links, gone>>
  /\ UNCHANGED <<dsession, dactive, turningOn, radio, listeners, entries, pend, made>>

DeactivateEnds(t) ==
  /\ t.pc > Len(Off) /\ turningOff' = turningOff \ {t}
  /\ entries' = IF StillMine(t) THEN {} ELSE entries
  /\ UNCHANGED <<dsession, dactive, turningOn, radio, listeners, pend, links, gone, made>>

-----------------------------------------------------------------------------
(* Connections. *)

At(d) == {e \in entries : e.dev = d}
Listening == dactive /\ dsession \in listeners
New(d, dir) == [dev |-> d, dir |-> dir, id |-> made + 1, named |-> FALSE]

Handshake(d, dir, stage) == [dev |-> d, dir |-> dir, sess |-> dsession, id |-> made + 1, stage |-> stage]

\* handleDeviceScanned().
DeviceScanned(d) ==
  /\ Listening /\ "scan" \in radio /\ made < MaxEntries
  /\ At(d) = {} /\ Cardinality(Outbound) < MaxOut
  /\ entries' = entries \cup {New(d, "out")} /\ made' = made + 1
  /\ pend' = pend \cup {Handshake(d, "out", "connect")}
  /\ UNCHANGED <<dsession, dactive, turningOn, turningOff, radio, listeners, links, gone>>

EvictOldestInboundIfFull ==
  IF Cardinality(Inbound) < MaxIn THEN entries
  ELSE entries \ {e \in Inbound : \A f \in Inbound : e.id <= f.id}

\* handleCentralConnected(): an inbound entry and the timer of its HELLO.
CentralConnected(d) ==
  /\ Listening /\ "advert" \in radio /\ made < MaxEntries /\ At(d) = {}
  /\ entries' = EvictOldestInboundIfFull \cup {New(d, "in")} /\ made' = made + 1
  /\ pend' = pend \cup {Handshake(d, "in", "hello")}
  /\ UNCHANGED <<dsession, dactive, turningOn, turningOff, radio, listeners, links, gone>>

\* As if the device alone named the entry.
OwnByDevice(c) == At(c.dev)

\* The entry of a handshake, while it is the one in connections.
Own(c) == {e \in entries : e.id = c.id}

\* cleanupConnection() of an outbound handshake; up: its device's outbound link is up.
Cleanup(c, up) ==
  /\ entries' = entries \ Own(c)
  /\ links' = IF Own(c) # {} THEN links \ {c.dev} ELSE IF up THEN links \cup {c.dev} ELSE links
  /\ gone' = IF Own(c) # {} /\ up THEN [gone EXCEPT ![c.dev] = @ + 1] ELSE gone

\* connectAndConfirm(): the first of deviceConnected, deviceDisconnected, a
\* listener or connect() that fails, and the timer settles it; the timer knows
\* nothing of the link, which may be up.
ConnectAndConfirm ==
  {[ok |-> TRUE, up |-> TRUE], [ok |-> FALSE, up |-> FALSE], [ok |-> FALSE, up |-> TRUE]}

\* connectToPeer() up to the wait for the HELLO.
ConnectEnds(c, r) ==
  /\ c.stage = "connect"
  /\ IF r.ok /\ c.sess = dsession
     THEN /\ pend' = (pend \ {c}) \cup {[c EXCEPT !.stage = "hello"]}
          /\ links' = links \cup {c.dev} /\ UNCHANGED <<entries, gone>>
     ELSE pend' = pend \ {c} /\ Cleanup(c, r.up \/ c.dev \in links)
  /\ UNCHANGED <<dsession, dactive, turningOn, turningOff, radio, listeners, made>>

\* handleFragmentBytes() of a HELLO: it reaches the entry its device has now,
\* through the listeners of any session.
HelloArrives(c) ==
  /\ c.stage = "hello" /\ Own(c) # {} /\ listeners # {} /\ (c.dir = "out" => c.dev \in links)
  /\ pend' = pend \ {c}
  /\ IF c.dir = "out" /\ c.sess # dsession THEN Cleanup(c, TRUE)
     ELSE /\ entries' = (entries \ Own(c)) \cup {[e EXCEPT !.named = TRUE] : e \in Own(c)}
          /\ UNCHANGED <<links, gone>>
  /\ UNCHANGED <<dsession, dactive, turningOn, turningOff, radio, listeners, made>>

\* HELLO_TIMEOUT_MS: an inbound timer acts in its own session only.
HelloFails(c) ==
  /\ c.stage = "hello" /\ pend' = pend \ {c}
  /\ \/ c.dir = "out" /\ Cleanup(c, c.dev \in links)
     \/ c.dir = "in" /\ UNCHANGED <<links, gone>>
        /\ entries' = IF c.sess = dsession THEN entries \ Own(c) ELSE entries
  /\ UNCHANGED <<dsession, dactive, turningOn, turningOff, radio, listeners, made>>

LinkDrops(d) ==
  /\ d \in links /\ Disconnect(d)
  /\ UNCHANGED <<dsession, dactive, turningOn, turningOff, radio, listeners, entries, pend, made>>

\* deviceDisconnected names the device and not the link that ended: told late, it
\* takes the entry of a later link to the same device.
DisconnectTold(d) ==
  /\ gone[d] > 0 /\ gone' = [gone EXCEPT ![d] = @ - 1]
  /\ entries' = IF dsession \in listeners THEN entries \ (At(d) \cap Outbound) ELSE entries
  /\ UNCHANGED <<dsession, dactive, turningOn, turningOff, radio, listeners, pend, links, made>>

\* centralDisconnected, early or late.
CentralLeaves(d) ==
  /\ At(d) \cap Inbound # {}
  /\ dsession \in listeners /\ entries' = entries \ At(d)
  /\ UNCHANGED <<dsession, dactive, turningOn, turningOff, radio, listeners, pend, links, gone, made>>

Next ==
  \/ ActivateRelay \/ DeactivateRelay
  \/ \E t \in turningOn : ActivateStep(t) \/ ActivateFails(t)
  \/ \E t \in turningOff : DeactivateStep(t) \/ DeactivateEnds(t) \/ \E d \in t.todo : DeactivateDisconnects(t, d)
  \/ \E d \in Devices : DeviceScanned(d) \/ CentralConnected(d) \/ LinkDrops(d) \/ DisconnectTold(d) \/ CentralLeaves(d)
  \/ \E c \in pend : HelloArrives(c) \/ HelloFails(c) \/ \E r \in ConnectAndConfirm : ConnectEnds(c, r)

Spec == Init /\ [][Next]_vars

-----------------------------------------------------------------------------
\* Once an activation is through, its listeners are registered and the radio is
\* on in both roles for as long as its session lasts: no step of an overtaken
\* deactivation, issued late, turns off what the new session turned on.
DualRadioOn ==
  (dactive /\ \A t \in turningOn : t.sess # dsession) => radio = Parts /\ dsession \in listeners

\* While the relay is active, an identified peer loses its entry only when its
\* device is reported gone or to make room for another central: no timer or
\* failure of an earlier handshake with the same device, of this session or
\* another, and no step of an earlier session takes it. The report may be late
\* and of an earlier link to the device, which handleDeviceDisconnected() cannot
\* tell and accepts.
NamedKept ==
  (dactive /\ dactive' /\ made' = made) =>
    \A e \in entries : e.named =>
       (\E f \in entries' : f.id = e.id) \/ DisconnectTold(e.dev) \/ CentralLeaves(e.dev)

\* What makes the two hold at every step: an active session has an activation
\* under way that has taken the steps before its next, or is through; no
\* deactivation is of that session; and a handshake is of an entry that has
\* no name yet.
StepsTaken(k) == {On[i] : i \in 1..(k - 1)}

SessionInv ==
  /\ dsession \in Nat /\ dactive \in BOOLEAN /\ radio \subseteq Parts
  /\ turningOn \subseteq [sess : 1..dsession, pc : 1..Len(On)]
  /\ \A t, u \in turningOn : t.sess = u.sess => t = u
  /\ \A t \in turningOff : t.sess \in 1..dsession /\ (dactive => t.sess # dsession)
  /\ listeners \subseteq 1..dsession
  /\ dactive => \A t \in turningOn : t.sess = dsession =>
       StepsTaken(t.pc) \cap Parts \subseteq radio /\ (t.pc > 1 => dsession \in listeners)
  /\ DualRadioOn

HandshakeInv ==
  /\ made \in Nat
  /\ entries \subseteq [dev : Devices, dir : {"out", "in"}, id : 1..made, named : BOOLEAN]
  /\ \A c \in pend : c.id \in 1..made /\ \A e \in Own(c) : ~e.named
  /\ \A c, d \in pend : c.id = d.id => c = d

DualNamedKept == [][NamedKept]_vars
=============================================================================
