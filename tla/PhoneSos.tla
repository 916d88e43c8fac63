------------------------------ MODULE PhoneSos ------------------------------
(***************************************************************************)
(* The SOS of a phone.  A tap stores the SOS in a one-slot queue that      *)
(* survives the application, and then two channels race: a burst over      *)
(* Bluetooth and a request to the paired gateway.  Whatever does not get   *)
(* through now is retried whenever a peer is identified or the gateway     *)
(* answers the dashboard's poll.  claimSosSuccess() decides which of the   *)
(* channels may report the success, gatewaySosAttempt keeps two requests   *)
(* from overlapping, and the user may conclude the emergency at any time.  *)
(***************************************************************************)
EXTENDS Naturals, TLAPS

CONSTANTS
  Sos,         \* SOS packets the user may send, by packet id
  MaxDoubt,    \* bound: gateway answers lost, per SOS
  None         \* no SOS

\* What the constants are assumed to be.
SosAssumption == None \notin Sos

VARIABLES
  slot,        \* arald.pendingSos in localStorage
  active,      \* arald.activeEmergency: "none", "queued" or "sent"
  sending,     \* the SOS of sendSos() inside raceFirstSuccess(), or None
  racing,      \* channels of that race still open
  attempt,     \* gatewaySosAttempt: the SOS its request carries, or None
  taken,       \* the gateway has published the beacon of this attempt
  waiters,     \* who awaits the attempt: [sos, by]
  burst,       \* the SOS of tryBleSosBurst() under way, or None
  writes,      \* SOS packets being written to a peer by tryFlushPendingSos()
  peers,       \* some Bluetooth peer is identified
  fresh,       \* ghost: SOS never sent yet
  dropped,     \* ghost: SOS concluded by the user or expired
  reports,     \* ghost: calls of markEmergencySent(), per SOS and channel
  published,   \* ghost: beacons the gateway originated, per SOS
  doubt        \* ghost: gateway answers that were lost, per SOS

vars == <<slot, active, sending, racing, attempt, taken, waiters, burst, writes,
          peers, fresh, dropped, reports, published, doubt>>

Channels == {"gateway", "bluetooth"}

Init ==
  /\ slot = None /\ active = "none" /\ sending = None /\ racing = {}
  /\ attempt = None /\ taken = FALSE /\ waiters = {}
  /\ burst = None /\ writes = {} /\ peers = FALSE
  /\ fresh = Sos /\ dropped = {}
  /\ reports = [s \in Sos |-> [c \in Channels |-> 0]]
  /\ published = [s \in Sos |-> 0] /\ doubt = [s \in Sos |-> 0]

-----------------------------------------------------------------------------
(* claimSosSuccess() and markEmergencySent(): whoever finds its own packet *)
(* still in the slot empties it and reports; the others say nothing.       *)

MarkSent == active' = IF active = "queued" THEN "sent" ELSE active

\* As if the claim did not look at which packet the slot holds.
ClaimAny(S, c) ==
  IF slot # None
  THEN LET s == CHOOSE x \in S : TRUE IN
       /\ slot' = None
       /\ MarkSent
       /\ reports' = [reports EXCEPT ![s][c] = @ + 1]
  ELSE UNCHANGED <<slot, active, reports>>

Claim(S, c) ==
  IF slot \in S
  THEN /\ slot' = None
       /\ MarkSent
       /\ reports' = [reports EXCEPT ![slot][c] = @ + 1]
  ELSE UNCHANGED <<slot, active, reports>>

\* tryGatewaySosChannel(): a caller that finds a request under way awaits that
\* one, whatever SOS it carries.
Join(s, by) ==
  /\ waiters' = waiters \cup {[sos |-> s, by |-> by]}
  /\ IF attempt = None THEN attempt' = s /\ taken' = FALSE
                       ELSE UNCHANGED <<attempt, taken>>

-----------------------------------------------------------------------------
(* The user. *)

\* sendSos(): into the slot first, then both channels at once.
StartRace(s) ==
  /\ slot' = s
  /\ sending' = s /\ racing' = Channels /\ burst' = s
  /\ Join(s, "race")

\* The send button, disabled while an earlier sendSos() has not returned and
\* out of reach while an emergency is active: state and slot first, then the race.
SendSos(s) ==
  /\ s \in fresh /\ active = "none" /\ sending = None
  /\ fresh' = fresh \ {s}
  /\ active' = "queued"
  /\ StartRace(s)
  /\ UNCHANGED <<writes, peers, dropped, reports, published, doubt>>

\* "emergency-conclude": forgets the slot and the state, not what is under way.
Conclude ==
  /\ active # "none"
  /\ active' = "none" /\ slot' = None
  /\ dropped' = IF slot = None THEN dropped ELSE dropped \cup {slot}
  /\ UNCHANGED <<sending, racing, attempt, taken, waiters, burst, writes, peers,
                 fresh, reports, published, doubt>>

\* loadPendingSos() clears an SOS whose packet has expired.
Expire ==
  /\ slot # None
  /\ slot' = None /\ dropped' = dropped \cup {slot}
  /\ UNCHANGED <<active, sending, racing, attempt, taken, waiters, burst, writes,
                 peers, fresh, reports, published, doubt>>

-----------------------------------------------------------------------------
(* The gateway. *)

\* tryFlushPendingSosViaGateway(), after a poll of the dashboard that succeeded.
FlushViaGateway ==
  /\ slot # None
  /\ Join(slot, "flush")
  /\ UNCHANGED <<slot, active, sending, racing, burst, writes, peers, fresh,
                 dropped, reports, published, doubt>>

GatewayPublishes ==
  /\ attempt # None /\ ~taken
  /\ taken' = TRUE
  /\ published' = [published EXCEPT ![attempt] = @ + 1]
  /\ UNCHANGED <<slot, active, sending, racing, attempt, waiters, burst, writes,
                 peers, fresh, dropped, reports, doubt>>

\* raceFirstSuccess(): the first success ends it, and so does the last failure.
RaceResult(c, ok) ==
  IF c \notin racing THEN UNCHANGED <<sending, racing>>
  ELSE IF ok \/ racing = {c} THEN sending' = None /\ racing' = {}
  ELSE sending' = sending /\ racing' = racing \ {c}

RacerAwaits == \E w \in waiters : w.by = "race" /\ w.sos = sending

GatewayAnswers ==
  /\ attempt # None /\ taken
  /\ attempt' = None /\ taken' = FALSE /\ waiters' = {}
  /\ IF RacerAwaits THEN RaceResult("gateway", TRUE) ELSE UNCHANGED <<sending, racing>>
  /\ Claim({w.sos : w \in {x \in waiters : x.by = "flush" \/ (x.sos = sending /\ "gateway" \in racing)}},
           "gateway")
  /\ UNCHANGED <<burst, writes, peers, fresh, dropped, published, doubt>>

\* Refused, unreachable, or timed out, possibly after the beacon went out.
GatewayFails ==
  /\ attempt # None
  /\ taken => doubt[attempt] < MaxDoubt
  /\ doubt' = IF taken THEN [doubt EXCEPT ![attempt] = @ + 1] ELSE doubt
  /\ attempt' = None /\ taken' = FALSE /\ waiters' = {}
  /\ IF RacerAwaits THEN RaceResult("gateway", FALSE) ELSE UNCHANGED <<sending, racing>>
  /\ UNCHANGED <<slot, active, burst, writes, peers, fresh, dropped, reports, published>>

-----------------------------------------------------------------------------
(* Bluetooth. *)

\* The burst counts as a success if a peer is identified when it ends.
BurstEnds ==
  /\ burst # None
  /\ burst' = None
  /\ IF burst = sending THEN RaceResult("bluetooth", peers) ELSE UNCHANGED <<sending, racing>>
  /\ IF burst = sending /\ "bluetooth" \in racing /\ peers
     THEN Claim({burst}, "bluetooth") ELSE UNCHANGED <<slot, active, reports>>
  /\ UNCHANGED <<attempt, taken, waiters, writes, peers, fresh, dropped, published, doubt>>

\* handleNotification() identifies a peer and starts tryFlushPendingSos().
PeerIdentified ==
  /\ peers' = TRUE
  /\ writes' = IF slot = None THEN writes ELSE writes \cup {slot}
  /\ UNCHANGED <<slot, active, sending, racing, attempt, taken, waiters, burst,
                 fresh, dropped, reports, published, doubt>>

WriteEnds(s, ok) ==
  /\ s \in writes
  /\ writes' = writes \ {s}
  /\ IF ok THEN Claim({s}, "bluetooth") ELSE UNCHANGED <<slot, active, reports>>
  /\ UNCHANGED <<sending, racing, attempt, taken, waiters, burst, peers, fresh,
                 dropped, published, doubt>>

PeersLeave ==
  /\ peers /\ peers' = FALSE
  /\ UNCHANGED <<slot, active, sending, racing, attempt, taken, waiters, burst,
                 writes, fresh, dropped, reports, published, doubt>>

\* The application is closed and opened again: only localStorage is left.  A
\* request on its way may still be published.
AppRestarts ==
  /\ attempt # None => doubt[attempt] < MaxDoubt
  /\ \E lands \in BOOLEAN :
        LET out == attempt # None /\ (taken \/ lands) IN
        /\ published' = IF out /\ ~taken THEN [published EXCEPT ![attempt] = @ + 1] ELSE published
        /\ doubt' = IF out THEN [doubt EXCEPT ![attempt] = @ + 1] ELSE doubt
  /\ sending' = None /\ racing' = {} /\ attempt' = None /\ taken' = FALSE
  /\ waiters' = {} /\ burst' = None /\ writes' = {} /\ peers' = FALSE
  /\ UNCHANGED <<slot, active, fresh, dropped, reports>>

Next ==
  \/ \E s \in Sos : SendSos(s)
  \/ Conclude \/ Expire \/ FlushViaGateway \/ GatewayPublishes \/ GatewayAnswers
  \/ GatewayFails \/ BurstEnds \/ PeerIdentified \/ PeersLeave \/ AppRestarts
  \/ \E s \in Sos, ok \in BOOLEAN : WriteEnds(s, ok)

Spec == Init /\ [][Next]_vars

-----------------------------------------------------------------------------
Reports(s) == reports[s]["gateway"] + reports[s]["bluetooth"]

\* An SOS that was sent, that no channel has reported and that neither the user
\* nor its expiry has ended is still in the queue, whatever races, failures and
\* restarts came in between; and it is reported once at most.
KeptUntilReported ==
  \A s \in Sos \ fresh :
     /\ Reports(s) <= 1
     /\ Reports(s) = 0 /\ s \notin dropped => slot = s

\* The gateway originates a second beacon for an SOS only if its answer to the
\* first was lost: the retry of the dashboard's poll never overtakes the
\* request of sendSos() itself.
OneBeaconUnlessInDoubt == \A s \in Sos : published[s] <= 1 + doubt[s]

\* An SOS reported as sent through the gateway is one the gateway was given.
GatewayReportIsOwn ==
  \A s \in Sos : reports[s]["gateway"] > 0 => published[s] > 0

-----------------------------------------------------------------------------
(***************************************************************************)
(* For any number of SOS and of lost answers: an SOS is kept until it is   *)
(* reported, reported once, and published again only if an answer was      *)
(* lost.                                                                   *)
(***************************************************************************)

SosTypes ==
  /\ slot \in Sos \cup {None} /\ sending \in Sos \cup {None} /\ attempt \in Sos \cup {None}
  /\ waiters \subseteq [sos : Sos, by : {"race", "flush"}]
  /\ racing \subseteq Channels /\ fresh \subseteq Sos /\ taken \in BOOLEAN
  /\ reports \in [Sos -> [Channels -> Nat]]
  /\ published \in [Sos -> Nat] /\ doubt \in [Sos -> Nat]

\* The slot is only overwritten when it is empty: an SOS in it means an emergency
\* is active.  What it holds no channel has reported.
SlotSound ==
  /\ slot # None => slot \notin fresh /\ active = "queued" /\ Reports(slot) = 0
  /\ \A s \in fresh : reports[s] = [c \in Channels |-> 0] /\ published[s] = 0
  /\ attempt # None => attempt \notin fresh

\* Beacons: what the slot or a request may still put out was not put out yet.
BeaconsAccounted ==
  \A s \in Sos :
    /\ published[s] <= 1 + doubt[s]
    /\ attempt = s /\ ~taken => published[s] <= doubt[s]
    /\ slot = s /\ attempt # s => published[s] <= doubt[s]

\* The answer to the request of the SOS in the slot will empty the slot.
AnswerClaims ==
  attempt # None /\ slot = attempt =>
    \E w \in waiters : w.sos = attempt /\ (w.by = "flush" \/ (sending = attempt /\ "gateway" \in racing))

SosInv == SosTypes /\ SlotSound /\ BeaconsAccounted /\ AnswerClaims /\ KeptUntilReported

\* A claim empties the slot and reports what was in it, or does nothing.
LEMMA ClaimReports ==
  ASSUME SosAssumption, SosInv, NEW S \in SUBSET Sos, NEW c \in Channels, Claim(S, c), UNCHANGED <<fresh, dropped>>
  PROVE  /\ slot' = (IF slot \in S THEN None ELSE slot)
         /\ reports' \in [Sos -> [Channels -> Nat]]
         /\ slot' # None => active' = "queued" /\ Reports(slot)' = 0
         /\ \A s \in fresh : reports'[s] = [x \in Channels |-> 0]
         /\ KeptUntilReported'
<1> USE DEF SosInv
<1>1. CASE slot \notin S
  <2>1. UNCHANGED <<slot, active, reports>>
    BY <1>1 DEF Claim
  <2> QED BY <1>1, <2>1 DEF SosTypes, SlotSound, Reports, KeptUntilReported
<1>2. CASE slot \in S
  <2>1. /\ slot \in Sos /\ slot # None /\ slot \notin fresh /\ Reports(slot) = 0
        /\ slot' = None /\ reports' = [reports EXCEPT ![slot] = [reports[slot] EXCEPT ![c] = reports[slot][c] + 1]]
    BY <1>2 DEF Claim, SosAssumption, SlotSound
  <2>2. /\ reports[slot] \in [Channels -> Nat] /\ "gateway" \in Channels /\ "bluetooth" \in Channels
        /\ c = "gateway" \/ c = "bluetooth"
    BY <2>1 DEF SosTypes, Channels
  <2>3. reports[slot]["gateway"] = 0 /\ reports[slot]["bluetooth"] = 0
    BY <2>1, <2>2 DEF Reports
  <2>4. /\ reports' \in [Sos -> [Channels -> Nat]]
        /\ \A s \in Sos : s # slot => reports'[s] = reports[s]
    BY <2>1, <2>2 DEF SosTypes
  <2>5. reports'[slot]["gateway"] + reports'[slot]["bluetooth"] = 1
    BY <2>1, <2>2, <2>3 DEF SosTypes
  <2>6. KeptUntilReported'
    <3> SUFFICES ASSUME NEW s \in Sos \ fresh
                 PROVE  /\ reports'[s]["gateway"] + reports'[s]["bluetooth"] <= 1
                        /\ reports'[s]["gateway"] + reports'[s]["bluetooth"] = 0 /\ s \notin dropped => slot' = s
      BY DEF KeptUntilReported, Reports
    <3>1. CASE s = slot
      BY <2>5, <3>1
    <3>2. CASE s # slot
      BY <2>4, <3>2 DEF KeptUntilReported, Reports
    <3> QED BY <3>1, <3>2
  <2> QED BY <1>2, <2>1, <2>4, <2>6 DEF SlotSound, SosTypes
<1> QED BY <1>1, <1>2

LEMMA InitSound == ASSUME SosAssumption, Init PROVE SosInv
<1>1. SosTypes
  BY DEF Init, SosTypes, Channels
<1>2. \A s \in Sos : Reports(s) = 0
  BY DEF Init, Reports, Channels
<1> QED BY <1>1, <1>2 DEF Init, SosInv, SlotSound, BeaconsAccounted, AnswerClaims, KeptUntilReported

\* Whoever awaits the request under way, the queue and the reports are the same.
LEMMA JoinTypes ==
  ASSUME SosTypes, NEW s \in Sos, NEW by \in {"race", "flush"}, Join(s, by)
  PROVE  /\ attempt' = (IF attempt = None THEN s ELSE attempt)
         /\ taken' = (IF attempt = None THEN FALSE ELSE taken)
         /\ waiters' \subseteq [sos : Sos, by : {"race", "flush"}]
         /\ [sos |-> s, by |-> by] \in waiters'
         /\ waiters \subseteq waiters'
<1>1. waiters' = waiters \cup {[sos |-> s, by |-> by]}
  BY DEF Join
<1>2. [sos |-> s, by |-> by] \in [sos : Sos, by : {"race", "flush"}]
  OBVIOUS
<1>3. /\ attempt' = (IF attempt = None THEN s ELSE attempt)
      /\ taken' = (IF attempt = None THEN FALSE ELSE taken)
  BY DEF Join
<1>4. waiters' \subseteq [sos : Sos, by : {"race", "flush"}]
  BY <1>1, <1>2 DEF SosTypes
<1>5. [sos |-> s, by |-> by] \in waiters' /\ waiters \subseteq waiters'
  BY <1>1
<1> QED BY <1>3, <1>4, <1>5

LEMMA SendStep == ASSUME SosAssumption, SosInv, NEW s \in Sos, SendSos(s) PROVE SosInv'
<1> USE DEF SosInv
<1>1. /\ s \in fresh /\ s # None /\ sending = None /\ slot = None
      /\ fresh' = fresh \ {s} /\ active' = "queued" /\ slot' = s /\ sending' = s /\ racing' = Channels
      /\ UNCHANGED <<dropped, reports, published, doubt>>
      /\ Join(s, "race")
  BY DEF SendSos, StartRace, SlotSound, SosAssumption
<1>2. /\ attempt' = (IF attempt = None THEN s ELSE attempt)
      /\ taken' = (IF attempt = None THEN FALSE ELSE taken)
      /\ waiters' \subseteq [sos : Sos, by : {"race", "flush"}]
      /\ [sos |-> s, by |-> "race"] \in waiters'
  BY <1>1, JoinTypes
<1>3. /\ reports[s] = [c \in Channels |-> 0] /\ published[s] = 0 /\ attempt # s
      /\ \A x \in Sos : Reports(x)' = Reports(x)
  BY <1>1 DEF SlotSound, SosAssumption, Reports
<1>4. Reports(s) = 0
  BY <1>3 DEF Reports, Channels
<1>5. SosTypes'
  BY <1>1, <1>2 DEF SosTypes
<1>6. SlotSound'
  <2>1. slot' # None => slot' \notin fresh' /\ active' = "queued" /\ Reports(slot)' = 0
    BY <1>1, <1>4 DEF Reports
  <2>2. \A x \in fresh' : reports'[x] = [c \in Channels |-> 0] /\ published'[x] = 0
    BY <1>1 DEF SlotSound
  <2>3. attempt' # None => attempt' \notin fresh'
    BY <1>1, <1>2 DEF SlotSound
  <2> QED BY <2>1, <2>2, <2>3 DEF SlotSound
<1>7. BeaconsAccounted'
  BY <1>1, <1>2, <1>3 DEF BeaconsAccounted, SosTypes
<1>8. AnswerClaims'
  BY <1>1, <1>2, <1>3 DEF AnswerClaims, Channels
<1>9. KeptUntilReported'
  BY <1>1, <1>3, <1>4 DEF KeptUntilReported, SosTypes, SosAssumption
<1> QED BY <1>5, <1>6, <1>7, <1>8, <1>9

\* The user's conclusion and the expiry empty the slot and note it.
LEMMA ForgetStep ==
  ASSUME SosAssumption, SosInv, slot' = None,
         dropped' = dropped \cup {slot} \/ (slot = None /\ dropped' = dropped),
         UNCHANGED <<sending, racing, attempt, taken, waiters, fresh, reports, published, doubt>>
  PROVE  SosInv'
<1> USE DEF SosInv
<1>1. SosTypes'
  BY DEF SosTypes
<1>2. SlotSound' /\ BeaconsAccounted' /\ AnswerClaims'
  BY DEF SlotSound, BeaconsAccounted, AnswerClaims, SosTypes, SosAssumption
<1>3. \A x \in Sos : Reports(x)' = Reports(x)
  BY DEF Reports
<1>4. KeptUntilReported'
  BY <1>3 DEF KeptUntilReported, SosTypes, SosAssumption
<1> QED BY <1>1, <1>2, <1>4

LEMMA FlushStep == ASSUME SosAssumption, SosInv, FlushViaGateway PROVE SosInv'
<1> USE DEF SosInv
<1>1. /\ slot \in Sos /\ slot # None /\ Join(slot, "flush")
      /\ UNCHANGED <<slot, active, sending, racing, fresh, dropped, reports, published, doubt>>
  BY DEF FlushViaGateway, SosTypes
<1>2. /\ attempt' = (IF attempt = None THEN slot ELSE attempt)
      /\ taken' = (IF attempt = None THEN FALSE ELSE taken)
      /\ waiters' \subseteq [sos : Sos, by : {"race", "flush"}]
      /\ [sos |-> slot, by |-> "flush"] \in waiters' /\ waiters \subseteq waiters'
  BY <1>1, JoinTypes
<1>3. SosTypes'
  BY <1>1, <1>2 DEF SosTypes
<1>4. SlotSound' /\ KeptUntilReported'
  BY <1>1, <1>2 DEF SlotSound, KeptUntilReported, Reports
<1>5. BeaconsAccounted'
  BY <1>1, <1>2 DEF BeaconsAccounted
<1>6. AnswerClaims'
  BY <1>1, <1>2 DEF AnswerClaims
<1> QED BY <1>3, <1>4, <1>5, <1>6

LEMMA PublishStep == ASSUME SosAssumption, SosInv, GatewayPublishes PROVE SosInv'
<1> USE DEF SosInv
<1>1. /\ attempt \in Sos /\ attempt # None /\ ~taken /\ taken' = TRUE /\ attempt \notin fresh
      /\ published' = [published EXCEPT ![attempt] = @ + 1]
      /\ UNCHANGED <<slot, active, sending, racing, attempt, waiters, fresh, dropped, reports, doubt>>
  BY DEF GatewayPublishes, SosTypes, SlotSound
<1>2. /\ published'[attempt] = published[attempt] + 1
      /\ \A x \in Sos : x # attempt => published'[x] = published[x]
  BY <1>1 DEF SosTypes
<1>3. SosTypes'
  BY <1>1 DEF SosTypes
<1>4. SlotSound' /\ KeptUntilReported' /\ AnswerClaims'
  BY <1>1, <1>2 DEF SlotSound, KeptUntilReported, Reports, AnswerClaims, SosTypes
<1>5. BeaconsAccounted'
  <2> SUFFICES ASSUME NEW x \in Sos
               PROVE  /\ published'[x] <= 1 + doubt[x]
                      /\ slot = x /\ attempt # x => published'[x] <= doubt[x]
    BY <1>1 DEF BeaconsAccounted
  <2>1. published[x] \in Nat /\ doubt[x] \in Nat
    BY DEF SosTypes
  <2>2. CASE x = attempt
    BY <1>1, <1>2, <2>1, <2>2 DEF BeaconsAccounted
  <2>3. CASE x # attempt
    BY <1>1, <1>2, <2>1, <2>3 DEF BeaconsAccounted
  <2> QED BY <2>2, <2>3
<1> QED BY <1>3, <1>4, <1>5

\* What a channel of the race tells it leaves a race of a known SOS.
LEMMA RaceTypes ==
  ASSUME SosTypes, NEW c \in Channels, NEW ok \in BOOLEAN, RaceResult(c, ok)
  PROVE  sending' \in Sos \cup {None} /\ racing' \subseteq Channels
BY DEF RaceResult, SosTypes

LEMMA AnswerStep == ASSUME SosAssumption, SosInv, GatewayAnswers PROVE SosInv'
<1> DEFINE S == {w.sos : w \in {x \in waiters : x.by = "flush" \/ (x.sos = sending /\ "gateway" \in racing)}}
<1> USE DEF SosInv
<1>1. /\ attempt # None /\ taken /\ attempt' = None /\ taken' = FALSE /\ waiters' = {}
      /\ Claim(S, "gateway")
      /\ UNCHANGED <<fresh, dropped, published, doubt>>
  BY DEF GatewayAnswers
<1>2. S \subseteq Sos /\ (slot = attempt => slot \in S)
  BY <1>1 DEF SosTypes, AnswerClaims
<1>3. sending' \in Sos \cup {None} /\ racing' \subseteq Channels
  BY RaceTypes DEF GatewayAnswers, SosTypes, Channels
<1> HIDE DEF S
<1>4. "gateway" \in Channels
  BY DEF Channels
<1>5. /\ slot' = (IF slot \in S THEN None ELSE slot)
      /\ reports' \in [Sos -> [Channels -> Nat]]
      /\ slot' # None => active' = "queued" /\ Reports(slot)' = 0
      /\ \A s \in fresh : reports'[s] = [x \in Channels |-> 0]
      /\ KeptUntilReported'
  BY <1>1, <1>2, <1>4, ClaimReports
<1>6. SosTypes'
  BY <1>1, <1>3, <1>5 DEF SosTypes
<1>7. SlotSound'
  BY <1>1, <1>5 DEF SlotSound
<1>8. BeaconsAccounted'
  BY <1>1, <1>2, <1>5 DEF BeaconsAccounted, SosAssumption
<1>9. AnswerClaims'
  BY <1>1 DEF AnswerClaims
<1> QED BY <1>5, <1>6, <1>7, <1>8, <1>9

LEMMA FailStep == ASSUME SosAssumption, SosInv, GatewayFails PROVE SosInv'
<1> USE DEF SosInv
<1>1. /\ attempt \in Sos /\ attempt # None /\ attempt' = None /\ taken' = FALSE /\ waiters' = {}
      /\ doubt' = IF taken THEN [doubt EXCEPT ![attempt] = @ + 1] ELSE doubt
      /\ UNCHANGED <<slot, active, fresh, dropped, reports, published>>
  BY DEF GatewayFails, SosTypes
<1>2. sending' \in Sos \cup {None} /\ racing' \subseteq Channels
  BY RaceTypes DEF GatewayFails, SosTypes, Channels
<1>3. /\ doubt' \in [Sos -> Nat]
      /\ \A x \in Sos : x # attempt => doubt'[x] = doubt[x]
      /\ doubt'[attempt] = IF taken THEN doubt[attempt] + 1 ELSE doubt[attempt]
  BY <1>1 DEF SosTypes
<1>4. SosTypes'
  BY <1>1, <1>2, <1>3 DEF SosTypes
<1>5. SlotSound' /\ KeptUntilReported' /\ AnswerClaims'
  BY <1>1 DEF SlotSound, KeptUntilReported, Reports, AnswerClaims
<1>6. BeaconsAccounted'
  <2> SUFFICES ASSUME NEW x \in Sos
               PROVE  /\ published[x] <= 1 + doubt'[x]
                      /\ slot = x => published[x] <= doubt'[x]
    BY <1>1 DEF BeaconsAccounted, SosAssumption
  <2>1. published[x] \in Nat /\ doubt[x] \in Nat
    BY DEF SosTypes
  <2>2. CASE x = attempt
    BY <1>1, <1>3, <2>1, <2>2 DEF BeaconsAccounted, SosTypes
  <2>3. CASE x # attempt
    BY <1>1, <1>3, <2>1, <2>3 DEF BeaconsAccounted
  <2> QED BY <2>2, <2>3
<1> QED BY <1>4, <1>5, <1>6

LEMMA BurstStep == ASSUME SosAssumption, SosInv, BurstEnds PROVE SosInv'
<1> USE DEF SosInv
<1>1. UNCHANGED <<attempt, taken, waiters, fresh, dropped, published, doubt>>
  BY DEF BurstEnds
<1>2. CASE burst = sending /\ "bluetooth" \in racing /\ peers
  <2>1. burst \in Sos /\ Claim({burst}, "bluetooth") /\ sending' = None /\ racing' = {}
    BY <1>2 DEF BurstEnds, RaceResult, SosTypes
  <2>2. {burst} \in SUBSET Sos /\ "bluetooth" \in Channels
    BY <2>1 DEF Channels
  <2>3. /\ slot' = (IF slot \in {burst} THEN None ELSE slot)
        /\ reports' \in [Sos -> [Channels -> Nat]]
        /\ slot' # None => active' = "queued" /\ Reports(slot)' = 0
        /\ \A s \in fresh : reports'[s] = [x \in Channels |-> 0]
        /\ KeptUntilReported'
    BY <1>1, <2>1, <2>2, ClaimReports
  <2>4. SosTypes'
    BY <1>1, <2>1, <2>3 DEF SosTypes
  <2>5. SlotSound'
    BY <1>1, <2>3 DEF SlotSound
  <2>6. BeaconsAccounted' /\ AnswerClaims'
    BY <1>1, <1>2, <2>1, <2>3 DEF BeaconsAccounted, AnswerClaims, SosAssumption
  <2> QED BY <2>3, <2>4, <2>5, <2>6
<1>3. CASE ~(burst = sending /\ "bluetooth" \in racing /\ peers)
  <2>1. UNCHANGED <<slot, active, reports>>
    BY <1>3 DEF BurstEnds
  <2>2. /\ sending' \in Sos \cup {None} /\ racing' \subseteq Channels
        /\ sending \in Sos /\ "gateway" \in racing => sending' = sending /\ "gateway" \in racing'
    BY <1>3 DEF BurstEnds, RaceResult, SosTypes
  <2>3. SosTypes'
    BY <1>1, <2>1, <2>2 DEF SosTypes
  <2>4. SlotSound' /\ KeptUntilReported' /\ BeaconsAccounted'
    BY <1>1, <2>1 DEF SlotSound, KeptUntilReported, BeaconsAccounted, Reports
  <2>5. AnswerClaims'
    BY <1>1, <2>1, <2>2 DEF AnswerClaims, SosTypes
  <2> QED BY <2>3, <2>4, <2>5
<1> QED BY <1>2, <1>3

LEMMA WriteStep ==
  ASSUME SosAssumption, SosInv, NEW s \in Sos, NEW ok \in BOOLEAN, WriteEnds(s, ok)
  PROVE  SosInv'
<1> USE DEF SosInv
<1>1. UNCHANGED <<sending, racing, attempt, taken, waiters, fresh, dropped, published, doubt>>
  BY DEF WriteEnds
<1>2. CASE ok
  <2>1. Claim({s}, "bluetooth") /\ {s} \in SUBSET Sos /\ "bluetooth" \in Channels
    BY <1>2 DEF WriteEnds, Channels
  <2>2. /\ slot' = (IF slot \in {s} THEN None ELSE slot)
        /\ reports' \in [Sos -> [Channels -> Nat]]
        /\ slot' # None => active' = "queued" /\ Reports(slot)' = 0
        /\ \A x \in fresh : reports'[x] = [c \in Channels |-> 0]
        /\ KeptUntilReported'
    BY <1>1, <2>1, ClaimReports
  <2>3. SosTypes'
    BY <1>1, <2>2 DEF SosTypes
  <2>4. SlotSound'
    BY <1>1, <2>2 DEF SlotSound
  <2>5. BeaconsAccounted' /\ AnswerClaims'
    BY <1>1, <2>2 DEF BeaconsAccounted, AnswerClaims, SosAssumption
  <2> QED BY <2>2, <2>3, <2>4, <2>5
<1>3. CASE ~ok
  <2>1. UNCHANGED <<slot, active, reports>>
    BY <1>3 DEF WriteEnds
  <2> QED BY <1>1, <2>1 DEF SosTypes, SlotSound, BeaconsAccounted, AnswerClaims, KeptUntilReported, Reports
<1> QED BY <1>2, <1>3

LEMMA RestartStep == ASSUME SosAssumption, SosInv, AppRestarts PROVE SosInv'
<1> USE DEF SosInv
<1>1. /\ sending' = None /\ racing' = {} /\ attempt' = None /\ taken' = FALSE /\ waiters' = {}
      /\ UNCHANGED <<slot, active, fresh, dropped, reports>>
  BY DEF AppRestarts
<1>2. PICK lands \in BOOLEAN :
        LET out == attempt # None /\ (taken \/ lands) IN
        /\ published' = IF out /\ ~taken THEN [published EXCEPT ![attempt] = @ + 1] ELSE published
        /\ doubt' = IF out THEN [doubt EXCEPT ![attempt] = @ + 1] ELSE doubt
  BY DEF AppRestarts
<1>3. /\ published' \in [Sos -> Nat] /\ doubt' \in [Sos -> Nat]
      /\ \A x \in Sos : x # attempt => published'[x] = published[x] /\ doubt'[x] = doubt[x]
  BY <1>2 DEF SosTypes
<1>4. attempt \in Sos => published'[attempt] <= doubt'[attempt]
  <2> SUFFICES ASSUME attempt \in Sos PROVE published'[attempt] <= doubt'[attempt]
    OBVIOUS
  <2>1. published[attempt] \in Nat /\ doubt[attempt] \in Nat /\ attempt # None
    BY DEF SosTypes, SosAssumption
  <2>2. CASE taken
    <3>1. published' = published /\ doubt' = [doubt EXCEPT ![attempt] = @ + 1]
      BY <1>2, <2>1, <2>2
    <3> QED BY <2>1, <3>1 DEF BeaconsAccounted, SosTypes
  <2>3. CASE ~taken /\ lands
    <3>1. /\ published' = [published EXCEPT ![attempt] = @ + 1]
          /\ doubt' = [doubt EXCEPT ![attempt] = @ + 1]
      BY <1>2, <2>1, <2>3
    <3> QED BY <2>1, <2>3, <3>1 DEF BeaconsAccounted, SosTypes
  <2>4. CASE ~taken /\ ~lands
    <3>1. published' = published /\ doubt' = doubt
      BY <1>2, <2>1, <2>4
    <3> QED BY <2>1, <2>4, <3>1 DEF BeaconsAccounted, SosTypes
  <2> QED BY <2>2, <2>3, <2>4
<1>5. SosTypes'
  BY <1>1, <1>3 DEF SosTypes
<1>6. \A x \in fresh : published'[x] = 0
  <2>1. \A x \in fresh : x # attempt /\ x \in Sos
    BY DEF SlotSound, SosTypes, SosAssumption
  <2> QED BY <1>3, <2>1 DEF SlotSound
<1>7. SlotSound' /\ KeptUntilReported' /\ AnswerClaims'
  BY <1>1, <1>6 DEF SlotSound, KeptUntilReported, Reports, AnswerClaims
<1>8. BeaconsAccounted'
  <2> SUFFICES ASSUME NEW x \in Sos
               PROVE  /\ published'[x] <= 1 + doubt'[x]
                      /\ slot = x => published'[x] <= doubt'[x]
    BY <1>1 DEF BeaconsAccounted, SosAssumption
  <2>1. CASE x = attempt
    BY <1>3, <1>4, <2>1
  <2>2. CASE x # attempt
    BY <1>3, <2>2 DEF BeaconsAccounted
  <2> QED BY <2>1, <2>2
<1> QED BY <1>5, <1>7, <1>8

\* A step that touches neither the queue, the race, the request nor the ghosts.
LEMMA BystanderStep ==
  ASSUME SosInv,
         UNCHANGED <<slot, active, sending, racing, attempt, taken, waiters, fresh,
                     dropped, reports, published, doubt>>
  PROVE  SosInv'
BY DEF SosInv, SosTypes, SlotSound, BeaconsAccounted, AnswerClaims, KeptUntilReported, Reports

\* One step of the phone, action by action.
LEMMA SosStep == ASSUME SosAssumption, SosInv, [Next]_vars PROVE SosInv'
<1>1. ASSUME NEW s \in Sos, SendSos(s) PROVE SosInv'
  BY <1>1, SendStep
<1>2. CASE Conclude
  BY <1>2, ForgetStep DEF Conclude
<1>3. CASE Expire
  BY <1>3, ForgetStep DEF Expire
<1>4. CASE FlushViaGateway
  BY <1>4, FlushStep
<1>5. CASE GatewayPublishes
  BY <1>5, PublishStep
<1>6. CASE GatewayAnswers
  BY <1>6, AnswerStep
<1>7. CASE GatewayFails
  BY <1>7, FailStep
<1>8. CASE BurstEnds
  BY <1>8, BurstStep
<1>9. CASE PeerIdentified
  BY <1>9, BystanderStep DEF PeerIdentified
<1>10. CASE PeersLeave
  BY <1>10, BystanderStep DEF PeersLeave
<1>11. CASE AppRestarts
  BY <1>11, RestartStep
<1>12. ASSUME NEW s \in Sos, NEW ok \in BOOLEAN, WriteEnds(s, ok) PROVE SosInv'
  BY <1>12, WriteStep
<1>13. CASE UNCHANGED vars
  BY <1>13, BystanderStep DEF vars
<1> QED BY <1>1, <1>2, <1>3, <1>4, <1>5, <1>6, <1>7, <1>8, <1>9, <1>10, <1>11, <1>12, <1>13 DEF Next

\* An SOS is kept until a channel reports it, the user concludes it or it
\* expires; it is reported once at most; and the gateway originates a second
\* beacon for it only if the answer to the first was lost: claimSosSuccess(),
\* gatewaySosAttempt and the slot in localStorage, through every race and restart.
THEOREM SosKept ==
  ASSUME SosAssumption
  PROVE  Spec => [](KeptUntilReported /\ OneBeaconUnlessInDoubt)
<1>1. Init => SosInv
  BY InitSound
<1>2. SosInv /\ [Next]_vars => SosInv'
  BY SosStep
<1>3. SosInv => KeptUntilReported /\ OneBeaconUnlessInDoubt
  BY DEF SosInv, OneBeaconUnlessInDoubt, BeaconsAccounted
<1> QED BY <1>1, <1>2, <1>3, PTL DEF Spec
=============================================================================
