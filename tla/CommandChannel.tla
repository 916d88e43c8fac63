--------------------------- MODULE CommandChannel ---------------------------
(***************************************************************************)
(* The portal's command channel.  An operator signs a drop, a node append, *)
(* a reboot or an external delivery on the mirror portal; the row waits in *)
(* remote_commands; the backend beside the Box fetches pending rows on its *)
(* timer, oldest first, and POSTs each to the Box's ingest endpoint; the   *)
(* answer decides delivered, failed or once more.  Nothing spans these     *)
(* steps: the answer may be lost, the backend may die before it records    *)
(* it, the Box may restart under a new identity or forget what it has      *)
(* accepted.  ExternalDelivery goes on with the deliveries accepted here,  *)
(* and lets the same one come in again at any time, as this channel may.   *)
(***************************************************************************)
EXTENDS Naturals, Sequences, FiniteSets

CONSTANTS
  Commands,    \* rows of remote_commands
  MaxPerTick,  \* MAX_COMMANDS_PER_TICK
  MaxLives,    \* bound: starts of the Box's process
  MaxSwaps,    \* bound: starts that come with a new identity
  None         \* no command

Kinds == {"drop", "append", "reboot", "delivery"}

\* What the constants are assumed to be.
CommandChannelAssumption ==
  /\ MaxPerTick \in Nat \ {0} /\ MaxLives \in Nat \ {0} /\ MaxSwaps \in Nat
  /\ None \notin Commands

VARIABLES
  rows,        \* remote_commands of this Box, oldest first
  status,      \* status column: "none" before the INSERT
  aged,        \* rows older than MAX_COMMAND_AGE_BEFORE_GIVING_UP_MS
  kind,        \* kind column: "none" before the INSERT
  target,      \* the targetNodeId each command was signed for
  snapId,      \* node_id of the newest node_status_snapshot, 0 if none
  todo,        \* rows of the current tick still to be posted
  sent,        \* the command of the POST under way, or None
  reply,       \* "none", or the answer the backend will read
  strays,      \* requests the backend gave up on that the Box may still read
  up,          \* the Box's process is running
  nodeId,      \* its identity
  lives,       \* starts of its process
  accepted,    \* ghost: how often the Box acted on each command, 2 for more
  unheard,     \* ghost: commands of which some answer never reached the database
  lastReboot,  \* lastAcceptedRelayCommandAt: the newest row accepted, 0 if none
  store        \* drops, appends and queued deliveries the Box holds, by id

vars == <<rows, status, aged, kind, target, snapId, todo, sent, reply, strays, up,
          nodeId, lives, accepted, unheard, lastReboot, store>>

db == <<rows, status, aged, kind, target, snapId>>
poller == <<todo, sent, reply, strays, unheard>>
node == <<up, nodeId, lives, accepted, lastReboot, store>>

Init ==
  /\ rows = <<>> /\ status = [c \in Commands |-> "none"] /\ aged = {}
  /\ kind = [c \in Commands |-> "none"] /\ target = [c \in Commands |-> 0] /\ snapId = 0
  /\ todo = {} /\ sent = None /\ reply = "none" /\ strays = {}
  /\ up = TRUE /\ nodeId = 1 /\ lives = 1 /\ lastReboot = 0 /\ store = {}
  /\ accepted = [c \in Commands |-> 0] /\ unheard = {}

Place(c) == CHOOSE i \in DOMAIN rows : rows[i] = c     \* created_at, and a signature's timestamp

-----------------------------------------------------------------------------
(* The portal's four routes: session, organisation, validation, custody of *)
(* the operator's key, signature, INSERT.                                  *)

Insert(c, k, id) ==
  /\ status[c] = "none"
  /\ status' = [status EXCEPT ![c] = "pending"]
  /\ rows' = Append(rows, c)
  /\ kind' = [kind EXCEPT ![c] = k]
  /\ target' = [target EXCEPT ![c] = id]
  /\ UNCHANGED <<aged, snapId, poller, node>>

SubmitDrop(c) == Insert(c, "drop", 0)

\* Signed for the node id the last snapshot showed; refused if there is none.
SubmitNodeAppend(c) == snapId # 0 /\ Insert(c, "append", snapId)

SubmitRelayCommand(c) == snapId # 0 /\ Insert(c, "reboot", snapId)

\* The destination is looked up in what the last snapshot mirrored, and the
\* message is sealed for its key.
SubmitExternalDelivery(c) == snapId # 0 /\ Insert(c, "delivery", snapId)

-----------------------------------------------------------------------------
(* The backend's tick: syncOnce(), then pollAndDeliverCommands(). *)

Idle == todo = {} /\ sent = None

Pending(c) == status[c] = "pending"

Older(c) == {d \in Commands : Pending(d) /\ Place(d) < Place(c)}

\* fetchNodeSnapshot() throws for a Box that is down: nothing else happens then.
\* Otherwise the tick takes the oldest of the pending rows.
Tick ==
  /\ Idle /\ up
  /\ snapId' = nodeId
  /\ todo' = {c \in Commands : Pending(c) /\ Cardinality(Older(c)) < MaxPerTick}
  /\ UNCHANGED <<rows, status, aged, kind, target, sent, reply, strays, unheard, node>>

\* One after the other, in the order in which they were signed.
PostCommand ==
  /\ sent = None
  /\ \E c \in todo : sent' = c /\ \A d \in todo : Place(c) <= Place(d)
  /\ reply' = "none"
  /\ UNCHANGED <<db, todo, strays, unheard, node>>

\* As if any answer at all counted as a delivery.
OutcomeAnyAnswer(c, r) ==
  IF r \in {"accepted", "limited"} THEN "delivered"
  ELSE IF r = "rejected" \/ c \in aged THEN "failed"
  ELSE "pending"

\* As if a delivery that took too long were tried again all the same.
OutcomeUnmarked(c, r) ==
  IF r = "accepted" /\ c \notin aged THEN "delivered"
  ELSE IF r = "rejected" THEN "failed"
  ELSE "pending"

\* As if a row never grew too old.
OutcomePatient(c, r) ==
  IF r = "accepted" THEN "delivered"
  ELSE IF r = "rejected" THEN "failed"
  ELSE "pending"

\* 2xx is delivered, 400/413/422 is failed, anything else (no answer, 401, 404,
\* 408, 429, 5xx) waits for the next tick unless the row is too old.
Outcome(c, r) ==
  IF r = "accepted" THEN "delivered"
  ELSE IF r = "rejected" \/ c \in aged THEN "failed"
  ELSE "pending"

Settle(r) ==
  /\ status' = [status EXCEPT ![sent] = Outcome(sent, r)]
  /\ todo' = todo \ {sent} /\ sent' = None /\ reply' = "none"

ReadReply ==
  /\ sent # None /\ reply # "none"
  /\ Settle(reply)
  /\ UNCHANGED <<rows, aged, kind, target, snapId, strays, unheard, node>>

\* Time-out, reset or refused: postCommand() returns undefined.  The request,
\* if not read yet, may be read later, and an answer given already is lost.
NoReply ==
  /\ sent # None
  /\ Settle("deferred")
  /\ strays' = IF reply = "none" /\ up THEN strays \cup {sent} ELSE strays
  /\ unheard' = unheard \cup {sent}
  /\ UNCHANGED <<rows, aged, kind, target, snapId, node>>

\* The backend dies between the Box's answer and its own UPDATE.
PollerRestarts ==
  /\ sent # None /\ reply # "none"
  /\ todo' = {} /\ sent' = None /\ reply' = "none"
  /\ unheard' = unheard \cup {sent}
  /\ UNCHANGED <<db, strays, node>>

RowAges(c) ==
  /\ Pending(c) /\ c \notin aged
  /\ aged' = aged \cup {c}
  /\ UNCHANGED <<rows, status, kind, target, snapId, poller, node>>

-----------------------------------------------------------------------------
(* The Box's ingest endpoints. *)

Momentary == {"limited", "off"}     \* 429, and 401 or 404: answers of the moment

\* A drop or an append carries its own expiry, a day like the row's.
Lapsed(c) == IF c \in aged THEN {"rejected"} ELSE {}

IngestSignedContent(c) == {"accepted"} \cup Lapsed(c)

IngestSignedNodeAppend(c) ==
  IF target[c] = nodeId THEN {"accepted"} \cup Lapsed(c) ELSE {"rejected"}

\* Not newer than the last one accepted from this publisher is a replay.
IngestSignedRelayCommand(c) ==
  IF target[c] = nodeId /\ Place(c) > lastReboot THEN {"accepted"} ELSE {"rejected"}

\* The destinations allowed and their passwords are the Box's own.
IngestExternalDelivery(c) == {"accepted", "rejected"}

\* The answers the Box may give to c.  Budgets are shared with other traffic
\* and the password may be changed, so any request may be put off.
Ingested(c) ==
  Momentary \cup CASE kind[c] = "drop"     -> IngestSignedContent(c)
                   [] kind[c] = "append"   -> IngestSignedNodeAppend(c)
                   [] kind[c] = "reboot"   -> IngestSignedRelayCommand(c)
                   [] kind[c] = "delivery" -> IngestExternalDelivery(c)

\* What an accepted command does: a drop or an append is stored under its id,
\* a reboot is emitted and ends the process, a delivery is queued.
Act(c) ==
  /\ accepted' = [accepted EXCEPT ![c] = IF @ = 2 THEN 2 ELSE @ + 1]
  /\ store' = IF kind[c] # "reboot" THEN store \cup {c} ELSE store
  /\ lastReboot' = IF kind[c] = "reboot" THEN Place(c) ELSE lastReboot
  /\ up' = (kind[c] # "reboot")
  /\ UNCHANGED <<nodeId, lives>>

Ingest(c, r) == IF r = "accepted" THEN Act(c) ELSE UNCHANGED node

Handle(r) ==
  /\ up /\ sent # None /\ reply = "none"
  /\ r \in Ingested(sent)
  /\ reply' = r
  /\ Ingest(sent, r)
  /\ UNCHANGED <<db, todo, sent, strays, unheard>>

HandleStray(c, r) ==
  /\ up /\ c \in strays
  /\ r \in Ingested(c)
  /\ strays' = strays \ {c}
  /\ Ingest(c, r)
  /\ UNCHANGED <<db, todo, sent, reply, unheard>>

-----------------------------------------------------------------------------
(* The Box's process. *)

NodeCrashes ==
  /\ up /\ lives < MaxLives
  /\ up' = FALSE
  /\ strays' = {}
  /\ UNCHANGED <<db, todo, sent, reply, unheard, nodeId, lives, accepted, lastReboot, store>>

\* A supervisor starts it again: replay memory and store are gone, and without
\* --identity-dir so is the identity.
NodeStarts(id) ==
  /\ ~up
  /\ id \in {nodeId, nodeId + 1} /\ id <= 1 + MaxSwaps
  /\ up' = TRUE /\ nodeId' = id
  /\ lives' = (IF lives < MaxLives THEN lives + 1 ELSE lives)
  /\ lastReboot' = 0 /\ store' = {}
  /\ strays' = {}
  /\ UNCHANGED <<db, todo, sent, reply, unheard, accepted>>

Portal ==
  \E c \in Commands :
     SubmitDrop(c) \/ SubmitNodeAppend(c) \/ SubmitRelayCommand(c) \/ SubmitExternalDelivery(c)

Backend == Tick \/ PostCommand \/ ReadReply \/ NoReply \/ PollerRestarts

Box ==
  \/ \E r \in {"accepted", "rejected", "limited", "off"} :
        Handle(r) \/ \E c \in strays : HandleStray(c, r)
  \/ NodeCrashes \/ \E id \in 1 .. 1 + MaxSwaps : NodeStarts(id)

Next ==
  \/ Portal \/ Backend \/ Box
  \/ \E c \in Commands : RowAges(c)

\* The timers of the backend and of the Box go on for ever, a supervisor brings
\* the Box back, and time passes.  That a tick finds the Box up is not promised
\* by any one moment, only by its coming back again and again; nor is every
\* answer met by a crash of the backend.
Fairness ==
  /\ SF_vars(Tick) /\ WF_vars(PostCommand) /\ SF_vars(ReadReply \/ NoReply)
  /\ WF_vars(\E id \in 1 .. 1 + MaxSwaps : NodeStarts(id))
  /\ \A c \in Commands : WF_vars(RowAges(c))

Spec == Init /\ [][Next]_vars /\ Fairness

-----------------------------------------------------------------------------
TypeOK ==
  /\ rows \in Seq(Commands) /\ todo \subseteq Commands
  /\ status \in [Commands -> {"none", "pending", "delivered", "failed"}]
  /\ kind \in [Commands -> Kinds \cup {"none"}]
  /\ aged \subseteq Commands /\ strays \subseteq Commands /\ store \subseteq Commands
  /\ sent \in Commands \cup {None}
  /\ reply \in {"none", "accepted", "rejected", "limited", "off"}
  /\ up \in BOOLEAN /\ nodeId \in Nat /\ lives \in Nat /\ snapId \in Nat
  /\ lastReboot \in Nat /\ target \in [Commands -> Nat]
  /\ accepted \in [Commands -> 0 .. 2] /\ unheard \subseteq Commands

\* A command that the portal shows as delivered was acted on by the Box, by the
\* identity it was signed for.
DeliveredWasAccepted ==
  \A c \in Commands : status[c] = "delivered" => accepted[c] > 0

\* The Box acts on a command a second time only if an answer about it was lost
\* on the way to the database: pollAndDeliverCommands() never offers again what
\* it knows to be settled.  (A reboot is the command this matters for:
\* the memory that refuses its replay does not survive the reboot.)
RepeatsOnlyUnheard ==
  \A c \in Commands : accepted[c] = 2 => c \in unheard

\* What makes the two hold at every step: only a pending row is posted, and while
\* every answer about a command has reached the database, the Box acted on it at
\* most once, and the row says so or the answer that says so is about to be read.
OnlyPendingOffered ==
  /\ todo \subseteq Commands /\ \A c \in todo : Pending(c)
  /\ sent # None => sent \in todo

AnswerIsTrue == sent # None /\ reply = "accepted" => accepted[sent] > 0

Known(c) == status[c] = "delivered" \/ (sent = c /\ reply = "accepted")

ActedOnIsKnown ==
  \A c \in Commands \ unheard :
     /\ c \notin strays
     /\ accepted[c] = 0 \/ (accepted[c] = 1 /\ Known(c))

ChannelInv ==
  /\ accepted \in [Commands -> 0 .. 2] /\ strays \subseteq Commands
  /\ status \in [Commands -> {"none", "pending", "delivered", "failed"}]
  /\ OnlyPendingOffered /\ AnswerIsTrue /\ ActedOnIsKnown /\ DeliveredWasAccepted

\* No command waits for ever, not behind older ones that the Box keeps putting
\* off, nor because the Box came back under another identity.
EveryCommandSettles ==
  \A c \in Commands : status[c] = "pending" ~> status[c] \in {"delivered", "failed"}
=============================================================================
