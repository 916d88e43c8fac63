----------------------------- MODULE MCServices -----------------------------
(*****************************************************************************)
(* What a node tells the mesh and the phones of its users, each component    *)
(* on its own small instance. A behaviour is about one of them, chosen at    *)
(* the start; the others rest.                                               *)
(*****************************************************************************)
EXTENDS Dissemination, TLC

CONSTANTS
  na, nb, nc, nd, s1,
  CommandRows, MaxPerTick, MaxLives, MaxSwaps, NoCommand,  \* see CommandChannel
  Addrs, Local, Prefix, MaxFailures, PrefixFactor, Window, MaxTracked, Options, Posts,
  Reqs, MaxMinutes,                                        \* see LocalApi
  Caller, Remotes, Calls, Shares, MaxReadings, MaxAnnounced, MaxLost, \* see MeshServices
  Registrants, Labels, NoLabel, MaxRegistrations, MaxRenewals,        \* see Discovery
  Contents, Publishers, Me, Chunks, MaxStore, MaxDrops, MaxBoxes, MaxFetching, MaxElevated, GroupMessages,
  MaxPublished                                                        \* see Publications

VARIABLES
  which,   \* the component this behaviour is about
  v_now, v_local, v_services, v_task, v_net, v_handling, v_started, v_slot, v_lost,
  v_tied,
  w_now, w_entries, w_req, w_waiters, w_recent,
  p_trust, p_catalog, p_store, p_fetching, p_channel, p_drops, p_directory, p_boxes,
  p_assembling, p_expired, p_group, p_messages, p_events,
  i_label, i_signed, i_registered, i_entry, i_shown, i_badge, i_checked,
  k_rows, k_status, k_aged, k_kind, k_target, k_snapId, k_todo, k_sent, k_reply,
  k_strays, k_up, k_nodeId, k_lives, k_accepted, k_unheard, k_lastReboot, k_store

\* A triangle with a fourth node on one of its corners; at the start all are
\* connected, or two of them.
Both(E)  == E \cup {<<e[2], e[1]>> : e \in E}
Triangle == Both({<<na, nb>>, <<nb, nc>>, <<na, nc>>})
Kite     == Triangle \cup Both({<<nc, nd>>})
Start    == {Kite, Both({<<na, nb>>})}
FromA    == s1 :> na

\* Two addresses of one IPv6 network, another one and the node's own.
Addresses == {"v4", "v6a", "v6b", "own"}
AddressPrefix == [x \in Addresses |-> IF x \in {"v6a", "v6b"} THEN "net" ELSE x]
PostKinds == {"channel-messages", "node-append", "groups", "group-messages", "relays", "relay-command",
              "call", "location-report", "discover-peer", "messages", "external-delivery"}

\* Two urgent drops of a stranger, one malformed post, two directories of a box, and
\* what the node itself publishes.
Item(k, by, u, s, shape) == [kind |-> k, by |-> by, urgency |-> u, stamp |-> s, shape |-> shape]
Published ==
  {Item("drop", "s1", 0, 1, "ok"), Item("drop", "s1", 0, 2, "ok"), Item("channel", "s2", 2, 1, "bad"),
   Item("directory", "box", 4, 1, "ok"), Item("directory", "box", 4, 2, "ok"),
   Item("drop", "me", 4, 1, "ok"), Item("channel", "me", 2, 1, "ok"), Item("directory", "me", 4, 1, "ok")}

Svc == INSTANCE MeshServices WITH
    Self <- Caller, Skew <- 0, MaxTime <- MaxReadings, now <- v_now, local <- v_local,
    services <- v_services, task <- v_task, net <- v_net, handling <- v_handling,
    started <- v_started, slot <- v_slot, lost <- v_lost, tied <- v_tied

Api == INSTANCE LocalApi WITH
    MaxTime <- MaxMinutes, now <- w_now,
    entries <- w_entries, req <- w_req, waiters <- w_waiters, recent <- w_recent

Pub == INSTANCE Publications WITH
    Content <- Contents, Publisher <- Publishers, MaxFetches <- MaxFetching, MaxEvents <- MaxPublished,
    trust <- p_trust, catalog <- p_catalog, store <- p_store, fetching <- p_fetching,
    channel <- p_channel, drops <- p_drops, directory <- p_directory, boxes <- p_boxes,
    assembling <- p_assembling, expired <- p_expired, group <- p_group,
    messages <- p_messages, events <- p_events

Disc == INSTANCE Discovery WITH
    Nodes <- Registrants, MaxTime <- MaxRenewals, label <- i_label, signed <- i_signed,
    registered <- i_registered, entry <- i_entry, shown <- i_shown,
    badge <- i_badge, checked <- i_checked

Cmd == INSTANCE CommandChannel WITH
    Commands <- CommandRows, None <- NoCommand, rows <- k_rows, status <- k_status, aged <- k_aged,
    kind <- k_kind, target <- k_target, snapId <- k_snapId, todo <- k_todo,
    sent <- k_sent, reply <- k_reply, strays <- k_strays, up <- k_up,
    nodeId <- k_nodeId, lives <- k_lives, accepted <- k_accepted,
    unheard <- k_unheard, lastReboot <- k_lastReboot, store <- k_store

ASSUME SvcConstants == Svc!MeshServicesAssumption
ASSUME ApiConstants == Api!LocalApiAssumption
ASSUME CmdConstants == Cmd!CommandChannelAssumption
ASSUME PubConstants == Pub!PublicationsAssumption

sosVars == <<link, chan, seen, store, catalog, fetch, sight, sent, expired, events,
    calm, owed, evicted, gaveUp>>
svcVars == <<v_now, v_local, v_services, v_task, v_net, v_handling, v_started, v_slot,
    v_lost, v_tied>>
apiVars == <<w_now, w_entries, w_req, w_waiters, w_recent>>
pubVars == <<p_trust, p_catalog, p_store, p_fetching, p_channel, p_drops, p_directory, p_boxes,
    p_assembling, p_expired, p_group, p_messages, p_events>>
discVars == <<i_label, i_signed, i_registered, i_entry, i_shown, i_badge, i_checked>>
cmdVars == <<k_rows, k_status, k_aged, k_kind, k_target, k_snapId, k_todo, k_sent,
    k_reply, k_strays, k_up, k_nodeId, k_lives, k_accepted, k_unheard,
    k_lastReboot, k_store>>

mcVars == <<which, sosVars, svcVars, apiVars, pubVars, discVars, cmdVars>>

\* What a component that this behaviour is not about holds.
svcRest ==
  /\ v_now = 0 /\ v_local = 0 /\ v_services = 0 /\ v_task = 0 /\ v_net = 0
  /\ v_handling = 0 /\ v_started = 0 /\ v_slot = 0 /\ v_lost = 0 /\ v_tied = 0
apiRest ==
  /\ w_now = 0 /\ w_entries = 0 /\ w_req = 0 /\ w_waiters = 0 /\ w_recent = 0
pubRest ==
  /\ p_trust = 0 /\ p_catalog = 0 /\ p_store = 0 /\ p_fetching = 0 /\ p_channel = 0
  /\ p_drops = 0 /\ p_directory = 0 /\ p_boxes = 0 /\ p_assembling = 0 /\ p_expired = 0
  /\ p_group = 0 /\ p_messages = 0 /\ p_events = 0
discRest ==
  /\ i_label = 0 /\ i_signed = 0 /\ i_registered = 0 /\ i_entry = 0 /\ i_shown = 0
  /\ i_badge = 0 /\ i_checked = 0
cmdRest ==
  /\ k_rows = 0 /\ k_status = 0 /\ k_aged = 0 /\ k_kind = 0 /\ k_target = 0
  /\ k_snapId = 0 /\ k_todo = 0 /\ k_sent = 0 /\ k_reply = 0 /\ k_strays = 0
  /\ k_up = 0 /\ k_nodeId = 0 /\ k_lives = 0 /\ k_accepted = 0 /\ k_unheard = 0
  /\ k_lastReboot = 0 /\ k_store = 0

MCInit ==
  /\ which \in {"sos", "svc", "api", "pub", "disc", "cmd"}
  /\ Init /\ (which # "sos" => link = Kite)
  /\ IF which = "svc" THEN Svc!Init ELSE svcRest
  /\ IF which = "api" THEN Api!Init ELSE apiRest
  /\ IF which = "pub" THEN Pub!Init ELSE pubRest
  /\ IF which = "disc" THEN Disc!Init ELSE discRest
  /\ IF which = "cmd" THEN Cmd!Init ELSE cmdRest

MCNext ==
  \/ which = "sos" /\ Next /\ UNCHANGED <<which, svcVars, apiVars, pubVars, discVars, cmdVars>>
  \/ which = "svc" /\ Svc!Next /\ UNCHANGED <<which, sosVars, apiVars, pubVars, discVars, cmdVars>>
  \/ which = "api" /\ Api!Next /\ UNCHANGED <<which, sosVars, svcVars, pubVars, discVars, cmdVars>>
  \/ which = "pub" /\ Pub!Next /\ UNCHANGED <<which, sosVars, svcVars, apiVars, discVars, cmdVars>>
  \/ which = "disc" /\ Disc!Next /\ UNCHANGED <<which, sosVars, svcVars, apiVars, pubVars, cmdVars>>
  \/ which = "cmd" /\ Cmd!Next /\ UNCHANGED <<which, sosVars, svcVars, apiVars, pubVars, discVars>>

MCSpec == MCInit /\ [][MCNext]_mcVars

\* The caller's directory of services says what each provider said last, a registry
\* never goes back to an earlier report of a node, and in the directory of nodes a
\* badge stays on the label it was put on.
DirectoriesHold ==
  /\ [](which = "svc" => Svc!DirectoryCurrent)
  /\ [](which = "disc" => Disc!BadgeKeepsLabel)
  /\ [][which = "svc" => Svc!ReportKept]_mcVars

\* What the page is told of a message is what became of it, and an address that is
\* locked out stays so until its window has passed.
LockHolds ==
  /\ [](which = "api" => Api!StatusIsEvent)
  /\ [][which = "api" => Api!LockKept]_mcVars

\* No flood of urgent content pushes out what vetted publishers published, and the
\* directory of a box never goes back to an older one.
TrustedOutlastsFlood == [][which = "pub" => Pub!TrustedKept /\ Pub!DirectoryKept]_mcVars

\* A command shown as delivered was acted on, and acted on again only if an answer
\* about it was lost.
CommandsSettled == which = "cmd" => Cmd!DeliveredWasAccepted /\ Cmd!RepeatsOnlyUnheard
=============================================================================
