------------------------------- MODULE MCPhone ------------------------------
(*****************************************************************************)
(* The phone and the pages opened on it, each component on its own small     *)
(* instance. A behaviour is about one of them, chosen at the start; the      *)
(* others rest.                                                              *)
(*****************************************************************************)
EXTENDS PhoneDrops, TLC

CONSTANTS
  t1, t2,
  SosIds,      \* the SOS the user may send
  MaxDoubt     \* bound: gateway answers lost, per SOS

VARIABLES
  which,   \* the component this behaviour is about
  s_slot, s_active, s_sending, s_racing, s_attempt, s_taken, s_waiters, s_burst,
  s_writes, s_peers, s_fresh, s_dropped, s_reports, s_published, s_doubt,
  d_real, d_screen, d_tour, d_timer, d_busy, d_url, d_pw, d_saved, d_setups,
  d_polls, d_cycle, d_contents, d_contentId, d_shown, d_open, d_hot, d_work,
  d_renaming, d_scans, d_session, d_camera, d_overlay, d_frame, d_left,
  n_cfg, n_past, n_future, n_epoch, n_drag, n_tab, n_draft, n_marks, n_links, n_res,
  n_resBusy, n_tiles, n_pinned, n_visible, n_failed, n_fetching, n_ensures,
  n_configTileToken, n_configBusy, n_tilesArrivedInDrag, n_viewTileToken,
  n_tileState, n_loadToken, n_loading, n_edges, n_torn, n_excused, n_left,
  h_running, h_logs, h_reachable, h_locked, h_window, h_powering, h_requests,
  h_sent, h_troubles, h_screen, h_apiUrl, h_polling, h_listed, h_logsOpen,
  h_logShown, h_logToken, h_capToken, h_panel,
  w_page, w_nextMsgId, w_partial, w_applying, w_wifi, w_outcomes, w_sizeOf,
  w_server, w_tries, w_reloads

TwoTabs == {t1, t2}

\* Two drops in a queue for one; one drop whose Box may restart, one that is refused.
May(drops, restart, forget) == [drops |-> drops, restarts |-> restart, forgets |-> forget]
DropScenarios == {May({"d1", "d2"}, 0, 0), May({"d1"}, 1, 1), May({"d2"}, 0, 1)}

\* Pairing anew under slow refreshes, the camera, the forms, the panel.
Scenario(cycles, setups, work, open, scans) ==
  [cycles |-> cycles, setups |-> setups, work |-> work, open |-> open, scans |-> scans]
DashBudgets ==
  {Scenario(2, 1, 0, 0, 0), Scenario(0, 1, 0, 0, 2), Scenario(0, 0, 1, 2, 0), Scenario(1, 0, 0, 1, 0)}

\* edits: commits and recentrings; travels: undo and redo; moves: of a drag
Session(e, tr, m, l, v, f, tb) ==
  [edits |-> e, travels |-> tr, moves |-> m, loads |-> l, views |-> v, failures |-> f, tabs |-> tb]
DesignBudgets ==
  {Session(2, 2, 0, 0, 0, 0, 0), Session(1, 1, 1, 0, 0, 0, 1), Session(1, 0, 0, 0, 1, 1, 0),
   Session(0, 0, 0, 3, 0, 1, 0), Session(1, 0, 0, 2, 0, 0, 0), Session(0, 0, 1, 1, 1, 0, 0),
   Session(1, 0, 0, 0, 0, 0, 2)}

\* Tabs are interchangeable.
Symmetry == Permutations(TwoTabs)

Sos == INSTANCE PhoneSos WITH
    Sos <- SosIds, slot <- s_slot, active <- s_active,
    sending <- s_sending, racing <- s_racing, attempt <- s_attempt,
    taken <- s_taken, waiters <- s_waiters, burst <- s_burst, writes <- s_writes,
    peers <- s_peers, fresh <- s_fresh, dropped <- s_dropped, reports <- s_reports,
    published <- s_published, doubt <- s_doubt
ASSUME SosConstants == Sos!SosAssumption

Dash == INSTANCE PhoneDashboard WITH
    Gateways <- {"a", "b"}, MaxPassword <- 2, Budgets <- DashBudgets,
    real <- d_real, screen <- d_screen, tour <- d_tour, timer <- d_timer,
    busy <- d_busy, url <- d_url, pw <- d_pw, saved <- d_saved, setups <- d_setups,
    polls <- d_polls, cycle <- d_cycle, contents <- d_contents,
    contentId <- d_contentId, shown <- d_shown, open <- d_open, hot <- d_hot,
    work <- d_work, renaming <- d_renaming, scans <- d_scans, session <- d_session,
    camera <- d_camera, overlay <- d_overlay, frame <- d_frame, left <- d_left

Design == INSTANCE NetworkDesign WITH
    Devices <- {"d1", "d2"}, Tiles <- {"here", "there"}, MaxTiles <- 1,
    MaxNetworkTiles <- 2, HistoryLimit <- 2, Budgets <- DesignBudgets, cfg <- n_cfg,
    past <- n_past, future <- n_future, epoch <- n_epoch, drag <- n_drag,
    tab <- n_tab, draft <- n_draft, marks <- n_marks, links <- n_links,
    res <- n_res, resBusy <- n_resBusy, tiles <- n_tiles, pinned <- n_pinned,
    visible <- n_visible, failed <- n_failed, fetching <- n_fetching,
    ensures <- n_ensures, configTileToken <- n_configTileToken,
    configBusy <- n_configBusy, tilesArrivedInDrag <- n_tilesArrivedInDrag,
    viewTileToken <- n_viewTileToken, tileState <- n_tileState,
    loadToken <- n_loadToken, loading <- n_loading, edges <- n_edges,
    torn <- n_torn, excused <- n_excused, left <- n_left

TheHub == INSTANCE Hub WITH
    Host <- {"h1", "h2"}, Container <- {"a", "b"},
    HostOf <- [x \in {"a", "b"} |-> IF x = "a" THEN "h1" ELSE "h2"],
    Managed <- {"a", "b"}, PowerEnabled <- {"h1"}, MaxActions <- 2,
    MaxRequests <- 5, MaxTroubles <- 1, running <- h_running, logs <- h_logs,
    reachable <- h_reachable, locked <- h_locked, window <- h_window,
    powering <- h_powering, requests <- h_requests, sent <- h_sent,
    troubles <- h_troubles, screen <- h_screen, apiUrl <- h_apiUrl,
    polling <- h_polling, listed <- h_listed, logsOpen <- h_logsOpen,
    logShown <- h_logShown, logToken <- h_logToken, capToken <- h_capToken,
    panel <- h_panel

Wifi == INSTANCE WifiProvisioning WITH
    Phones <- {"p", "q"}, Sizes <- {2, 3}, IdSpace <- 2, MaxReassemblies <- 2,
    MaxTries <- 3, MaxReloads <- 1, page <- w_page, nextMsgId <- w_nextMsgId,
    partial <- w_partial, applying <- w_applying, wifi <- w_wifi,
    outcomes <- w_outcomes, sizeOf <- w_sizeOf, server <- w_server,
    tries <- w_tries, reloads <- w_reloads

dropsVars == <<queue, call, old, left, form, flush, sending, url, password, pairing, keys,
    spent, late, fresh, published, restarts, told, overwritten>>
sosVars == <<s_slot, s_active, s_sending, s_racing, s_attempt, s_taken, s_waiters,
    s_burst, s_writes, s_peers, s_fresh, s_dropped, s_reports, s_published,
    s_doubt>>
dashVars == <<d_real, d_screen, d_tour, d_timer, d_busy, d_url, d_pw, d_saved, d_setups,
    d_polls, d_cycle, d_contents, d_contentId, d_shown, d_open, d_hot,
    d_work, d_renaming, d_scans, d_session, d_camera, d_overlay, d_frame, d_left>>
designVars == <<n_cfg, n_past, n_future, n_epoch, n_drag, n_tab, n_draft, n_marks,
    n_links, n_res, n_resBusy, n_tiles, n_pinned, n_visible, n_failed,
    n_fetching, n_ensures, n_configTileToken, n_configBusy,
    n_tilesArrivedInDrag, n_viewTileToken, n_tileState, n_loadToken,
    n_loading, n_edges, n_torn, n_excused, n_left>>
hubVars == <<h_running, h_logs, h_reachable, h_locked, h_window, h_powering, h_requests,
    h_sent, h_troubles, h_screen, h_apiUrl, h_polling, h_listed,
    h_logsOpen, h_logShown, h_logToken, h_capToken, h_panel>>
wifiVars == <<w_page, w_nextMsgId, w_partial, w_applying, w_wifi, w_outcomes, w_sizeOf,
    w_server, w_tries, w_reloads>>

mcVars == <<which, dropsVars, sosVars, dashVars, designVars, hubVars, wifiVars>>

\* What a component that this behaviour is not about holds.
sosRest ==
  /\ s_slot = 0 /\ s_active = 0 /\ s_sending = 0 /\ s_racing = 0 /\ s_attempt = 0
  /\ s_taken = 0 /\ s_waiters = 0 /\ s_burst = 0 /\ s_writes = 0 /\ s_peers = 0
  /\ s_fresh = 0 /\ s_dropped = 0 /\ s_reports = 0 /\ s_published = 0
  /\ s_doubt = 0
dashRest ==
  /\ d_real = 0 /\ d_screen = 0 /\ d_tour = 0 /\ d_timer = 0 /\ d_busy = 0
  /\ d_url = 0 /\ d_pw = 0 /\ d_saved = 0 /\ d_setups = 0 /\ d_polls = 0
  /\ d_cycle = 0 /\ d_contents = 0 /\ d_contentId = 0 /\ d_shown = 0 /\ d_open = 0
  /\ d_hot = 0 /\ d_work = 0 /\ d_renaming = 0 /\ d_scans = 0 /\ d_session = 0
  /\ d_camera = 0 /\ d_overlay = 0 /\ d_frame = 0 /\ d_left = 0
designRest ==
  /\ n_cfg = 0 /\ n_past = 0 /\ n_future = 0 /\ n_epoch = 0 /\ n_drag = 0
  /\ n_tab = 0 /\ n_draft = 0 /\ n_marks = 0 /\ n_links = 0 /\ n_res = 0
  /\ n_resBusy = 0 /\ n_tiles = 0 /\ n_pinned = 0 /\ n_visible = 0 /\ n_failed = 0
  /\ n_fetching = 0 /\ n_ensures = 0 /\ n_configTileToken = 0 /\ n_configBusy = 0
  /\ n_tilesArrivedInDrag = 0 /\ n_viewTileToken = 0 /\ n_tileState = 0
  /\ n_loadToken = 0 /\ n_loading = 0 /\ n_edges = 0 /\ n_torn = 0 /\ n_excused = 0
  /\ n_left = 0
hubRest ==
  /\ h_running = 0 /\ h_logs = 0 /\ h_reachable = 0 /\ h_locked = 0 /\ h_window = 0
  /\ h_powering = 0 /\ h_requests = 0 /\ h_sent = 0 /\ h_troubles = 0
  /\ h_screen = 0 /\ h_apiUrl = 0 /\ h_polling = 0 /\ h_listed = 0
  /\ h_logsOpen = 0 /\ h_logShown = 0 /\ h_logToken = 0 /\ h_capToken = 0
  /\ h_panel = 0
wifiRest ==
  /\ w_page = 0 /\ w_nextMsgId = 0 /\ w_partial = 0 /\ w_applying = 0 /\ w_wifi = 0
  /\ w_outcomes = 0 /\ w_sizeOf = 0 /\ w_server = 0 /\ w_tries = 0 /\ w_reloads = 0

MCInit ==
  /\ which \in {"drops", "sos", "dash", "design", "hub", "wifi"}
  /\ Init /\ (which # "drops" => fresh = Drops)
  /\ IF which = "sos" THEN Sos!Init ELSE sosRest
  /\ IF which = "dash" THEN Dash!Init ELSE dashRest
  /\ IF which = "design" THEN Design!Init ELSE designRest
  /\ IF which = "hub" THEN TheHub!Init ELSE hubRest
  /\ IF which = "wifi" THEN Wifi!Init ELSE wifiRest

MCNext ==
  \/ which = "drops" /\ Next /\ UNCHANGED <<which, sosVars, dashVars, designVars, hubVars, wifiVars>>
  \/ which = "sos" /\ Sos!Next /\ UNCHANGED <<which, dropsVars, dashVars, designVars, hubVars, wifiVars>>
  \/ which = "dash" /\ Dash!Next /\ UNCHANGED <<which, dropsVars, sosVars, designVars, hubVars, wifiVars>>
  \/ which = "design" /\ Design!Next /\ UNCHANGED <<which, dropsVars, sosVars, dashVars, hubVars, wifiVars>>
  \/ which = "hub" /\ TheHub!Next /\ UNCHANGED <<which, dropsVars, sosVars, dashVars, designVars, wifiVars>>
  \/ which = "wifi" /\ Wifi!Next /\ UNCHANGED <<which, dropsVars, sosVars, dashVars, designVars, hubVars>>

MCSpec == MCInit /\ [][MCNext]_mcVars

\* An SOS of the phone is held until the user is told its end, once, and no SOS or drop
\* is published again but for a doubt about the first time.
PhonePublishesOnce ==
  /\ which = "sos" => Sos!KeptUntilReported /\ Sos!OneBeaconUnlessInDoubt
  /\ which = "drops" => PublishedOnce /\ NoParallelSend

\* What a page shows, and what a device is set up with, is of the one it names and
\* whole: the dashboard its gateway, the hub's panel its host, the Wi-Fi one phone's.
PagesAreCurrent ==
  /\ [](which = "dash" => Dash!DashboardShowsItsGateway /\ Dash!CameraOffWhenClosed)
  /\ [](which = "hub" => TheHub!PanelIsOfTheHost /\ TheHub!OnePowerCommand)
  /\ [](which = "wifi" => Wifi!AppliesWhole)
  /\ [][which = "hub" => TheHub!LogKept]_mcVars

\* The history of the network design is one of single steps, its results are those of
\* the design shown, and a later file is never overtaken by an earlier one.
DesignSound ==
  /\ [](which = "design" => Design!TimelineHolds /\ Design!ResultsCurrent)
  /\ [][which = "design" => Design!LoadKept]_mcVars
=============================================================================
