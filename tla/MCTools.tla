------------------------------- MODULE MCTools ------------------------------
(*****************************************************************************)
(* The portal and its mirror, the planning tools and the converters, each    *)
(* component on its own small instance. A behaviour is about one of them,    *)
(* chosen at the start; the others rest.                                     *)
(*****************************************************************************)
EXTENDS Portal, TLC

CONSTANTS b1, b2, o1, o2

VARIABLES
  which,   \* the component this behaviour is about
  m_via, m_written, m_status, m_nodes, m_view,
  r_form, r_made, r_wire, r_sig, r_to, r_stage, r_touched, r_got, r_row,
  e_contacts, e_ctx, e_failure,
  f_xml,
  q_stage, q_exp, q_log, q_bytes, q_version, q_level, q_generator, q_blocks,
  q_ecBlocks, q_buffer, q_at, q_bits, q_modules, q_reserved, q_bitIndex, q_col,
  q_up, q_mask, q_masked, q_best,
  c_now, c_sessions, c_failures, c_checksInFlight, c_login, c_reserved, c_cookie,
  c_page, c_tokens, c_logins, c_wrong, c_strays,
  t_now, t_disk, t_mtime, t_verified, t_recent, t_job, t_late, t_waiting, t_running,
  t_inProgress, t_builtAt, t_failedAt, t_lastEnforce, t_builtSinceEnforce,
  t_enforceTimer, t_caller

MapAlerts ==
  {[kind |-> "sos", at |-> 1, located |-> FALSE]}

\* Five places on a grid, whose links come and go over three instants.
Places    == {"b1", "b2", "r", "c", "p"}
PlaceKind == "b1" :> "box" @@ "b2" :> "portable" @@ "r" :> "relay" @@ "c" :> "card" @@ "p" :> "phone"
FreeLinks == {{"b1", "r"}, {"b1", "c"}, {"b1", "p"}, {"b2", "r"}, {"b2", "p"}, {"r", "c"}, {"c", "p"}}
PlaceWorlds ==
  {[t \in 0..2 |-> CASE t = 0 -> w [] t = 1 -> u [] t = 2 -> v] :
     w \in SUBSET FreeLinks, u \in {{}, {{"c", "p"}}}, v \in {{}, {{"b1", "p"}, {"b2", "r"}}}}
PlaceOff == [n \in Places |-> IF n = "b2" THEN 2 ELSE 9]
PlaceWindows == {None, [fromS |-> 0, toS |-> 2, stepS |-> 1], [fromS |-> 2, toS |-> 1, stepS |-> 1]}
Spot(x, y) == [x |-> x, y |-> y]
PlacePos == "b1" :> Spot(0, 0) @@ "b2" :> Spot(4, 0) @@ "r" :> Spot(2, 3) @@ "c" :> Spot(1, 4) @@ "p" :> Spot(3, 1)
PlaceMargin == [e \in {x \in SUBSET Places : Cardinality(x) = 2} |-> IF "p" \in e THEN 3 ELSE 6]
PlaceHalo == "b1" :> {1, 2} @@ "b2" :> {3} @@ "r" :> {2, 3} @@ "c" :> {4} @@ "p" :> {}
Polygon(points, loss, fails) ==
  [kind |-> "polygon", points |-> points, lossDb |-> loss, failNodes |-> fails]
PlaceAreas ==
  {[kind |-> "circle", cx |-> 1, cy |-> 1, r |-> 1, lossDb |-> 5, failNodes |-> TRUE],
   Polygon(<<Spot(1, 1), Spot(3, 2), Spot(1, 3)>>, 9, FALSE),
   Polygon(<<Spot(0, 2), Spot(3, 0)>>, 0, TRUE),
   Polygon(<<Spot(2, 0), Spot(4, 2), Spot(2, 2), Spot(2, 5)>>, 4, TRUE)}

\* Feeds from their beginning, inside a CDATA section of a title, and in their second and
\* third item.
Titled == <<"<item>", "<title>", "text", "</title>", "</item>">>
FeedStarts ==
  {<<>>, <<"<item>", "<title>", "<![CDATA[">>, Titled \o <<"<item>">>, Titled \o Titled \o <<"<item>">>}

\* Browsers, and organisations, are interchangeable.
Symmetry == Permutations({b1, b2}) \cup Permutations({o1, o2})

TheMirror == INSTANCE Mirror WITH
    Boxes <- {"u1", "u2"}, Orgs <- {o1}, Alerts <- MapAlerts, FixedRelays <- {"u1"},
    Offering <- {"u1"}, Limit <- 1, FetchCap <- 1, via <- m_via, written <- m_written, status <- m_status,
    nodes <- m_nodes, view <- m_view

Rec == INSTANCE Records WITH
    form <- r_form, made <- r_made, wire <- r_wire, sig <- r_sig, to <- r_to,
    stage <- r_stage, touched <- r_touched, got <- r_got, row <- r_row

Resil == INSTANCE Resilience WITH
    Nodes <- Places, Kind <- PlaceKind, Horizon <- 2, Worlds <- PlaceWorlds,
    OffFrom <- PlaceOff, AtStep <- 0, Windows <- PlaceWindows, NoWindow <- None,
    Position <- PlacePos, Margin <- PlaceMargin, Cells <- 1..4, Land <- 1..3,
    Halo <- PlaceHalo, Areas <- PlaceAreas, contacts <- e_contacts, ctx <- e_ctx,
    failure <- e_failure

Rss == INSTANCE RssFeed WITH
    MaxItems <- 2, Seeds <- FeedStarts, MaxMore <- 5, xml <- f_xml

Qr == INSTANCE QrCode WITH
    Lengths <- {0, 14, 15, 122, 271, 272}, stage <- q_stage, exp <- q_exp,
    log <- q_log, bytes <- q_bytes, version <- q_version, level <- q_level,
    generator <- q_generator, blocks <- q_blocks, ecBlocks <- q_ecBlocks,
    buffer <- q_buffer, at <- q_at, bits <- q_bits, modules <- q_modules,
    reserved <- q_reserved, bitIndex <- q_bitIndex, col <- q_col, up <- q_up,
    mask <- q_mask, masked <- q_masked, best <- q_best

Checks == INSTANCE DesignTool WITH
    Browsers <- 1..3, SameHouse <- {1, 2}, MaxLoginFailures <- 1, LoginWindow <- 2, MaxKeys <- 2,
    MaxConcurrentChecks <- 2, MaxSessions <- 1, SessionTtl <- 2, MaxNow <- 3,
    MaxLogins <- 3, now <- c_now, sessions <- c_sessions, failures <- c_failures,
    checksInFlight <- c_checksInFlight, login <- c_login, reserved <- c_reserved,
    cookie <- c_cookie, page <- c_page, tokens <- c_tokens, logins <- c_logins,
    wrong <- c_wrong, strays <- c_strays

Tile == INSTANCE TileService WITH
    Tiles <- {"t1", "t2"}, Callers <- {"c1", "c2"}, Concurrency <- 1, MaxQueue <- 1,
    MaxNewPerHour <- 2, MaxFailures <- 2, Cap <- 1, Hour <- 3, Protect <- 2,
    EnforceEvery <- 1, MaxNow <- 3, now <- t_now, disk <- t_disk, mtime <- t_mtime,
    verified <- t_verified, recent <- t_recent, job <- t_job, late <- t_late,
    waiting <- t_waiting, running <- t_running, inProgress <- t_inProgress,
    builtAt <- t_builtAt, failedAt <- t_failedAt, lastEnforce <- t_lastEnforce,
    builtSinceEnforce <- t_builtSinceEnforce, enforceTimer <- t_enforceTimer,
    caller <- t_caller

portalVars == <<db, audit, lock, failures, status, session, req, panel>>
mirrorVars == <<m_via, m_written, m_status, m_nodes, m_view>>
recordsVars == <<r_form, r_made, r_wire, r_sig, r_to, r_stage, r_touched, r_got, r_row>>
resilVars == <<e_contacts, e_ctx, e_failure>>
rssVars == <<f_xml>>
qrVars == <<q_stage, q_exp, q_log, q_bytes, q_version, q_level, q_generator, q_blocks,
    q_ecBlocks, q_buffer, q_at, q_bits, q_modules, q_reserved, q_bitIndex,
    q_col, q_up, q_mask, q_masked, q_best>>
checksVars == <<c_now, c_sessions, c_failures, c_checksInFlight, c_login, c_reserved,
    c_cookie, c_page, c_tokens, c_logins, c_wrong, c_strays>>
tilesVars == <<t_now, t_disk, t_mtime, t_verified, t_recent, t_job, t_late, t_waiting,
    t_running, t_inProgress, t_builtAt, t_failedAt, t_lastEnforce,
    t_builtSinceEnforce, t_enforceTimer, t_caller>>

mcVars == <<which, portalVars, mirrorVars, recordsVars, resilVars, rssVars, qrVars, checksVars, tilesVars>>

\* What a component that this behaviour is not about holds.
mirrorRest ==
  /\ m_via = 0 /\ m_written = 0 /\ m_status = 0 /\ m_nodes = 0 /\ m_view = 0
recordsRest ==
  /\ r_form = 0 /\ r_made = 0 /\ r_wire = 0 /\ r_sig = 0 /\ r_to = 0 /\ r_stage = 0
  /\ r_touched = 0 /\ r_got = 0 /\ r_row = 0
resilRest ==
  /\ e_contacts = 0 /\ e_ctx = 0 /\ e_failure = 0
rssRest ==
  /\ f_xml = 0
qrRest ==
  /\ q_stage = 0 /\ q_exp = 0 /\ q_log = 0 /\ q_bytes = 0 /\ q_version = 0
  /\ q_level = 0 /\ q_generator = 0 /\ q_blocks = 0 /\ q_ecBlocks = 0
  /\ q_buffer = 0 /\ q_at = 0 /\ q_bits = 0 /\ q_modules = 0 /\ q_reserved = 0
  /\ q_bitIndex = 0 /\ q_col = 0 /\ q_up = 0 /\ q_mask = 0 /\ q_masked = 0
  /\ q_best = 0
checksRest ==
  /\ c_now = 0 /\ c_sessions = 0 /\ c_failures = 0 /\ c_checksInFlight = 0
  /\ c_login = 0 /\ c_reserved = 0 /\ c_cookie = 0 /\ c_page = 0 /\ c_tokens = 0
  /\ c_logins = 0 /\ c_wrong = 0 /\ c_strays = 0
tilesRest ==
  /\ t_now = 0 /\ t_disk = 0 /\ t_mtime = 0 /\ t_verified = 0 /\ t_recent = 0
  /\ t_job = 0 /\ t_late = 0 /\ t_waiting = 0 /\ t_running = 0 /\ t_inProgress = 0
  /\ t_builtAt = 0 /\ t_failedAt = 0 /\ t_lastEnforce = 0
  /\ t_builtSinceEnforce = 0 /\ t_enforceTimer = 0 /\ t_caller = 0
portalRest ==
  /\ db = 0 /\ audit = 0 /\ lock = 0 /\ failures = 0 /\ status = 0 /\ session = 0
  /\ req = 0 /\ panel = 0

MCInit ==
  /\ which \in {"portal", "mirror", "records", "resil", "rss", "qr", "checks", "tiles"}
  /\ IF which = "portal" THEN Init ELSE portalRest
  /\ IF which = "mirror" THEN TheMirror!Init ELSE mirrorRest
  /\ IF which = "records" THEN Rec!Init ELSE recordsRest
  /\ IF which = "resil" THEN Resil!Init ELSE resilRest
  /\ IF which = "rss" THEN Rss!Init ELSE rssRest
  /\ IF which = "qr" THEN Qr!Init ELSE qrRest
  /\ IF which = "checks" THEN Checks!Init ELSE checksRest
  /\ IF which = "tiles" THEN Tile!Init ELSE tilesRest

MCNext ==
  \/ which = "portal" /\ Next /\ UNCHANGED <<which, mirrorVars, recordsVars, resilVars, rssVars, qrVars, checksVars, tilesVars>>
  \/ which = "mirror" /\ TheMirror!Next /\ UNCHANGED <<which, portalVars, recordsVars, resilVars, rssVars, qrVars, checksVars, tilesVars>>
  \/ which = "records" /\ Rec!Next /\ UNCHANGED <<which, portalVars, mirrorVars, resilVars, rssVars, qrVars, checksVars, tilesVars>>
  \/ which = "resil" /\ Resil!Next /\ UNCHANGED <<which, portalVars, mirrorVars, recordsVars, rssVars, qrVars, checksVars, tilesVars>>
  \/ which = "rss" /\ Rss!Next /\ UNCHANGED <<which, portalVars, mirrorVars, recordsVars, resilVars, qrVars, checksVars, tilesVars>>
  \/ which = "qr" /\ Qr!Next /\ UNCHANGED <<which, portalVars, mirrorVars, recordsVars, resilVars, rssVars, checksVars, tilesVars>>
  \/ which = "checks" /\ Checks!Next /\ UNCHANGED <<which, portalVars, mirrorVars, recordsVars, resilVars, rssVars, qrVars, tilesVars>>
  \/ which = "tiles" /\ Tile!Next /\ UNCHANGED <<which, portalVars, mirrorVars, recordsVars, resilVars, rssVars, qrVars, checksVars>>

MCSpec == MCInit /\ [][MCNext]_mcVars

\* The portal's history of assignments agrees with the assignment in force and signs for
\* one identity; the map never gives a false all-clear.
PortalTellsTruth ==
  /\ which = "portal" => HistoryHolds /\ OneIdentityEach
  /\ which = "mirror" => TheMirror!MapGivesNoFalseAllClear

\* What is written in one format is read in the next: records, QR codes, feeds.
ConversionsAgree ==
  /\ which = "records" => Rec!WrittenIsRead /\ Rec!AcceptedAsSigned /\ Rec!MirroredAsListed
  /\ which = "qr" => Qr!ScansBack /\ Qr!Correctable
  /\ which = "rss" => Rss!ParsesAsScanned

\* The report of the network resilience test agrees with the journeys there are.
ResilienceReport ==
  which = "resil" =>
    /\ Resil!StatusIsByJourney /\ Resil!TwoWaysOut
    /\ Resil!CrossingIsTouched /\ Resil!EveryWayThrough

\* Limits hold under concurrent callers: new tiles in an hour, what was just served, and
\* wrong passwords in a window.
LimitsHold ==
  /\ [](which = "tiles" => Tile!HourlyLimit)
  /\ [](which = "checks" => Checks!GuessesBounded)
  /\ [][which = "tiles" => Tile!ServedKept]_mcVars
=============================================================================
