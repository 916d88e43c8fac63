--------------------------- MODULE PhoneDashboard ---------------------------
(***************************************************************************)
(* The phone application around its gateway: the screens from the welcome  *)
(* to the dashboard, the setup form and the camera that fills it in, the   *)
(* refresh every five seconds, and the forms and panels of the dashboard.  *)
(* Everything runs on one thread, so an action is what runs between two    *)
(* awaits.  A request carries the address and the password of the moment   *)
(* it is sent; its answer comes, or its timer ends it, whatever the user   *)
(* has done meanwhile.                                                     *)
(***************************************************************************)
EXTENDS Naturals, FiniteSets

CONSTANTS
  Gateways, None,
  MaxPassword,    \* bound: passwords a gateway goes through
  Budgets         \* bounds: what is started at most, a record per scenario

VARIABLES
  real,       \* per gateway: the network password it accepts
  screen, tour, timer,
  busy,       \* the setup form's button is disabled
  url, pw,    \* gatewayUrl, networkPassword
  saved,      \* the pair in localStorage
  setups,     \* submits of the setup form under way
  polls,      \* refreshAll() calls under way
  cycle,      \* refreshCycleId
  contents,   \* refreshContent() calls under way
  contentId,  \* contentRequestId
  shown,      \* per list: [gw, id] of the answer it shows, or None
  open,       \* panels open
  hot,        \* forms whose button is disabled
  work,       \* handlers of those forms under way
  renaming,   \* the text field of a name has the focus
  scans, session, camera, overlay,  \* the scanner
  frame,      \* a picture of the camera is being decoded
  left        \* ghost: what is left of the scenario's budget

nav  == <<screen, tour, timer, busy>>
pair == <<url, pw, saved>>
read == <<polls, cycle, contents, contentId, shown>>
desk == <<open, hot, work, renaming>>
scan == <<scans, session, camera, overlay, frame>>
vars == <<real, nav, pair, setups, read, desk, scan, left>>

\* A password is the n-th of a gateway.
NoPassword == <<None, 0>>
\* The lists renderSkeletons() empties; those it leaves as they are.
Skeletons == {"peers", "services", "content", "channels", "groups"}
Lists     == Skeletons \cup {"location", "relays", "beacons", "drops", "appends", "discovery"}
Chats     == {"chat", "channel", "group"}
Panels    == Chats \cup {"service"}
\* What each handler awaits, in order.
Steps(f) ==
  CASE f \in Chats -> <<"send", "body", "reload">>
    [] f \in {"relay", "checkin", "location"} -> <<"locate", "send", "body">>
    [] f = "delivery" -> <<"file", "send", "body">>
    [] f \in {"service", "newGroup", "append", "discover"} -> <<"send", "body">>
    [] OTHER -> <<"send", "body", "rest">>          \* "reboot"
Forms  == Panels \cup {"relay", "checkin", "location", "delivery", "newGroup", "append",
                       "discover", "reboot"}
\* The external delivery form and the quick check-in share their buttons.
Button(f) == IF f = "checkin" THEN "delivery" ELSE f
\* The two handlers that show a 401 as any other error, and the three whose
\* success starts a refresh.
Shrugs    == {"location", "reboot"}
Refreshes == {"relay", "discover", "newGroup"}

Reduced == url = None \/ pw = NoPassword
\* Without an address a request reaches nobody.
Accepted(r) == r.gw # None /\ r.pw = <<r.gw, real[r.gw]>>
Refuses(r)  == r.gw # None /\ r.pw # <<r.gw, real[r.gw]>>

Init ==
  /\ real = [g \in Gateways |-> 1]
  /\ tour = FALSE /\ busy = FALSE /\ setups = {} /\ contents = {} /\ contentId = 0
  /\ shown = [l \in Lists |-> None] /\ open = {} /\ hot = {} /\ work = {} /\ renaming = FALSE
  /\ scans = {} /\ session = 0 /\ camera = None /\ overlay = FALSE /\ frame = FALSE
  /\ \/ /\ url = None /\ pw = NoPassword /\ screen = "welcome" /\ timer = FALSE /\ polls = {} /\ cycle = 0
     \/ /\ url \in Gateways /\ pw = <<url, 1>> /\ screen = "dashboard" /\ timer = TRUE
        /\ cycle = 1 /\ polls = {[id |-> 1, gw |-> url, pw |-> pw, at |-> "all"]}
  /\ saved = [url |-> url, pw |-> pw]
  /\ left \in Budgets

-----------------------------------------------------------------------------
(* Screens. *)

\* The forms of a closed panel go with it; a handler of theirs runs on.
ClosePanels(h, ws) ==
  /\ open' = open \ Chats /\ hot' = h \ Chats
  /\ work' = {IF w.form \in Chats THEN [w EXCEPT !.live = FALSE] ELSE w : w \in ws}

ShowSetupScreen(h, ws) ==
  screen' = "setup" /\ timer' = FALSE /\ busy' = FALSE /\ ClosePanels(h, ws)

\* As if every answer were rendered, whichever refresh it belongs to.
LatestAny(p) == TRUE

Latest(p) == p.id = cycle

Sent(id, at) == [id |-> id, gw |-> url, pw |-> pw, at |-> at]

RefreshAll ==
  cycle' = cycle + 1 /\ polls' = polls \cup {Sent(cycle + 1, "all")}

StartRefresh ==
  /\ left.cycles > 0
  /\ left' = [left EXCEPT !.cycles = @ - 1]
  /\ RefreshAll

ShowDashboard ==
  /\ screen' = "dashboard" /\ ClosePanels(hot, work)
  /\ IF Reduced
     THEN timer' = FALSE /\ UNCHANGED <<shown, cycle, polls, left>>
     ELSE /\ timer' = TRUE
          /\ shown' = [l \in Lists |-> IF l \in Skeletons THEN None ELSE shown[l]]
          /\ StartRefresh

WelcomeContinue(wantsGateway) ==
  /\ screen = "welcome"
  /\ IF wantsGateway THEN ShowSetupScreen(hot, work) /\ UNCHANGED <<tour, read, left>>
     ELSE /\ screen' = "tour" /\ tour' = TRUE
          /\ UNCHANGED <<timer, busy, open, hot, work, read, left>>
  /\ UNCHANGED <<real, pair, setups, renaming, scan>>

\* The dashboard without a gateway offers to pair one.
ReducedConnect ==
  /\ screen = "dashboard" /\ Reduced
  /\ ShowSetupScreen(hot, work)
  /\ UNCHANGED <<real, tour, pair, setups, read, renaming, scan, left>>

\* Once in the life of the application the tour comes between.
ContinueFromSetupSuccess(tourSeen) ==
  /\ screen = "success"
  /\ IF tourSeen THEN ShowDashboard /\ UNCHANGED tour
     ELSE screen' = "tour" /\ tour' = TRUE /\ UNCHANGED <<timer, open, hot, work, shown, cycle, polls, left>>
  /\ UNCHANGED <<real, busy, pair, setups, contents, contentId, renaming, scan>>

FinishTour ==
  /\ tour /\ tour' = FALSE
  /\ ShowDashboard
  /\ UNCHANGED <<real, busy, pair, setups, contents, contentId, renaming, scan>>

ForgetNetwork ==
  /\ screen = "dashboard" /\ ~Reduced
  /\ url' = None /\ pw' = NoPassword /\ saved' = [url |-> None, pw |-> NoPassword]
  /\ ShowSetupScreen(hot, work)
  /\ UNCHANGED <<real, tour, setups, read, renaming, scan, left>>

\* The part of every 401 that changes state: the password goes, the address stays.
HandlePasswordRejected(h, ws) ==
  /\ pw' = NoPassword /\ saved' = [saved EXCEPT !.pw = NoPassword] /\ UNCHANGED url
  /\ ShowSetupScreen(h, ws)

-----------------------------------------------------------------------------
(* The setup form, and the camera. *)

Submit(cand, pwd) ==
  /\ screen = "setup" /\ ~busy /\ left.setups > 0
  /\ setups' = setups \cup {[id |-> left.setups, gw |-> cand, pw |-> pwd, prev |-> url, at |-> "status"]}
  /\ left' = [left EXCEPT !.setups = @ - 1]
  /\ url' = cand /\ busy' = TRUE

\* A picture is taken to be decoded before the form is filled in by hand.
SubmitSetup(cand, pwd) ==
  /\ ~overlay /\ ~frame
  /\ Submit(cand, pwd)
  /\ UNCHANGED <<real, screen, tour, timer, pw, saved, read, desk, scan>>

StatusAnswered(s) ==
  /\ s.at = "status"
  /\ setups' = (setups \ {s}) \cup {[s EXCEPT !.at = "probe"]}
  /\ UNCHANGED <<real, nav, pair, read, desk, scan, left>>

\* No answer, a gateway without a password, or a password it refuses.
SetupFails(s) ==
  /\ setups' = setups \ {s}
  /\ url' = s.prev
  /\ ShowSetupScreen(hot, work)
  /\ UNCHANGED <<real, tour, pw, saved, read, renaming, scan, left>>

\* The address saved is the gatewayUrl of this moment.
ProbeAccepted(s) ==
  /\ s.at = "probe" /\ Accepted(s)
  /\ setups' = setups \ {s}
  /\ pw' = s.pw /\ saved' = [url |-> url, pw |-> s.pw]
  /\ screen' = "success"
  /\ UNCHANGED <<real, tour, timer, busy, url, read, desk, scan, left>>

StartScanner ==
  /\ screen = "setup" /\ ~busy /\ ~overlay /\ left.scans > 0
  /\ overlay' = TRUE /\ session' = session + 1
  /\ scans' = scans \cup {session + 1}
  /\ left' = [left EXCEPT !.scans = @ - 1]
  /\ UNCHANGED <<real, nav, pair, setups, read, desk, camera, frame>>

StopScanner ==
  overlay' = FALSE /\ session' = session + 1 /\ camera' = None

CancelScanner ==
  /\ overlay /\ StopScanner
  /\ UNCHANGED <<real, nav, pair, setups, read, desk, scans, left, frame>>

\* As if the grant were not matched with the session that asked.
ScanCurrentAny(n) == TRUE

ScanCurrent(n) == n = session

\* getUserMedia() resolves; a session cancelled meanwhile stops the tracks.
CameraGranted(n) ==
  /\ n \in scans /\ scans' = scans \ {n}
  /\ IF ScanCurrent(n) THEN camera' = n /\ frame' = TRUE ELSE UNCHANGED <<camera, frame>>
  /\ UNCHANGED <<real, nav, pair, setups, read, desk, session, overlay, left>>

CameraRefused(n) ==
  /\ n \in scans /\ scans' = scans \ {n}
  /\ UNCHANGED <<real, nav, pair, setups, read, desk, session, overlay, camera, frame, left>>

\* A code that parses closes the scanner and submits what it says, although the
\* scanner may have been cancelled while the picture was decoded.
CodeScanned(cand, pwd) ==
  /\ frame /\ frame' = FALSE
  /\ StopScanner /\ Submit(cand, pwd)
  /\ UNCHANGED <<real, screen, tour, timer, pw, saved, read, desk, scans>>

\* A picture without a code, the last one of a scanner that is closed.
FrameEnds ==
  /\ frame /\ camera = None /\ frame' = FALSE
  /\ UNCHANGED <<real, nav, pair, setups, read, desk, scans, session, camera, overlay, left>>

-----------------------------------------------------------------------------
(* The refresh. *)

RefreshTick ==
  /\ timer /\ StartRefresh
  /\ UNCHANGED <<real, nav, pair, setups, contents, contentId, shown, desk, scan>>

\* The retry button, and the end of a rename.
RefreshNow ==
  /\ screen = "dashboard" /\ ~Reduced
  /\ StartRefresh /\ renaming' = FALSE
  /\ UNCHANGED <<real, nav, pair, setups, contents, contentId, shown, open, hot, work, scan>>

StartRename ==
  /\ screen = "dashboard" /\ ~renaming /\ shown["peers"] # None
  /\ renaming' = TRUE
  /\ UNCHANGED <<real, nav, pair, setups, read, open, hot, work, scan, left>>

\* A list with names in it is left alone while one of them is being typed.
Redrawn(p) == [gw |-> p.gw, id |-> p.id]
Unless(l, p) == IF renaming THEN shown[l] ELSE Redrawn(p)

RenderPeers(p)             == Unless("peers", p)
RenderLocationReports(p)   == Unless("location", p)
RenderRelays(p)            == Unless("relays", p)
RenderEmergencyBeacons(p)  == Unless("beacons", p)
RenderServices(p)          == Redrawn(p)
RenderChannels(p)          == Redrawn(p)
RenderGroups(p)            == Redrawn(p)
RenderDrops(p)             == Redrawn(p)
RenderNodeAppends(p)       == Redrawn(p)
RenderDiscoveryDirectory(p) == Redrawn(p)

\* renderServices() closes the call form of a service that is gone.
ServicesRendered(gone) ==
  /\ open' = IF gone THEN open \ {"service"} ELSE open
  /\ hot' = IF gone THEN hot \ {"service"} ELSE hot
  /\ work' = {IF gone /\ w.form = "service" THEN [w EXCEPT !.live = FALSE] ELSE w : w \in work}

StartContent ==
  /\ contentId' = contentId + 1
  /\ contents' = contents \cup {[id |-> contentId + 1, gw |-> url]}

\* Everything but the contents, of which the next request is sent at once.
RefreshAnswered(p, gone) ==
  /\ p.at = "all" /\ Accepted(p)
  /\ polls' = polls \ {p}
  /\ IF Latest(p)
     THEN /\ shown' = [peers |-> RenderPeers(p), services |-> RenderServices(p),
                      channels |-> RenderChannels(p), drops |-> RenderDrops(p),
                      appends |-> RenderNodeAppends(p), groups |-> RenderGroups(p),
                      location |-> RenderLocationReports(p), relays |-> RenderRelays(p),
                      beacons |-> RenderEmergencyBeacons(p),
                      discovery |-> RenderDiscoveryDirectory(p), content |-> shown.content]
          /\ ServicesRendered(gone) /\ StartContent
     ELSE UNCHANGED <<shown, open, hot, work, contents, contentId>>
  /\ UNCHANGED <<real, nav, pair, setups, cycle, renaming, scan, left>>

\* The poll of an open panel, every three seconds; its answer goes into the
\* panel's own list.  Channels are read without a password.
PanelTick ==
  /\ open \cap {"chat", "group"} # {} /\ left.cycles > 0
  /\ left' = [left EXCEPT !.cycles = @ - 1]
  /\ polls' = polls \cup {Sent(0, "panel")}
  /\ UNCHANGED <<real, nav, pair, setups, cycle, contents, contentId, shown, desk, scan>>

\* The read after a shared position: rendered whatever was refreshed meanwhile.
LocationAnswered(p) ==
  /\ p.at = "location" /\ Accepted(p)
  /\ polls' = polls \ {p}
  /\ shown' = [shown EXCEPT !["location"] = RenderLocationReports(p)]
  /\ UNCHANGED <<real, nav, pair, setups, cycle, contents, contentId, desk, scan, left>>

\* A read that carries the password is refused.  A refresh has four of them: the
\* others are still out, and each bounces to the setup screen again.
RefreshRejected(p) ==
  /\ Refuses(p)
  /\ \E rest \in {{}} \cup (IF p.at \in {"all", "tail"} THEN {{[p EXCEPT !.at = "tail"]}} ELSE {}) :
       polls' = (polls \ {p}) \cup rest
  /\ HandlePasswordRejected(hot, work)
  /\ UNCHANGED <<real, tour, setups, cycle, contents, contentId, shown, renaming, scan, left>>

RefreshFails(p) ==
  /\ polls' = polls \ {p}
  /\ UNCHANGED <<real, nav, pair, setups, cycle, contents, contentId, shown, desk, scan, left>>

RefreshContent ==
  /\ screen = "dashboard" /\ ~Reduced /\ left.cycles > 0
  /\ left' = [left EXCEPT !.cycles = @ - 1]
  /\ StartContent
  /\ UNCHANGED <<real, nav, pair, setups, polls, cycle, shown, desk, scan>>

ContentAnswered(c) ==
  /\ contents' = contents \ {c}
  /\ shown' = IF c.id = contentId THEN [shown EXCEPT !["content"] = [gw |-> c.gw, id |-> c.id]] ELSE shown
  /\ UNCHANGED <<real, nav, pair, setups, polls, cycle, contentId, desk, scan, left>>

ContentFails(c) ==
  /\ contents' = contents \ {c}
  /\ UNCHANGED <<real, nav, pair, setups, polls, cycle, contentId, shown, desk, scan, left>>

-----------------------------------------------------------------------------
(* The forms of the dashboard. *)

OpenPanel(k) ==
  /\ screen = "dashboard" /\ ~Reduced /\ k \notin open /\ left.open > 0
  /\ open' = open \cup {k}
  /\ left' = [left EXCEPT !.open = @ - 1]
  /\ UNCHANGED <<real, nav, pair, setups, read, hot, work, renaming, scan>>

ClosePanel(k) ==
  /\ k \in open
  /\ open' = open \ {k} /\ hot' = hot \ {k}
  /\ work' = {IF w.form = k THEN [w EXCEPT !.live = FALSE] ELSE w : w \in work}
  /\ UNCHANGED <<real, nav, pair, setups, read, renaming, scan, left>>

SubmitForm(f) ==
  /\ screen = "dashboard" /\ ~Reduced
  /\ f \in Panels => f \in open
  /\ Button(f) \notin hot /\ left.work > 0
  /\ hot' = hot \cup {Button(f)}
  /\ work' = work \cup {[form |-> f, step |-> 1, gw |-> url, pw |-> pw, live |-> TRUE]}
  /\ left' = [left EXCEPT !.work = @ - 1]
  /\ UNCHANGED <<real, nav, pair, setups, read, open, renaming, scan>>

SubmitChat     == SubmitForm("chat")
SubmitChannel  == SubmitForm("channel")
SubmitGroup    == SubmitForm("group")
CreateGroup    == SubmitForm("newGroup")
CreateRelay    == SubmitForm("relay")
Reboot         == SubmitForm("reboot")
SendNodeAppend == SubmitForm("append")
DiscoverPeer   == SubmitForm("discover")
SendExternalDelivery == SubmitForm("delivery")
SendQuickCheckin     == SubmitForm("checkin")
ShareLocation  == SubmitForm("location")
CallServiceForm == SubmitForm("service")

At(w) == Steps(w.form)[w.step]
Last(w) == w.step = Cardinality(DOMAIN Steps(w.form))

\* As if a handler that bounced left its button disabled.
ReleasedUnlessBounced(w) == IF w.live /\ Accepted(w) THEN hot \ {Button(w.form)} ELSE hot

\* The finally of every handler.
Released(w) == IF w.live THEN hot \ {Button(w.form)} ELSE hot

\* A request is sent to the gateway and with the password of this moment.
WorkGoesOn(w) ==
  /\ ~Last(w)
  /\ At(w) = "body" => Accepted(w)
  /\ work' = (work \ {w}) \cup {[w EXCEPT !.step = @ + 1,
       !.gw = IF At(w) # "send" THEN url ELSE @,
       !.pw = IF At(w) # "send" THEN pw ELSE @]}
  /\ UNCHANGED <<real, nav, pair, setups, read, open, hot, renaming, scan, left>>

\* createGroup() opens the panel of its group.
WorkEnds(w) ==
  /\ Last(w)
  /\ At(w) \in {"body", "reload"} => (Accepted(w) \/ w.form = "channel")
  /\ work' = work \ {w} /\ hot' = Released(w)
  /\ open' = IF w.form = "newGroup" THEN open \cup {"group"} ELSE open
  /\ IF w.form \in Refreshes THEN RefreshAll
     ELSE /\ polls' = polls \cup (IF w.form = "location" THEN {Sent(cycle, "location")} ELSE {})
          /\ UNCHANGED cycle
  /\ UNCHANGED <<real, nav, pair, setups, contents, contentId, shown, renaming, scan, left>>

WorkRejected(w) ==
  /\ At(w) = "body" \/ (At(w) = "reload" /\ w.form # "channel")
  /\ Refuses(w) /\ w.form \notin Shrugs
  /\ HandlePasswordRejected(Released(w), work \ {w})
  /\ UNCHANGED <<real, tour, setups, read, renaming, scan, left>>

\* A timeout of the request, of the position or of the file, or an error answer.
WorkFails(w) ==
  /\ At(w) # "rest"
  /\ work' = work \ {w} /\ hot' = Released(w)
  /\ UNCHANGED <<real, nav, pair, setups, read, open, renaming, scan, left>>

\* A gateway restarts with a new password.
NewPassword(g) ==
  /\ real[g] < MaxPassword
  /\ real' = [real EXCEPT ![g] = @ + 1]
  /\ UNCHANGED <<nav, pair, setups, read, desk, scan, left>>

\* The page is loaded again: what localStorage holds is all that is left.
Reload ==
  /\ saved.url # None /\ saved.pw # NoPassword
  /\ screen' = "dashboard" /\ tour' = FALSE /\ timer' = TRUE /\ busy' = FALSE
  /\ url' = saved.url /\ pw' = saved.pw /\ UNCHANGED saved
  /\ setups' = {} /\ contents' = {} /\ contentId' = 0 /\ cycle' = 1
  /\ left.cycles > 0 /\ left' = [left EXCEPT !.cycles = @ - 1]
  /\ polls' = {[id |-> 1, gw |-> saved.url, pw |-> saved.pw, at |-> "all"]}
  /\ shown' = [l \in Lists |-> None] /\ open' = {} /\ hot' = {} /\ work' = {} /\ renaming' = FALSE
  /\ scans' = {} /\ session' = 0 /\ camera' = None /\ overlay' = FALSE /\ frame' = FALSE
  /\ UNCHANGED real

Screens ==
  \/ \E b \in BOOLEAN : WelcomeContinue(b) \/ ContinueFromSetupSuccess(b)
  \/ ReducedConnect \/ FinishTour \/ ForgetNetwork \/ Reload
  \/ \E g \in Gateways : NewPassword(g)
Setup ==
  \/ \E g \in Gateways, n \in 1..MaxPassword : SubmitSetup(g, <<g, n>>) \/ CodeScanned(g, <<g, n>>)
  \/ \E s \in setups : StatusAnswered(s) \/ SetupFails(s) \/ ProbeAccepted(s)
  \/ StartScanner \/ CancelScanner \/ FrameEnds
  \/ \E n \in scans : CameraGranted(n) \/ CameraRefused(n)
Refresh ==
  \/ RefreshTick \/ RefreshNow \/ PanelTick \/ StartRename \/ RefreshContent
  \/ \E p \in polls : LocationAnswered(p) \/ (\E b \in BOOLEAN : RefreshAnswered(p, b)) \/ RefreshRejected(p) \/ RefreshFails(p)
  \/ \E c \in contents : ContentAnswered(c) \/ ContentFails(c)
Handlers ==
  \/ \E k \in Panels : OpenPanel(k) \/ ClosePanel(k)
  \/ SubmitChat \/ SubmitChannel \/ SubmitGroup \/ CreateGroup \/ CreateRelay \/ Reboot
  \/ SendNodeAppend \/ DiscoverPeer \/ SendExternalDelivery \/ SendQuickCheckin
  \/ ShareLocation \/ CallServiceForm
Answers == \E w \in work : WorkGoesOn(w) \/ WorkEnds(w) \/ WorkRejected(w) \/ WorkFails(w)
Next == Screens \/ Setup \/ Refresh \/ Handlers \/ Answers

\* An answer, an error or a timer ends every await of a handler.
Spec == Init /\ [][Next]_vars /\ WF_vars(Answers)

-----------------------------------------------------------------------------
(* Properties. *)

\* While the dashboard of a gateway is on screen, the lists that were emptied for
\* it and that a refresh fills (all but the contents) show that gateway's data,
\* never the late answer of the one the phone was on before.
DashboardShowsItsGateway ==
  screen = "dashboard" /\ ~Reduced =>
    \A l \in Skeletons \ {"content"} : shown[l] # None => shown[l].gw = url

\* The camera never runs on behind a closed scanner, however late it is granted.
CameraOffWhenClosed == ~overlay => camera = None

\* Every button a form disables is enabled again.
FormReleased == (hot # {}) ~> (hot = {})

\* The address and the password kept for the next start were accepted together:
\* no two setups run against each other.
PairedTogether == saved.url # None /\ saved.pw # NoPassword => saved.pw[1] = saved.url
=============================================================================
