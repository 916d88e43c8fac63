--------------------------------- MODULE Hub ----------------------------------
(***************************************************************************)
(* The hub's management API and the phone page that drives it: containers  *)
(* listed, started, stopped and read, and the host's power, from a page    *)
(* that may leave one host for another with requests still in the air.     *)
(*                                                                         *)
(*   nomad-hub/management-server.ts, docker-client.ts, host-power.ts       *)
(*   mobile/www/hub-control.js                                             *)
(*                                                                         *)
(* A request is a record [kind, host, arg, token, at, up, lines]: at is    *)
(* "sent" until the server handles it, then "ok", "error" or "401", with   *)
(* the containers up or the lines read; "orphan" once the page gave up     *)
(* (the server may still handle it). The password is right on every host   *)
(* but those in `locked`, whose password was changed under the page.       *)
(***************************************************************************)
EXTENDS Naturals, FiniteSets

CONSTANTS
  Host, Container, HostOf,   \* HostOf: [Container -> Host], managed or not
  Managed,                   \* containers whose name has the prefix
  PowerEnabled,              \* hosts started with --enable-shutdown/--enable-reboot
  None,
  MaxActions,                \* actions of a rate-limit window
  MaxRequests,               \* bound on the page's requests
  MaxTroubles                \* bound on timeouts and on changes around the server

VARIABLES
  running,     \* containers that run
  logs,        \* [Container -> lines logged]
  reachable,   \* hosts whose Docker engine answers
  locked,      \* hosts whose password is no longer the page's
  window,      \* [Host -> actions counted in the window]
  powering,    \* [Host -> power commands running]: powerActionInFlight
  requests,    \* requests in the air
  sent,        \* requests sent so far
  troubles,    \* timeouts and changes around the server so far
  screen,      \* "setup", "connecting" or "dashboard"
  apiUrl,      \* the host the page talks to, or None
  polling,     \* pollTimer is set
  listed,      \* lastContainers: [Container -> shown running], partial
  logsOpen,    \* logsOpenFor
  logShown,    \* lines in the open panel; None while "Caricamento..."
  logToken, capToken,
  panel        \* [of, failed]: the host whose capabilities are drawn, last load failed

server == <<running, logs, reachable, locked, window, powering>>
page == <<screen, apiUrl, polling, listed, logsOpen, logShown, logToken, capToken, panel>>
vars == <<server, requests, sent, troubles, page>>

Trouble == troubles < MaxTroubles /\ troubles' = troubles + 1

------------------------------------------------------------------------------
(* Management server *)

(* isAuthorized *)
IsAuthorized(r) == r.host # None /\ r.host \notin locked

(* listManagedContainers; it fails when Docker does not answer *)
ListManagedContainers(h) == {c \in Managed : HostOf[c] = h}

(* checkActionRateLimit *)
CheckActionRateLimit(h) == window[h] < MaxActions
Counted(h) == [window EXCEPT ![h] = @ + 1]

AnswersWith(r, a, up, lines) ==
  requests' = (requests \ {r}) \cup
              (IF r.at = "orphan" THEN {} ELSE {[r EXCEPT !.at = a, !.up = up, !.lines = lines]})
Answers(r, a) == AnswersWith(r, a, {}, 0)
Unanswered(r) == r.at \in {"sent", "orphan"}

AnsweredAs(r, a) == Answers(r, a) /\ UNCHANGED server

(* handleStatus *)
HandleStatus(r) ==
  /\ r.kind \in {"status", "connect"} /\ IsAuthorized(r)
  /\ IF r.host \in reachable THEN AnswersWith(r, "ok", running, 0) ELSE Answers(r, "error")
  /\ UNCHANGED server

(* GET /api/hub/capabilities, getHardwareProfile *)
HandleCapabilities(r) == r.kind = "capabilities" /\ IsAuthorized(r) /\ AnsweredAs(r, "ok")

(* DockerClient.action: 204 and 304 both count as done *)
Act(c, verb) == IF verb = "stop" THEN running \ {c} ELSE running \cup {c}

(* handleAction: the id is looked up in the host's own managed containers *)
HandleAction(r) ==
  /\ r.kind \in {"start", "stop", "restart"} /\ IsAuthorized(r)
  /\ IF ~CheckActionRateLimit(r.host) THEN AnsweredAs(r, "error")
     ELSE /\ window' = Counted(r.host)
          /\ IF r.host \in reachable /\ r.arg \in ListManagedContainers(r.host)
               THEN Answers(r, "ok") /\ running' = Act(r.arg, r.kind)
               ELSE Answers(r, "error") /\ UNCHANGED running
          /\ UNCHANGED <<logs, reachable, locked, powering>>

\* Mutant: every accepted request starts a command of its own.
PoweringAlways(h) == [powering EXCEPT ![h] = @ + 1]

(* The command starts unless one is under way *)
Powering(h) == [powering EXCEPT ![h] = IF @ > 0 THEN @ ELSE @ + 1]

(* handlePowerAction, handleShutdown, handleReboot: answered before it is done *)
HandlePowerAction(r) ==
  /\ r.kind = "power" /\ IsAuthorized(r)
  /\ IF r.host \notin PowerEnabled \/ ~CheckActionRateLimit(r.host) THEN AnsweredAs(r, "error")
     ELSE /\ Answers(r, "ok")
          /\ window' = Counted(r.host)
          /\ powering' = Powering(r.host)
          /\ UNCHANGED <<running, logs, reachable, locked>>

(* executeSystemShutdown, executeSystemReboot: the command ends or fails *)
PowerCommandEnds(h) ==
  /\ powering[h] > 0
  /\ powering' = [powering EXCEPT ![h] = @ - 1]
  /\ UNCHANGED <<running, logs, reachable, locked, window, requests, sent, troubles, page>>

(* handleLogs, getContainerLogs *)
HandleLogs(r) ==
  /\ r.kind = "logs" /\ IsAuthorized(r)
  /\ IF r.host \in reachable /\ r.arg \in ListManagedContainers(r.host)
       THEN AnswersWith(r, "ok", {}, logs[r.arg]) ELSE Answers(r, "error")
  /\ UNCHANGED server

Unauthorized(r) == r.host # None /\ r.host \in locked /\ AnsweredAs(r, "401")

(* handleRequest *)
HandleRequest(r) ==
  /\ Unanswered(r)
  /\ \/ Unauthorized(r) \/ HandleStatus(r) \/ HandleCapabilities(r)
     \/ HandleAction(r) \/ HandlePowerAction(r) \/ HandleLogs(r)
  /\ UNCHANGED <<sent, troubles, page>>

(* Around the server: a container logs a line, Docker stops or comes back,  *)
(* the password is changed, the rate-limit window ends                      *)
Surroundings ==
  /\ Trouble
  /\ \/ \E c \in running : logs[c] < 2 /\ logs' = [logs EXCEPT ![c] = @ + 1]
                           /\ UNCHANGED <<running, reachable, locked, window, powering>>
     \/ \E h \in Host : /\ reachable' = IF h \in reachable THEN reachable \ {h} ELSE reachable \cup {h}
                        /\ UNCHANGED <<running, logs, locked, window, powering>>
     \/ \E h \in Host \ locked : locked' = locked \cup {h} /\ UNCHANGED <<running, logs, reachable, window, powering>>
     \/ \E h \in Host : /\ window[h] > 0 /\ window' = [window EXCEPT ![h] = 0]
                        /\ UNCHANGED <<running, logs, reachable, locked, powering>>
  /\ UNCHANGED <<requests, sent, page>>

------------------------------------------------------------------------------
(* The page *)

(* hubFetch: to the host of the moment *)
Request(kind, h, arg, token) == [kind |-> kind, host |-> h, arg |-> arg, token |-> token, at |-> "sent",
                                up |-> {}, lines |-> 0]

Sends(rs, rest) ==
  /\ sent + Cardinality(rs) <= MaxRequests
  /\ sent' = sent + Cardinality(rs)
  /\ requests' = rest \cup rs

StatusRequest == Request("status", apiUrl, None, sent + 1)

(* renderContainers: an open panel starts over and its logs are asked again *)
RenderContainers(list, rest) ==
  /\ listed' = list
  /\ IF logsOpen' # None /\ logsOpen' \in DOMAIN list
       THEN /\ logToken' = logToken + 1
            /\ logShown' = None
            /\ Sends({Request("logs", apiUrl, logsOpen', logToken')}, rest)
       ELSE requests' = rest /\ logShown' = None /\ UNCHANGED <<sent, logToken>>

(* The submit of the set-up form, validateAndConnect *)
Connect(h) ==
  /\ screen = "setup"
  /\ screen' = "connecting" /\ apiUrl' = h
  /\ Sends({Request("connect", h, apiUrl, 0)}, requests)
  /\ UNCHANGED <<server, troubles, polling, listed, logsOpen, logShown, logToken, capToken, panel>>

(* showDashboard, loadHostCapabilities *)
ShowDashboard(rest) ==
  /\ screen' = "dashboard" /\ polling' = TRUE
  /\ capToken' = capToken + 1
  /\ Sends({StatusRequest, Request("capabilities", apiUrl, 0, capToken')}, rest)

Poll ==
  /\ polling /\ Sends({StatusRequest}, requests)
  /\ UNCHANGED <<server, troubles, page>>

(* runAction from a row of the list *)
RunAction(c, verb) ==
  /\ screen = "dashboard" /\ c \in DOMAIN listed
  /\ verb = (IF listed[c] THEN "stop" ELSE "start") \/ verb = "restart"
  /\ Sends({Request(verb, apiUrl, c, sent + 1)}, requests)
  /\ UNCHANGED <<server, troubles, page>>

(* shutdownHost, rebootHost, once the buttons were enabled by a panel *)
PerformHostPowerAction ==
  /\ screen = "dashboard" /\ panel.of \in PowerEnabled
  /\ Sends({Request("power", apiUrl, None, sent + 1)}, requests)
  /\ UNCHANGED <<server, troubles, page>>

ToggleLogs(c) ==
  /\ screen = "dashboard" /\ c \in DOMAIN listed
  /\ logsOpen' = IF logsOpen = c THEN None ELSE c
  /\ RenderContainers(listed, requests)
  /\ UNCHANGED <<server, troubles, screen, apiUrl, polling, capToken, panel>>

(* "Cambia Management API", showSetup: nothing in the air is called off *)
ChangeGateway ==
  /\ screen = "dashboard"
  /\ screen' = "setup" /\ apiUrl' = None /\ polling' = FALSE
  /\ UNCHANGED <<server, troubles, requests, sent, listed, logsOpen, logShown, logToken, capToken, panel>>

(* An answer reaches the page; "error" stands for every failure but 401 *)
Connected(r) ==
  /\ r.kind = "connect"
  /\ IF r.at \notin {"error", "401"} THEN ShowDashboard(requests \ {r}) /\ UNCHANGED apiUrl
     ELSE /\ screen' = "setup" /\ apiUrl' = r.arg /\ requests' = requests \ {r}
          /\ UNCHANGED <<sent, polling, capToken>>
  /\ UNCHANGED <<listed, logsOpen, logShown, logToken, panel>>

(* refreshStatus *)
RefreshStatus(r) ==
  /\ r.kind = "status"
  /\ IF r.at = "401" THEN /\ screen' = "setup" /\ polling' = FALSE /\ requests' = requests \ {r}
                          /\ UNCHANGED <<sent, listed, logsOpen, logShown, logToken>>
     ELSE IF r.at = "error" THEN /\ requests' = requests \ {r}
                                 /\ UNCHANGED <<screen, polling, sent, listed, logsOpen, logShown, logToken>>
     ELSE /\ UNCHANGED <<logsOpen, screen, polling>>
          /\ RenderContainers([c \in ListManagedContainers(r.host) |-> c \in r.up], requests \ {r})
  /\ UNCHANGED <<apiUrl, capToken, panel>>

ActionDone(r) ==
  /\ r.kind \in {"start", "stop", "restart"}
  /\ IF r.at = "ok" THEN Sends({StatusRequest}, requests \ {r}) ELSE requests' = requests \ {r} /\ UNCHANGED sent
  /\ UNCHANGED page

PowerAcknowledged(r) ==
  /\ r.kind = "power" /\ requests' = requests \ {r}
  /\ polling' = (polling /\ r.at # "ok")
  /\ UNCHANGED <<sent, screen, apiUrl, listed, logsOpen, logShown, logToken, capToken, panel>>

\* Mutant: any answer is drawn.
LatestAny(r, token) == r.token <= token

(* token !== ...FetchToken: only the latest request's answer counts *)
Latest(r, token) == r.token = token

(* loadHostCapabilities, renderHostCapabilities, updatePowerActionAvailability *)
CapabilitiesLoaded(r) ==
  /\ r.kind = "capabilities" /\ requests' = requests \ {r}
  /\ panel' = IF ~Latest(r, capToken) THEN panel
              ELSE IF r.at = "ok" THEN [of |-> r.host, failed |-> FALSE] ELSE [panel EXCEPT !.failed = TRUE]
  /\ UNCHANGED <<sent, screen, apiUrl, polling, listed, logsOpen, logShown, logToken, capToken>>

(* loadLogs *)
LogsLoaded(r) ==
  /\ r.kind = "logs" /\ requests' = requests \ {r}
  /\ logShown' = IF logsOpen # r.arg \/ ~Latest(r, logToken) \/ r.at \in {"error", "401"}
                   THEN logShown ELSE r.lines
  /\ UNCHANGED <<sent, screen, apiUrl, polling, listed, logsOpen, logToken, capToken, panel>>

Handled(r) ==
  \/ Connected(r) \/ RefreshStatus(r) \/ ActionDone(r) \/ PowerAcknowledged(r)
  \/ CapabilitiesLoaded(r) \/ LogsLoaded(r)

Arrives(r) == ~Unanswered(r) /\ Handled(r) /\ UNCHANGED <<server, troubles>>

(* fetchWithTimeout: a failure for the page; the server may still act. A    *)
(* request without a host fails at once.                                    *)
TimesOut(r) ==
  /\ r.at = "sent" /\ (IF r.host = None THEN UNCHANGED troubles ELSE Trouble)
  /\ LET late == IF r.host = None THEN {} ELSE {[r EXCEPT !.at = "orphan"]}
     IN  requests' = (requests \ {r}) \cup {[r EXCEPT !.at = "error"]} \cup late
  /\ UNCHANGED <<server, sent, page>>

------------------------------------------------------------------------------
Init ==
  /\ running = Container /\ logs = [c \in Container |-> 0] /\ reachable = Host /\ locked = {}
  /\ window = [h \in Host |-> 0] /\ powering = [h \in Host |-> 0]
  /\ requests = {} /\ sent = 0 /\ troubles = 0
  /\ screen = "setup" /\ apiUrl = None /\ polling = FALSE
  /\ listed = [c \in {} |-> FALSE] /\ logsOpen = None /\ logShown = None
  /\ logToken = 0 /\ capToken = 0 /\ panel = [of |-> None, failed |-> FALSE]

Next ==
  \/ \E h \in Host : Connect(h) \/ PowerCommandEnds(h)
  \/ Poll \/ PerformHostPowerAction \/ ChangeGateway \/ Surroundings
  \/ \E c \in Container : ToggleLogs(c) \/ \E v \in {"start", "stop", "restart"} : RunAction(c, v)
  \/ \E r \in requests : HandleRequest(r) \/ Arrives(r) \/ TimesOut(r)

Spec == Init /\ [][Next]_vars

------------------------------------------------------------------------------
(* On the dashboard, once its capabilities are loaded, the host details and  *)
(* the power buttons drawn are those of the host the page talks to, whatever *)
(* answers of a host left before come late (capabilitiesFetchToken).         *)
Loading == \E r \in requests : r.kind = "capabilities" /\ r.token = capToken /\ r.at # "orphan"
PanelIsOfTheHost == (screen = "dashboard" /\ ~Loading /\ ~panel.failed) => panel.of = apiUrl

(* Logs drawn for a container are never replaced by older ones of it.        *)
LogKept == (logsOpen = logsOpen' /\ logShown # None /\ logShown' # None) => logShown' >= logShown
LogsNotRegressed == [][LogKept]_vars

(* Requests sent again by a page that gave up waiting, and a shutdown and a  *)
(* reboot that cross, never run two power commands on a host.                *)
OnePowerCommand == \A h \in Host : powering[h] <= 1

(* hub-control.js on a failed load of the capabilities: the power buttons    *)
(* stay disabled, as this host's abilities are unknown.                      *)
UnknownStaysDisabled ==
  (screen = "dashboard" /\ ~Loading /\ panel.failed) => panel.of \notin PowerEnabled
==============================================================================
