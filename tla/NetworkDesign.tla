---------------------------- MODULE NetworkDesign ----------------------------
(***************************************************************************)
(* The network design tool (tools/network-design): a network being edited  *)
(* (with undo, redo and drags of a device), scenarios loaded over it while *)
(* the user goes on editing, the terrain tiles of the network and of the   *)
(* view downloaded in the background, and the results (links, resilience)  *)
(* computed from both.                                                     *)
(*                                                                         *)
(* A configuration is immutable in the code and compared by reference:     *)
(* uid names the object.  at gives the place (here: the tile) of each of   *)
(* its devices.  The user's budget `left` (one of Budgets) bounds a        *)
(* behaviour: edits, drag moves, loads, views, failures and tab changes.   *)
(***************************************************************************)
EXTENDS Naturals, Sequences, FiniteSets, SequencesExt

CONSTANTS Devices, Tiles, MaxTiles, MaxNetworkTiles, HistoryLimit, Budgets, None

VARIABLES
    cfg, past, future, epoch, drag, tab, draft, marks,
    links, res, resBusy,
    tiles, pinned, visible, failed, fetching, ensures,
    configTileToken, configBusy, tilesArrivedInDrag, viewTileToken, tileState,
    loadToken, loading,
    edges, torn, excused, left

editVars == <<cfg, past, future, epoch, drag, draft>>
resultVars == <<links, res, resBusy, marks>>
storeVars == <<tiles, pinned, visible, failed, fetching, ensures>>
tileVars == <<configTileToken, configBusy, tilesArrivedInDrag, viewTileToken, tileState>>
loadVars == <<loadToken, loading>>
ghosts == <<edges, torn, excused>>
vars == <<editVars, tab, resultVars, storeVars, tileVars, loadVars, ghosts, left>>

Range2(f) == {f[x] : x \in DOMAIN f}

Spend(k) == left[k] > 0 /\ left' = [left EXCEPT ![k] = @ - 1]

(* A new configuration object with the devices of `at`. *)
Fresh(at) == [cfg EXCEPT !.uid = 10 * left.edits + left.moves + 100 * left.loads, !.at = at]

(* networkTiles, requiredTiles: the tiles a network on the world's terrain needs *)
Needs(c) == IF c.terrain = "world" THEN Range2(c.at) ELSE {}
TooWide(c) == Cardinality(Needs(c)) > MaxNetworkTiles

Held == Range2(tiles)

(* What a computation on network c sees: the network and the tiles it has. *)
ResultOf(c) == [net |-> c, counted |-> Needs(c) \cap Held]

------------------------------------------------------------------------------
(* The tile store *)

(* trim: past the limit the oldest tiles go, except the network's, the *)
(* visible ones and those of a call in progress.                       *)
Trimmed(seq, prot) ==
    LET loose == SelectSeq(seq, LAMBDA t : t \notin prot)
        excess == IF Len(seq) > MaxTiles THEN Len(seq) - MaxTiles ELSE 0
        gone == {loose[i] : i \in {j \in 1..Len(loose) : j <= excess}}
    IN  SelectSeq(seq, LAMBDA t : t \notin gone)

Ensure(kind, token, want) ==
    [kind |-> kind, token |-> token, todo |-> (want \ Held) \ failed, keep |-> want,
     err |-> (want \ Held) \cap failed # {}]

Without(t, failing) ==
    {[e EXCEPT !.todo = @ \ {t}, !.err = @ \/ (failing /\ t \in e.todo)] : e \in ensures}

(* fetchOne: the tile is stored, its failure forgotten, the store trimmed *)
TileArrives(t) ==
    /\ t \in fetching
    /\ fetching' = fetching \ {t}
    /\ failed' = failed \ {t}
    /\ tiles' = Trimmed(Append(tiles, t), pinned \cup visible \cup UNION {e.keep : e \in ensures})
    /\ ensures' = Without(t, FALSE)
    /\ UNCHANGED <<editVars, tab, resultVars, pinned, visible, tileVars, loadVars, ghosts, left>>

TileFails(t) ==
    /\ t \in fetching /\ Spend("failures")
    /\ fetching' = fetching \ {t}
    /\ failed' = failed \cup {t}
    /\ ensures' = Without(t, TRUE)
    /\ UNCHANGED <<editVars, tab, resultVars, tiles, pinned, visible, tileVars, loadVars, ghosts>>

(* RETRY_AFTER_MS have passed since the failure *)
RetryElapses ==
    /\ failed # {} /\ failed' = {}
    /\ UNCHANGED <<editVars, tab, resultVars, tiles, pinned, visible, fetching, ensures, tileVars,
                   loadVars, ghosts, left>>

------------------------------------------------------------------------------
(* Results *)

(* scheduleConfigTiles, from the given token, busy flag, notice and calls *)
ScheduleConfigTiles(c, token, busy, shown, calls) ==
    LET missing == Needs(c) \ Held
        skip == c.terrain # "world" \/ TooWide(c)
        refused == TooWide(c) \/ missing \cap failed # {}
        start == ~skip /\ missing # {} /\ ~refused
    IN  /\ pinned' = IF skip THEN pinned ELSE Needs(c)
        /\ configTileToken' = IF start THEN token + 1 ELSE token
        /\ configBusy' = (busy \/ start)
        /\ ensures' = IF start THEN calls \cup {Ensure("config", token + 1, missing)} ELSE calls
        /\ fetching' = IF start THEN fetching \cup missing ELSE fetching
        /\ tileState' = CASE start -> "busy" [] refused -> "error" [] OTHER -> shown
        /\ excused' = refused

(* recompute that leaves the resilience of the network before *)
RecomputedLinks(c, marked) ==
    /\ links' = ResultOf(c)
    /\ marks' = marked \cap DOMAIN c.at
    /\ UNCHANGED <<res, resBusy>>

(* recompute followed by refreshAll, on network c: links again, resilience *)
(* and failure report dropped, and computed again if their tab is open     *)
Recomputed(c, marked) ==
    /\ links' = ResultOf(c)
    /\ marks' = marked \cap DOMAIN c.at
    /\ res' = None
    /\ resBusy' = (resBusy \/ tab = "resilience")

Refresh(c) ==
    /\ Recomputed(c, marks)
    /\ ScheduleConfigTiles(c, configTileToken, configBusy, tileState, ensures)
    /\ UNCHANGED <<tiles, visible, failed, viewTileToken>>

(* What the page shows: the table of links, the resilience (a notice while *)
(* it is computed), the report of the failure and the map.                 *)
PanelNetwork == links
PanelResilience == IF resBusy THEN None ELSE res
ReportView == IF PanelResilience = None \/ res.report = {} THEN None ELSE res.report
Drawn == [nodes |-> cfg, links |-> links,
          crossed |-> IF res # None /\ res.report # {} THEN res.report ELSE marks]

(* ensureResilience's timer: the computation uses the nodes of that moment *)
ResilienceTimer ==
    /\ resBusy /\ resBusy' = FALSE
    /\ res' = [at |-> ResultOf(cfg), report |-> marks]
    /\ UNCHANGED <<editVars, tab, links, marks, storeVars, tileVars, loadVars, ghosts, left>>

(* failureChanged: the report follows the marks if the context is ready *)
FailureChanged(m) ==
    /\ marks' = m
    /\ res' = IF res # None /\ tab = "resilience" THEN [res EXCEPT !.report = m] ELSE res
    /\ resBusy' = (resBusy \/ (tab = "resilience" /\ res = None))

------------------------------------------------------------------------------
(* Editing *)

(* A new change that keeps the branch undone before it *)
PushKeepsRedo(before) ==
    /\ past' = Append(past, before)
    /\ UNCHANGED future

(* History.push *)
Push(before) ==
    IF past # <<>> /\ Last(past) = before
    THEN UNCHANGED <<past, future>>
    ELSE /\ past' = LET p == Append(past, before)
                    IN  IF Len(p) > HistoryLimit THEN Tail(p) ELSE p
         /\ future' = <<>>

(* A dragged device has already moved the network, unrecorded *)
HalfMoved == drag # None /\ drag.moved /\ drag.epoch = epoch

(* commit: the change is recorded, a route being drawn is dropped *)
Commit(next) ==
    /\ Spend("edits")
    /\ cfg' = next
    /\ Push(cfg)
    /\ epoch' = epoch + 1
    /\ draft' = None
    /\ Refresh(next)
    /\ edges' = edges \cup {<<cfg.uid, next.uid>>}
    /\ torn' = (torn \/ HalfMoved)
    /\ UNCHANGED <<drag, tab, tilesArrivedInDrag, loadVars>>

(* placeDevice and the drop of a palette button; duplicateDevice *)
PlaceDevice(d, t) == d \notin DOMAIN cfg.at /\ Commit(Fresh([x \in DOMAIN cfg.at \cup {d} |-> IF x = d THEN t ELSE cfg.at[x]]))
DuplicateDevice(s, d) == s \in DOMAIN cfg.at /\ PlaceDevice(d, cfg.at[s])
(* deleteSelected; the shortcut only on the network tab, the button in its panel *)
DeleteSelected(d) == tab = "network" /\ d \in DOMAIN cfg.at /\ Commit(Fresh([x \in DOMAIN cfg.at \ {d} |-> cfg.at[x]]))
(* updateDevice, environment and regulation: same places, another object *)
UpdateDevice == tab = "network" /\ DOMAIN cfg.at # {} /\ Commit(Fresh(cfg.at))
SetEnvironment == Commit(Fresh(cfg.at))
RemoveRoute == UpdateDevice

StartRoute(d) ==
    /\ d \in DOMAIN cfg.at /\ tab = "network" /\ draft # d
    /\ draft' = d
    /\ UNCHANGED <<cfg, past, future, epoch, drag, tab, resultVars, storeVars, tileVars, loadVars, ghosts, left>>

CancelRoute ==
    /\ draft # None /\ draft' = None
    /\ UNCHANGED <<cfg, past, future, epoch, drag, tab, resultVars, storeVars, tileVars, loadVars, ghosts, left>>

(* finishRoute: a device that is gone, or the same route, records nothing *)
FinishRoute == draft \in DOMAIN cfg.at /\ Commit(Fresh(cfg.at))

Travelled(c) ==
    /\ cfg' = c
    /\ epoch' = epoch + 1
    /\ draft' = None
    /\ Refresh(c)
    /\ torn' = (torn \/ HalfMoved)
    /\ UNCHANGED <<drag, tab, tilesArrivedInDrag, loadVars, edges>>

Undo ==
    /\ past # <<>> /\ Spend("travels")
    /\ past' = Front(past)
    /\ future' = Append(future, cfg)
    /\ Travelled(Last(past))

Redo ==
    /\ future # <<>> /\ Spend("travels")
    /\ future' = Front(future)
    /\ past' = Append(past, cfg)
    /\ Travelled(Last(future))

------------------------------------------------------------------------------
(* Pointer and tabs *)

(* pointerdown on a device (tool "select"): beginMove *)
PointerDown(d) ==
    /\ drag = None /\ d \in DOMAIN cfg.at /\ draft = None
    /\ drag' = [dev |-> d, moved |-> FALSE, before |-> cfg, epoch |-> epoch]
    /\ UNCHANGED <<cfg, past, future, epoch, draft, tab, resultVars, storeVars, tileVars, loadVars, ghosts, left>>

(* pointermove: on the network tab the device follows; a drag begun before *)
(* another change is dropped                                               *)
PointerMove(t) ==
    /\ drag # None /\ tab = "network"
    /\ IF drag.epoch # epoch
       THEN drag' = None /\ UNCHANGED <<cfg, left>>
       ELSE /\ t # cfg.at[drag.dev] /\ Spend("moves")
            /\ drag' = [drag EXCEPT !.moved = TRUE]
            /\ cfg' = Fresh([cfg.at EXCEPT ![drag.dev] = t])
    /\ UNCHANGED <<past, future, epoch, draft, tab, resultVars, storeVars, tileVars, loadVars, ghosts>>

(* Editor.endMove *)
EndMove ==
    IF drag.epoch = epoch
    THEN /\ Push(drag.before) /\ epoch' = epoch + 1
         /\ edges' = edges \cup {<<drag.before.uid, cfg.uid>>}
    ELSE UNCHANGED <<past, future, epoch, edges>>

(* endDrag of a moved device on the network tab *)
DropDevice ==
    /\ drag # None /\ drag.moved /\ tab = "network"
    /\ drag' = None
    /\ EndMove
    /\ Refresh(cfg)
    /\ tilesArrivedInDrag' = FALSE
    /\ UNCHANGED <<cfg, draft, tab, loadVars, torn, left>>

(* endDrag otherwise: on the resilience tab a click fails or repairs the    *)
(* device; tiles that came during the drag are counted now                  *)
ReleaseDevice ==
    /\ drag # None /\ ~(drag.moved /\ tab = "network")
    /\ drag' = None
    /\ tilesArrivedInDrag' = FALSE
    /\ LET toggled == IF drag.moved \/ tab # "resilience" THEN marks
                      ELSE (marks \ {drag.dev}) \cup ({drag.dev} \ marks)
       IN  IF tilesArrivedInDrag
           THEN /\ Recomputed(cfg, toggled)
                /\ ScheduleConfigTiles(cfg, configTileToken, configBusy, tileState, ensures)
           ELSE /\ IF toggled = marks THEN UNCHANGED resultVars
                   ELSE FailureChanged(toggled) /\ UNCHANGED links
                /\ excused' = (excused \/ HalfMoved)
                /\ UNCHANGED <<pinned, configTileToken, configBusy, ensures, fetching, tileState>>
    /\ torn' = (torn \/ HalfMoved)
    /\ UNCHANGED <<cfg, past, future, epoch, draft, tab, tiles, visible, failed, viewTileToken, loadVars, edges, left>>

SetTab(t) ==
    /\ t # tab /\ Spend("tabs")
    /\ tab' = t
    /\ draft' = None
    /\ resBusy' = (resBusy \/ (t = "resilience" /\ res = None))
    /\ UNCHANGED <<cfg, past, future, epoch, drag, links, res, marks, storeVars, tileVars, loadVars, ghosts>>

(* the buttons "simulate" and "restore all" of the resilience panel *)
SetFailures(m) ==
    /\ tab = "resilience" /\ res # None /\ Spend("tabs")
    /\ m \subseteq DOMAIN cfg.at /\ FailureChanged(m)
    /\ UNCHANGED <<editVars, tab, links, storeVars, tileVars, loadVars, ghosts>>

------------------------------------------------------------------------------
(* Tiles of the view, and what happens when a call to ensure is over *)

(* loadViewTiles on the view's tiles ({}: too many at this scale) *)
LoadViewTiles(want) ==
    /\ Spend("views")
    /\ viewTileToken' = viewTileToken + 1
    /\ IF cfg.terrain # "world"
       THEN /\ tileState' = IF configBusy THEN tileState ELSE "idle"
            /\ UNCHANGED <<visible, ensures, fetching>>
       ELSE /\ visible' = want
            /\ LET missing == want \ Held
                   start == missing # {} /\ missing \cap failed = {}
               IN  /\ ensures' = IF start THEN ensures \cup {Ensure("view", viewTileToken + 1, missing)} ELSE ensures
                   /\ fetching' = IF start THEN fetching \cup missing ELSE fetching
                   /\ tileState' = CASE start -> "busy"
                                     [] want = {} -> "idle"
                                     [] missing # {} -> "error"
                                     [] configBusy -> tileState
                                     [] OTHER -> "idle"
    /\ UNCHANGED <<editVars, tab, resultVars, tiles, pinned, failed, configTileToken, configBusy,
                   tilesArrivedInDrag, loadVars, ghosts>>

ViewLoaded(e) ==
    /\ e \in ensures /\ e.kind = "view" /\ e.todo = {}
    /\ ensures' = ensures \ {e}
    /\ tileState' = CASE e.token # viewTileToken -> tileState
                      [] e.err -> "error"
                      [] configBusy -> tileState
                      [] OTHER -> "idle"
    /\ UNCHANGED <<editVars, tab, resultVars, tiles, pinned, visible, failed, fetching, configTileToken,
                   configBusy, tilesArrivedInDrag, viewTileToken, loadVars, ghosts, left>>

(* Whether a call's result is still the one awaited *)
CurrentAny(e) == TRUE
Current(e) == e.token = configTileToken

ConfigTilesLoaded(e) ==
    /\ e \in ensures /\ e.kind = "config" /\ e.todo = {}
    /\ IF ~Current(e) \/ e.err
       THEN /\ configBusy' = (configBusy /\ ~Current(e))
            /\ tileState' = IF Current(e) THEN "error" ELSE tileState
            /\ ensures' = ensures \ {e}
            /\ excused' = (excused \/ Current(e))
            /\ UNCHANGED <<tilesArrivedInDrag, resultVars, pinned, fetching, configTileToken>>
       ELSE IF drag # None
       THEN /\ configBusy' = FALSE /\ tileState' = "idle"
            /\ ensures' = ensures \ {e}
            /\ tilesArrivedInDrag' = TRUE
            /\ UNCHANGED <<resultVars, pinned, fetching, configTileToken, excused>>
       ELSE /\ Recomputed(cfg, marks)
            /\ ScheduleConfigTiles(cfg, configTileToken, FALSE, "idle", ensures \ {e})
            /\ UNCHANGED tilesArrivedInDrag
    /\ UNCHANGED <<editVars, tab, tiles, visible, failed, viewTileToken, loadVars, edges, torn, left>>

------------------------------------------------------------------------------
(* Loading a scenario or a configuration *)

LatestLoadAny(token) == TRUE
LatestLoad(token) == token = loadToken

(* applyConfig: the tile loads of the network before are no longer valid *)
ApplyConfig(c, others, marked) ==
    /\ cfg' = c
    /\ past' = <<>> /\ future' = <<>> /\ epoch' = epoch + 1
    /\ draft' = None
    /\ Recomputed(c, marked)
    /\ ScheduleConfigTiles(c, configTileToken + 1, FALSE, "idle", others)
    /\ tilesArrivedInDrag' = FALSE
    /\ viewTileToken' = viewTileToken + 1
    /\ edges' = {} /\ torn' = FALSE
    /\ UNCHANGED <<drag, tab, tiles, visible, failed>>

Loaded(terrain, token) ==
    [uid |-> 1000 * token, load |-> token, terrain |-> terrain,
     at |-> [d \in {CHOOSE x \in Devices : TRUE} |-> CHOOSE t \in Tiles : TRUE]]

(* loadConfig of a network without downloads: applied at once *)
LoadPlain ==
    /\ Spend("loads")
    /\ loadToken' = loadToken + 1
    /\ ApplyConfig(Loaded("plain", loadToken + 1), ensures, {})
    /\ UNCHANGED loading

(* loadConfig of a real map: resolveTerrain waits for the pack or the tiles *)
LoadDownloading(terrain) ==
    /\ Spend("loads")
    /\ loadToken' = loadToken + 1
    /\ LET e == Ensure("load", loadToken + 1, Needs(Loaded(terrain, 1)))
       IN  IF terrain = "world"
           THEN /\ ensures' = ensures \cup {e}
                /\ fetching' = fetching \cup e.todo
                /\ UNCHANGED loading
           ELSE loading' = loading \cup {loadToken + 1} /\ UNCHANGED <<ensures, fetching>>
    /\ UNCHANGED <<editVars, tab, resultVars, tiles, pinned, visible, failed, tileVars, ghosts>>

(* PackLibrary.load answers *)
PackLoaded(token, ok) ==
    /\ token \in loading
    /\ loading' = loading \ {token}
    /\ IF ok /\ LatestLoad(token)
       THEN ApplyConfig(Loaded("pack", token), ensures, {})
       ELSE UNCHANGED <<editVars, tab, resultVars, storeVars, tileVars, ghosts>>
    /\ UNCHANGED <<loadToken, left>>

WorldLoaded(e) ==
    /\ e \in ensures /\ e.kind = "load" /\ e.todo = {}
    /\ IF ~e.err /\ LatestLoad(e.token)
       THEN ApplyConfig(Loaded("world", e.token), ensures \ {e}, {})
       ELSE /\ ensures' = ensures \ {e}
            /\ UNCHANGED <<editVars, tab, resultVars, tiles, pinned, visible, failed, fetching, tileVars, ghosts>>
    /\ UNCHANGED <<loadVars, left>>

(* recenterFrame: same network around another origin, history dropped *)
RecenterFrame ==
    /\ cfg.terrain = "world" /\ Spend("edits")
    /\ ApplyConfig(Fresh(cfg.at), ensures, marks)
    /\ UNCHANGED loadVars

------------------------------------------------------------------------------
Init ==
    /\ cfg = Loaded("world", 0)
    /\ past = <<>> /\ future = <<>> /\ epoch = 0 /\ drag = None /\ tab = "network" /\ draft = None
    /\ marks = {} /\ links = [net |-> cfg, counted |-> Needs(cfg)] /\ res = None /\ resBusy = FALSE
    /\ tiles = SetToSeq(Needs(cfg)) /\ pinned = Needs(cfg) /\ visible = {} /\ failed = {}
    /\ fetching = {} /\ ensures = {}
    /\ configTileToken = 0 /\ configBusy = FALSE /\ tilesArrivedInDrag = FALSE
    /\ viewTileToken = 0 /\ tileState = "idle"
    /\ loadToken = 0 /\ loading = {}
    /\ edges = {} /\ torn = FALSE /\ excused = FALSE
    /\ left \in Budgets

Edit ==
    \/ \E d \in Devices, t \in Tiles : PlaceDevice(d, t)
    \/ \E s, d \in Devices : DuplicateDevice(s, d)
    \/ \E d \in Devices : DeleteSelected(d) \/ StartRoute(d)
    \/ UpdateDevice \/ SetEnvironment \/ RemoveRoute \/ CancelRoute \/ FinishRoute
    \/ Undo \/ Redo \/ RecenterFrame

Pointer ==
    \/ \E d \in Devices : PointerDown(d)
    \/ \E t \in Tiles : PointerMove(t)
    \/ DropDevice \/ ReleaseDevice
    \/ \E t \in {"network", "resilience"} : SetTab(t)
    \/ \E m \in SUBSET Devices : SetFailures(m)
    \/ \E want \in SUBSET Tiles : LoadViewTiles(want)

Load == LoadPlain \/ \E t \in {"pack", "world"} : LoadDownloading(t)

Answer ==
    \/ \E t \in Tiles : TileArrives(t) \/ TileFails(t)
    \/ RetryElapses
    \/ ResilienceTimer
    \/ \E e \in ensures : ViewLoaded(e) \/ ConfigTilesLoaded(e) \/ WorldLoaded(e)
    \/ \E k \in loading, ok \in BOOLEAN : PackLoaded(k, ok)

Next == Edit \/ Pointer \/ Load \/ Answer

Spec == Init /\ [][Next]_vars

------------------------------------------------------------------------------
(* Undo and redo walk the steps the user took and no other: each pair of     *)
(* neighbours in past, current network, future (reversed) is one change the  *)
(* user made (Editor.commit, endMove), whatever was undone, redone, dragged  *)
(* or loaded in between.  A drag cut short by another change has moved the   *)
(* network unrecorded: see DragIsOneStep.                                    *)
Timeline == past \o <<cfg>> \o Reverse(future)
TimelineHolds ==
    (~torn /\ ~HalfMoved) =>
        \A i \in 1..(Len(Timeline) - 1) : <<Timeline[i].uid, Timeline[i + 1].uid>> \in edges

(* editor.ts: "un trascinamento è un solo passo e viene scartato se nel      *)
(* frattempo la rete è cambiata per un'altra via".                           *)
DragIsOneStep ==
    ~HalfMoved =>
        \A i \in 1..(Len(Timeline) - 1) : <<Timeline[i].uid, Timeline[i + 1].uid>> \in edges

(* The links and the resilience shown are those of the network on the map,   *)
(* computed on every tile it has: with no device in hand and no tile of the  *)
(* network being loaded or refused, nothing shown is older than what the map *)
(* shows, although edits, tiles and timers come in any order.  Excepted is a *)
(* device released on the other tab after it was moved (ReleaseDevice), and  *)
(* a network whose terrain the page has said it could not load; tiles left   *)
(* uncounted by a dropped drag are ReleaseRecomputes.                        *)
ResultsCurrent ==
    (drag = None /\ ~excused /\ ~configBusy /\ ~tilesArrivedInDrag)
        => /\ PanelNetwork = ResultOf(cfg)
           /\ PanelResilience # None => PanelResilience.at = PanelNetwork
           /\ ReportView # None => ReportView = marks
           /\ Drawn = [nodes |-> cfg, links |-> ResultOf(cfg), crossed |-> marks]

(* app.ts:528, on tiles that arrive while a device is held: "il rilascio     *)
(* rifà i calcoli (anche se non ha mosso nulla)".  Once the device is no     *)
(* longer held the links count every tile of the network.                    *)
ReleaseRecomputes ==
    (drag = None /\ ~excused /\ ~configBusy) => links.counted = Needs(links.net) \cap Held

(* Whatever order downloads end in, the network loaded is never replaced by  *)
(* one the user chose before it (loadToken).                                 *)
LoadKept == cfg'.load >= cfg.load
LoadsInOrder == [][LoadKept]_vars
==============================================================================
