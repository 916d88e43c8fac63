----------------------------- MODULE Resilience -----------------------------
(* The network-resilience test of tools/scenario-model/resilience.ts: what      *)
(* remains of a designed network when nodes, or everything in an area, fail.    *)
(* `prepareResilience` turns the radio model into a graph of links, a sequence  *)
(* of snapshots of that graph in time, and the cells each node covers; the rest *)
(* works on the graph only.  A node is `connected` when it has a simultaneous   *)
(* path to an infrastructure node (a sink), `recoverable` when contacts in time *)
(* order would carry its messages to one, else `cut-off` or `isolated`.         *)
(*                                                                              *)
(* Abstraction: a link is a pair of nodes; which pairs hear each other at a     *)
(* time is the world the run chooses (`contacts`), and how much extra loss a    *)
(* link survives is its margin.  A mobile node is one whose contacts change; the *)
(* areas see it where it is at `atS`.  Coordinates are integers; fractions are   *)
(* pairs <<numerator, denominator>>.                                            *)
EXTENDS Integers, Sequences, FiniteSets, FiniteSetsExt, SequencesExt

CONSTANTS
    Nodes,
    Kind,       \* [Nodes -> {"box", "portable", "card", "relay", "phone"}]
    Horizon,    \* BOUND: the last instant of the world
    Worlds,     \* what hears what: a subset of [0..Horizon -> SUBSET Pairs]
    OffFrom,    \* [Nodes -> Nat]: the instant from which the node is off
    AtStep,         \* the instant the graph is taken, `atS`
    Windows,    \* the windows asked for: records [fromS, toS, stepS], or NoWindow
    NoWindow,   \* `window: false`: no analysis in time
    Position,   \* [Nodes -> [x : Int, y : Int]]
    Margin,     \* the extra loss (dB) a link bears
    Cells, Land, Halo,  \* the grid, its land, and the cells each node covers
    Areas       \* the failure areas an operator may draw

VARIABLES
    contacts,   \* the world
    ctx,        \* the ResilienceContext, or NoContext
    failure     \* the failure being looked at: the FailureSpec, or NoFailure

vars == <<contacts, ctx, failure>>

NoContext == [ready |-> FALSE]
NoFailure == [asked |-> FALSE]
SinkKinds == {"box", "portable"}
ScoreKinds == {"box", "portable", "card", "relay"}
Pairs == {p \in SUBSET Nodes : Cardinality(p) = 2}
-----------------------------------------------------------------------------
(* Areas: who stands in one, which link crosses one. *)

isSink(n) == Kind[n] \in SinkKinds

Sq(a) == a * a
Corner(poly, i) == poly[((i - 1) % Len(poly)) + 1]

\* The even-odd rule: how many sides a ray to the right of (x, y) crosses.
Crosses(x, y, a, b) ==
    /\ (a.y > y) # (b.y > y)
    /\ LET num == (b.x - a.x) * (y - a.y)
           den == b.y - a.y
       IN IF den > 0 THEN (x - a.x) * den < num ELSE (x - a.x) * den > num

pointInPolygon(x, y, poly) ==
    Cardinality({i \in 1..Len(poly) : Crosses(x, y, poly[i], Corner(poly, i + Len(poly) - 1))}) % 2 = 1

pointInArea(area, x, y) ==
    IF area.kind = "circle"
    THEN Sq(x - area.cx) + Sq(y - area.cy) <= Sq(area.r)
    ELSE pointInPolygon(x, y, area.points)

Turn(a, b, c) == (c.x - a.x) * (b.y - a.y) - (b.x - a.x) * (c.y - a.y)
OnSegment(a, b, c) ==
    /\ Turn(a, b, c) = 0
    /\ Min({a.x, b.x}) <= c.x /\ c.x <= Max({a.x, b.x})
    /\ Min({a.y, b.y}) <= c.y /\ c.y <= Max({a.y, b.y})
Apart(d1, d2) == (d1 > 0 /\ d2 < 0) \/ (d1 < 0 /\ d2 > 0)

segmentsCross(p1, p2, p3, p4) ==
    \/ /\ Apart(Turn(p3, p4, p1), Turn(p3, p4, p2))
       /\ Apart(Turn(p1, p2, p3), Turn(p1, p2, p4))
    \/ OnSegment(p3, p4, p1) \/ OnSegment(p3, p4, p2)
    \/ OnSegment(p1, p2, p3) \/ OnSegment(p1, p2, p4)

\* The distance of a circle's centre from the segment: its foot is clamped to the
\* ends.
CircleTouches(area, a, b) ==
    LET vx == b.x - a.x
        vy == b.y - a.y
        len2 == Sq(vx) + Sq(vy)
        dot == (area.cx - a.x) * vx + (area.cy - a.y) * vy
    IN CASE dot <= 0    -> Sq(area.cx - a.x) + Sq(area.cy - a.y) <= Sq(area.r)
         [] dot >= len2 -> Sq(area.cx - b.x) + Sq(area.cy - b.y) <= Sq(area.r)
         [] OTHER       -> Sq((area.cx - a.x) * vy - (area.cy - a.y) * vx) <= Sq(area.r) * len2

\* Only an end of the link inside the area counts: a link across it is missed.
segmentTouchesAreaByEnds(area, a, b) ==
    pointInArea(area, a.x, a.y) \/ pointInArea(area, b.x, b.y)

segmentTouchesArea(area, a, b) ==
    IF area.kind = "circle" THEN CircleTouches(area, a, b)
    ELSE \/ pointInPolygon(a.x, a.y, area.points) \/ pointInPolygon(b.x, b.y, area.points)
         \/ \E i \in 1..Len(area.points) :
               segmentsCross(a, b, area.points[i], Corner(area.points, i + Len(area.points) - 1))

\* A polygon needs three corners; the code throws on fewer.
resolvable(areas) == \A a \in areas : a.kind = "polygon" => Len(a.points) >= 3
-----------------------------------------------------------------------------
(* The graph. *)

isOn(n, t) == t < OffFrom[n]

\* The links of an instant: `snapshotLinks`, external radio model under it.
edgesAt(w, t) == {e \in w[t] : \A n \in e : isOn(n, t)}

ExtraLoss(e, areas) ==
    MapThenSumSet(LAMBDA a : a.lossDb,
        {a \in areas : \A p, q \in e : p # q => segmentTouchesArea(a, Position[p], Position[q])})

reevaluate(e, loss) == loss <= Margin[e]

\* The links left when both ends are active and the areas between them let them be.
filterEdges(edges, active, areas) ==
    {e \in edges : /\ e \subseteq active
                   /\ ExtraLoss(e, {a \in areas : a.lossDb > 0}) > 0
                         => reevaluate(e, ExtraLoss(e, {a \in areas : a.lossDb > 0}))}

\* Union-find, as the partition it maintains.
Singletons == {{n} : n \in Nodes}
union(e, blocks) ==
    UNION {{b \in bs : b \cap e = {}} \cup {UNION {b \in bs : b \cap e # {}}} : bs \in {blocks}}
Blocks(edges) == FoldSet(union, Singletons, edges)

Neighbours(edges, ns) == UNION {e \in edges : e \cap ns # {}}

\* Breadth first from every active sink at once.
Rings(active, edges) ==
    LET ring[k \in 0..Cardinality(Nodes)] ==
            IF k = 0 THEN {n \in active : isSink(n)}
            ELSE UNION {near \cup Neighbours(edges, near) : near \in {ring[k - 1]}}
    IN ring
hopsOf(rings) ==
    [n \in rings[Cardinality(Nodes)] |-> CHOOSE k \in DOMAIN rings :
        n \in rings[k] /\ (k = 0 \/ n \notin rings[k - 1])]

stateFromEdges(active, edges) ==
    [active |-> active, edges |-> edges,
     degree |-> [n \in active |-> Cardinality({e \in edges : n \in e})],
     hops |-> hopsOf(Rings(active, edges)),
     connected |-> Rings(active, edges)[Cardinality(Nodes)],
     fragments |-> Cardinality({b \in Blocks(edges) : b \cap active # {}})]

activeBut(c, failed) == c.nodes \ (c.inactive \cup failed)

computeState(c, failed, areas) ==
    stateFromEdges(activeBut(c, failed), filterEdges(c.edges, activeBut(c, failed), areas))

coverageCells(ns) == UNION {Halo[n] : n \in ns} \cap Land
coverageFractions(st) ==
    [connected |-> coverageCells(st.connected), radio |-> coverageCells(st.active)]
-----------------------------------------------------------------------------
(* Store, carry and forward: when each source's message would reach a sink. *)

\* What the carriers of a message reach in a snapshot: the whole of each component
\* one of them is in.
Spread(edges, carriers) == UNION {b \in Blocks(edges) : b \cap carriers # {}}

\* The snapshots in the window, in order; those before the start are passed over.
StepsFrom(c) == SelectSeq(c.timeline, LAMBDA s : s.t >= Max({c.fromS, AtStep}))

\* Without carrying: each snapshot starts again from the source.
CarriersAfterForgetful(c, failed, areas, src) ==
    LET steps == StepsFrom(c)
    IN [k \in 0..Len(steps) |->
            IF k = 0 THEN {src}
            ELSE Spread(filterEdges(steps[k].edges, activeBut(c, failed), areas), {src})]

CarriersAfter(c, failed, areas, src) ==
    LET steps == StepsFrom(c)
        carriers[k \in 0..Len(steps)] ==
            IF k = 0 THEN {src}
            ELSE UNION {Spread(filterEdges(steps[k].edges, activeBut(c, failed), areas), mine) :
                        mine \in {carriers[k - 1]}}
    IN carriers

ArrivalSteps(c, failed, areas, src) ==
    {k \in 1..Len(StepsFrom(c)) :
        \E n \in CarriersAfter(c, failed, areas, src)[k] : isSink(n)}

opportunisticArrivals(c, failed, areas, sources) ==
    [s \in {x \in sources : ArrivalSteps(c, failed, areas, x) # {}} |->
        StepsFrom(c)[Min(ArrivalSteps(c, failed, areas, s))].t - Max({c.fromS, AtStep})]
-----------------------------------------------------------------------------
(* The report on a failure. *)

dependenciesOf(c, failed, areas, st) ==
    {d \in {[id |-> n,
             lost |-> {x \in st.connected \ {n} :
                          x \notin computeState(c, failed \cup {n}, areas).connected}]
            : n \in st.active} : \E x \in d.lost : Kind[x] # "phone"}

criticalDependencies(c) == dependenciesOf(c, {}, {}, c.baseline)

resolveFailed(nodes, areas) ==
    nodes \cup {n \in Nodes : \E a \in areas : a.failNodes /\ pointInArea(a, Position[n].x, Position[n].y)}

\* Everything the operator reads, from the state before and the state after.
FailureReport(c, failed, areas, before, after, off) ==
    LET arrivals == opportunisticArrivals(c, failed, areas, off)
    IN [failed |-> failed, areas |-> areas,
        states |-> [n \in c.nodes |->
            CASE n \in failed \cup c.inactive -> "failed"
              [] n \in after.connected -> "connected"
              [] n \in DOMAIN arrivals -> "recoverable"
              [] OTHER -> IF after.degree[n] = 0 THEN "isolated" ELSE "cut-off"],
        active |-> <<Cardinality(before.active), Cardinality(after.active)>>,
        connections |-> <<Cardinality(before.edges), Cardinality(after.edges)>>,
        fragments |-> <<before.fragments, after.fragments>>,
        isolated |-> {n \in off : after.degree[n] = 0},
        cutOff |-> off \cap before.connected,
        arrivals |-> arrivals,
        rerouted |-> {n \in after.connected \cap before.connected :
                         after.hops[n] # before.hops[n]},
        coverage |-> <<coverageFractions(before), coverageFractions(after)>>,
        lostCells |-> coverageFractions(before).connected \ coverageFractions(after).connected]

evaluateFailure(c, nodes, areas) ==
    LET failed == resolveFailed(nodes, areas)
    IN CHOOSE r \in {FailureReport(c, failed, areas, c.baseline, after, after.active \ after.connected)
                     : after \in {computeState(c, failed, areas)}} : TRUE

residualEdges(c, nodes, areas) == computeState(c, resolveFailed(nodes, areas), areas).edges
-----------------------------------------------------------------------------
(* The score of the intact network. *)

\* Every active node that is no phone, failed alone.
rankSingleFailures(c) ==
    {[id |-> n, cutOff |-> {x \in r.cutOff : Kind[x] # "phone"},
      recoverable |-> {x \in r.cutOff \cap DOMAIN r.arrivals : Kind[x] # "phone"},
      left |-> r.coverage[2].connected, critical |-> \E x \in r.cutOff : Kind[x] # "phone"]
     : <<n, r>> \in {<<m, evaluateFailure(c, {m}, {})>> : m \in {k \in c.nodes \ c.inactive : Kind[k] # "phone"}}}

Scoring(c) == {n \in c.nodes \ c.inactive : Kind[n] \in ScoreKinds /\ ~isSink(n)}
Absent == <<0, 0>>     \* a component that cannot be computed
Share(part, whole) == IF whole = 0 THEN Absent ELSE <<part, whole>>

\* Only the failure of a neighbour on the way is looked at.
nonRedundantIfCritical(single) == UNION {f.cutOff : f \in {g \in single : Kind[g.id] = "relay"}}

nonRedundant(single) == UNION {f.cutOff \ {f.id} : f \in single}

resilienceScore(c) ==
    LET scoring == Scoring(c)
        direct == scoring \cap c.baseline.connected
        single == rankSingleFailures(c)
        cutTotal == MapThenSumSet(LAMBDA f : Cardinality(f.cutOff \cap scoring), single)
        recTotal == MapThenSumSet(LAMBDA f : Cardinality(f.recoverable \cap scoring), single)
        covered == Cardinality(coverageFractions(c.baseline).connected)
    IN [coverage |-> Share(covered, Cardinality(Land)),
        directConnectivity |-> Share(Cardinality(direct), Cardinality(scoring)),
        reachability |-> IF Len(c.timeline) = 0 THEN Absent
            ELSE Share(Cardinality(direct)
                   + Cardinality(DOMAIN opportunisticArrivals(c, {}, {}, scoring \ direct)),
                 Cardinality(scoring)),
        redundant |-> direct \ nonRedundant(single),
        redundancy |-> IF scoring = {} THEN Absent
            ELSE IF direct = {} THEN <<0, 1>>
            ELSE <<Cardinality(direct \ nonRedundant(single)), Cardinality(direct)>>,
        \* max(0, base - loss) is what the failure leaves covered, never more than base
        coverageUnderFailure |-> IF single = {} THEN Share(covered, Cardinality(Land))
            ELSE Share(MapThenSumSet(LAMBDA f : Min({covered, Cardinality(f.left)}), single),
                       Cardinality(Land) * Cardinality(single)),
        opportunisticRecovery |-> IF Len(c.timeline) = 0 THEN Absent ELSE Share(recTotal, cutTotal),
        criticalNodes |-> {f.id : f \in {g \in single : g.critical}}]
-----------------------------------------------------------------------------
\* The snapshots of the window; a window that is no interval, or has no step, throws.
validWindow(w) == w.stepS > 0 /\ w.toS >= w.fromS
Timeline(w, win) ==
    [k \in 1..((win.toS - win.fromS) \div win.stepS + 1) |->
        [t |-> win.fromS + (k - 1) * win.stepS,
         edges |-> edgesAt(w, win.fromS + (k - 1) * win.stepS)]]

WithBaseline(c) == c @@ [baseline |-> computeState(c, {}, {})]

createResilienceContext(w, win) ==
    WithBaseline([ready |-> TRUE, nodes |-> Nodes, inactive |-> {n \in Nodes : OffFrom[n] <= AtStep},
                  edges |-> edgesAt(w, AtStep),
                  fromS |-> IF win = NoWindow THEN AtStep ELSE win.fromS,
                  timeline |-> IF win = NoWindow THEN << >> ELSE Timeline(w, win)])

prepareResilience(win) ==
    /\ ~ctx.ready
    /\ win # NoWindow => validWindow(win)
    /\ ctx' \in {createResilienceContext(contacts, win)}
    /\ UNCHANGED <<contacts, failure>>

\* The operator asks what a failure would do; the answer is a function of the context
\* and of the failure, kept nowhere.
Evaluate(nodes, areas) ==
    /\ ctx.ready
    /\ resolvable(areas)
    /\ failure' = [asked |-> TRUE, nodes |-> nodes, areas |-> areas]
    /\ UNCHANGED <<contacts, ctx>>

Init == /\ contacts \in Worlds
        /\ ctx = NoContext
        /\ failure = NoFailure

Next == \/ \E win \in Windows : prepareResilience(win)
        \/ \E nodes \in SUBSET Nodes : Evaluate(nodes, {})
        \/ \E a \in Areas : Evaluate({}, {a})

Spec == Init /\ [][Next]_vars
-----------------------------------------------------------------------------
(* Reference definitions: paths as sequences of nodes, journeys as walks through *)
(* time, a link's line as the points on it.                                      *)

Passes(p) == {p[i] : i \in 1..Len(p)}
PathsFrom(n, edges) ==
    LET paths[k \in 1..Cardinality(Nodes)] ==
            IF k = 1 THEN {<<n>>}
            ELSE {Append(w[1], w[2]) : w \in {v \in paths[k - 1] \X Nodes :
                    v[2] \notin Passes(v[1]) /\ {v[1][k - 1], v[2]} \in edges}}
    IN {p \in UNION {paths[k] : k \in 1..Cardinality(Nodes)} : isSink(p[Len(p)])}

\* The pairs <<node, instant>> a message leaving n can be at: it hops over a link of
\* the instant, or waits for the next one.
JourneysFrom(n, contact, last) ==
    LET go[k \in 0..(Cardinality(Nodes) * last)] ==
            IF k = 0 THEN {<<n, 1>>}
            ELSE UNION {been \cup {w \in {<<m, i>> : m \in Nodes, i \in 1..last} :
                            \/ <<w[1], w[2] - 1>> \in been
                            \/ \E c \in contact : c[2] = w[2] /\ w[1] \in c[1]
                                   /\ \E x \in c[1] : <<x, w[2]>> \in been}
                        : been \in {go[k - 1]}}
    IN go[Cardinality(Nodes) * last]

Survives(e, failed, areas) == e \cap failed = {} /\ reevaluate(e, ExtraLoss(e, areas))

TypeOK ==
    /\ contacts \in Worlds
    /\ ctx.ready \in BOOLEAN
    /\ failure.asked \in BOOLEAN

\* What the map shows of a failure is right: a node is drawn connected exactly when a
\* path of surviving links leads to a working infrastructure node, recoverable exactly
\* when only a journey in time does, and one of the two a node has a link to is all
\* that separates cut off from isolated.  The code finds the first by a breadth-first
\* search and the second by union-find on each snapshot.
StatusIsByJourney ==
    failure.asked =>
        \A report \in {evaluateFailure(ctx, failure.nodes, failure.areas)} :
        \A up \in {{e \in Pairs : Survives(e, report.failed \cup ctx.inactive, report.areas)}} :
        \A meet \in {UNION {{<<e, k>> : e \in StepsFrom(ctx)[k].edges \cap up} : k \in 1..Len(StepsFrom(ctx))}} :
        \A n \in Nodes :
            LET path == PathsFrom(n, ctx.edges \cap up) # {}
                journey == \E <<m, i>> \in JourneysFrom(n, meet, Len(StepsFrom(ctx))) : isSink(m)
            IN report.states[n] =
                 CASE n \in report.failed \cup ctx.inactive -> "failed"
                   [] n \notin report.failed \cup ctx.inactive /\ path -> "connected"
                   [] n \notin report.failed \cup ctx.inactive /\ ~path /\ journey -> "recoverable"
                   [] OTHER -> IF \E e \in ctx.edges \cap up : n \in e THEN "cut-off" ELSE "isolated"

\* The nodes the score calls redundant are those with two ways out that share no node
\* that is tested: two paths to infrastructure that meet, apart from the node itself,
\* in phones only.  The code never looks for two paths; it fails every node in turn.
TwoWaysOut ==
    ctx.ready /\ ~failure.asked => resilienceScore(ctx).redundant =
        {n \in Scoring(ctx) : \E p, q \in PathsFrom(n, ctx.edges) :
            \A x \in (Passes(p) \cap Passes(q)) \ {n} : Kind[x] = "phone"}

\* The dependents listed under a critical node are those every way out of which leads
\* through it, and a node is listed when one of them is no phone.
EveryWayThrough ==
    ctx.ready /\ ~failure.asked =>
        LET through(d) == {n \in ctx.baseline.connected \ {d} :
                              \A p \in PathsFrom(n, ctx.edges) : d \in Passes(p)}
        IN criticalDependencies(ctx) =
             {[id |-> d, lost |-> through(d)]
              : d \in {x \in ctx.baseline.active : \E n \in through(x) : Kind[n] # "phone"}}

\* A link whose line runs through a failure area bears the area's loss: if some point
\* of the segment, in twelfths of its length, is in the area, the link is touched.
CrossingIsTouched ==
    ~ctx.ready => \A a \in Areas : \A e \in Pairs : \A p, q \in e : p # q =>
        LET A == Position[p]
            B == Position[q]
            Scaled == IF a.kind = "circle"
                      THEN [a EXCEPT !.cx = 12 * @, !.cy = 12 * @, !.r = 12 * @]
                      ELSE [a EXCEPT !.points = [i \in DOMAIN @ |-> [x |-> 12 * @[i].x, y |-> 12 * @[i].y]]]
        IN (\E k \in 0..12 : pointInArea(Scaled, (12 - k) * A.x + k * B.x, (12 - k) * A.y + k * B.y))
              => segmentTouchesArea(a, A, B)

\* What the comment on the score says of redundancy: a node counted redundant stays
\* connected after the failure of ANY other node.  Phones are never failed.
RedundantSurvivesAnyFailure ==
    ctx.ready /\ ~failure.asked => \A n \in resilienceScore(ctx).redundant : \A f \in ctx.nodes \ {n} :
        n \in computeState(ctx, {f}, {}).connected
=============================================================================
