--------------------------- MODULE BleRoleManager ---------------------------
(***************************************************************************)
(* BleRoleManager: the phone is a peripheral, and a central for a while    *)
(* when it has something to send: a window, a back-off, another window,    *)
(* until a peer is found or the cycle has used up its attempts or its      *)
(* time.  One timer at a time, invalidated by a session number.            *)
(***************************************************************************)
EXTENDS Naturals

CONSTANTS
  MaxAttempts,   \* maxAttempts
  Window,        \* centralWindowMs, in ticks
  Backoffs,      \* the lengths a back-off may have
  MaxCycle,      \* maxCycleDurationMs
  MaxStarts      \* bound: calls of start() and stop()

VARIABLES
  role, roleStarted, roleSession,
  attempt,
  cycle,     \* ticks since cycleStartedAt, Idle when it is null
  timer,     \* [kind, left, sess], left = 0 when it is null
  waiting,   \* the caller of requestSend() has been told neither of a peer nor of giving up
  starts

vars == <<role, roleStarted, roleSession, attempt, cycle, timer, waiting, starts>>

Idle == MaxCycle + Window + 1
NoTimer == [kind |-> "none", left |-> 0, sess |-> 0]

Init ==
  /\ role = "peripheral" /\ roleStarted = FALSE /\ roleSession = 0 /\ attempt = 0
  /\ cycle = Idle /\ timer = NoTimer /\ waiting = FALSE /\ starts = 0

Start ==
  /\ ~roleStarted /\ starts < MaxStarts /\ starts' = starts + 1
  /\ roleStarted' = TRUE /\ roleSession' = roleSession + 1 /\ role' = "peripheral"
  /\ UNCHANGED <<attempt, cycle, timer, waiting>>

Stop ==
  /\ starts < MaxStarts /\ starts' = starts + 1
  /\ roleStarted' = FALSE /\ roleSession' = roleSession + 1
  /\ timer' = NoTimer /\ attempt' = 0 /\ cycle' = Idle /\ waiting' = FALSE
  /\ UNCHANGED role

\* As if the window were opened without its timer.
TryCentralUntimed(n) ==
  /\ attempt' = n /\ role' = "central" /\ timer' = NoTimer

TryCentral(n) ==
  /\ attempt' = n /\ role' = "central"
  /\ timer' = [kind |-> "window", left |-> Window, sess |-> roleSession]

\* requestSend() and beginCycle().
RequestSend ==
  /\ roleStarted /\ role # "central" /\ cycle = Idle
  /\ TryCentral(1) /\ cycle' = 0 /\ waiting' = TRUE
  /\ UNCHANGED <<roleStarted, roleSession, starts>>

NotifyPeerConnected ==
  /\ roleStarted /\ role = "central"
  /\ role' = "peripheral" /\ timer' = NoTimer /\ attempt' = 0 /\ cycle' = Idle /\ waiting' = FALSE
  /\ UNCHANGED <<roleStarted, roleSession, starts>>

\* As if only the time were counted.
ExhaustedByTime == cycle >= MaxCycle

BudgetExhausted == attempt >= MaxAttempts \/ cycle >= MaxCycle

\* As if giving up were not reported.
HandleWindowExpiredSilent ==
  /\ timer.kind = "window" /\ timer.left = 1 /\ timer.sess = roleSession
  /\ role' = "peripheral"
  /\ IF BudgetExhausted THEN attempt' = 0 /\ cycle' = Idle /\ timer' = NoTimer
     ELSE /\ \E b \in Backoffs : timer' = [kind |-> "backoff", left |-> b, sess |-> roleSession]
          /\ UNCHANGED <<attempt, cycle>>
  /\ UNCHANGED <<roleStarted, roleSession, waiting, starts>>

HandleWindowExpired ==
  /\ timer.kind = "window" /\ timer.left = 1 /\ timer.sess = roleSession
  /\ role' = "peripheral"
  /\ IF BudgetExhausted
     THEN attempt' = 0 /\ cycle' = Idle /\ timer' = NoTimer /\ waiting' = FALSE
     ELSE /\ \E b \in Backoffs : timer' = [kind |-> "backoff", left |-> b, sess |-> roleSession]
          /\ UNCHANGED <<attempt, cycle, waiting>>
  /\ UNCHANGED <<roleStarted, roleSession, starts>>

BackoffExpired ==
  /\ timer.kind = "backoff" /\ timer.left = 1 /\ timer.sess = roleSession
  /\ TryCentral(attempt + 1)
  /\ UNCHANGED <<roleStarted, roleSession, cycle, waiting, starts>>

\* The clock; a cycle's age is not told apart past what exhausts it.
Tick ==
  /\ timer.left > 1 /\ timer' = [timer EXCEPT !.left = @ - 1]
  /\ cycle' = IF cycle < MaxCycle THEN cycle + 1 ELSE cycle
  /\ UNCHANGED <<role, roleStarted, roleSession, attempt, waiting, starts>>

Next ==
  \/ Start \/ Stop \/ RequestSend \/ NotifyPeerConnected
  \/ HandleWindowExpired \/ BackoffExpired \/ Tick

\* Time passes and timers fire.
Fairness == WF_vars(Tick) /\ WF_vars(HandleWindowExpired) /\ WF_vars(BackoffExpired)
Spec == Init /\ [][Next]_vars /\ Fairness

-----------------------------------------------------------------------------
\* While a cycle runs there is exactly the timer that ends its present phase,
\* of this session, and no cycle has more than MaxAttempts windows: the radio is
\* never left scanning, and no retry is left without its trigger.
RoleCycleTimed ==
  roleStarted =>
    /\ role = "central" <=> timer.kind = "window"
    /\ cycle # Idle <=> timer.left > 0
    /\ timer.left > 0 => timer.sess = roleSession
    /\ attempt <= MaxAttempts

\* Who asked to send is always told in the end: a peer, or giving up.
RoleAnswers == waiting ~> ~waiting
=============================================================================
