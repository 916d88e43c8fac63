------------------------------ MODULE DesignTool ------------------------------
(***************************************************************************)
(* The design tool behind the local portal (local-portal/design-tool.ts):  *)
(* browsers log in with the network password, which the portal has the     *)
(* node check, and hold a session cookie that opens the page, its data and *)
(* the tiles. A login is a request with two waits in it, for its body and  *)
(* for the node; attempts are counted per address before the first.        *)
(***************************************************************************)
EXTENDS Naturals, Sequences, FiniteSets, SequencesExt

CONSTANTS Browsers,
          SameHouse,                \* the browsers behind one address
          MaxLoginFailures, LoginWindow, MaxConcurrentChecks,
          MaxKeys,                  \* addresses whose attempts are remembered
          MaxSessions, SessionTtl,
          MaxNow, MaxLogins         \* bounds on time and on attempts

VARIABLES now,
          sessions,       \* [token, exp], the oldest first
          failures,       \* [key, count, since], the oldest first
          checksInFlight,
          login,          \* [Browsers -> "none" | "body" | "check"]
          reserved,       \* [Browsers -> when the attempt was counted]
          cookie,         \* [Browsers -> token or NoCookie]
          page,           \* [Browsers -> "open" | "shut"]: was it let in
          tokens,         \* tokens drawn so far
          logins, wrong, strays   \* history: attempts, refusals by the node
                                  \* per address, releases across windows

vars == <<now, sessions, failures, checksInFlight, login, reserved, cookie, page,
          tokens, logins, wrong, strays>>

NoCookie == 0
Address == [b \in Browsers |-> IF b \in SameHouse THEN 0 ELSE b]   \* ipLimiterKey
Addresses == {Address[b] : b \in Browsers}

Init ==
  /\ now = 0 /\ sessions = << >> /\ failures = << >> /\ checksInFlight = 0
  /\ login = [b \in Browsers |-> "none"] /\ reserved = [b \in Browsers |-> 0]
  /\ cookie = [b \in Browsers |-> NoCookie] /\ page = [b \in Browsers |-> "shut"]
  /\ tokens = 0 /\ logins = 0
  /\ wrong = [k \in Addresses |-> << >>] /\ strays = 0

------------------------------------------------------------------------------
(* Sessions *)

(* hasSession of a request that carries the browser's cookie *)
HasSession(b) == \E i \in DOMAIN sessions : sessions[i].token = cookie[b] /\ now < sessions[i].exp

(* what hasSession leaves: the session it found expired is dropped *)
Looked(b) == SelectSeq(sessions, LAMBDA s : ~(s.token = cookie[b] /\ now >= s.exp))

(* newSession: the expired go, then the oldest while there is no room *)
NewSession(token) ==
  LET live == SelectSeq(sessions, LAMBDA s : now < s.exp)
      over == IF Len(live) >= MaxSessions THEN Len(live) - MaxSessions + 1 ELSE 0
  IN  Append(SubSeq(live, over + 1, Len(live)), [token |-> token, exp |-> now + SessionTtl])

------------------------------------------------------------------------------
(* Attempts *)

EntryOf(k) == {i \in DOMAIN failures : failures[i].key = k}
WithoutKey(k) == SelectSeq(failures, LAMBDA f : f.key # k)

(* locked *)
Locked(k) == \E i \in EntryOf(k) : /\ now - failures[i].since < LoginWindow
                                   /\ failures[i].count >= MaxLoginFailures

\* Mutant: the attempt is counted when it is known to be wrong.
ReserveAttemptLater(k) == failures

(* reserveAttempt: counted in the running window, or the first of a new   *)
(* one, for which the oldest records go while there is no room            *)
ReserveAttempt(k) ==
  IF \E i \in EntryOf(k) : now - failures[i].since < LoginWindow
  THEN [i \in DOMAIN failures |-> IF failures[i].key = k THEN [failures[i] EXCEPT !.count = @ + 1]
                                  ELSE failures[i]]
  ELSE LET others == WithoutKey(k)
           over == IF Len(others) >= MaxKeys THEN Len(others) - MaxKeys + 1 ELSE 0
       IN  Append(SubSeq(others, over + 1, Len(others)), [key |-> k, count |-> 1, since |-> now])

(* releaseAttempt *)
ReleaseAttempt(k) ==
  IF \E i \in EntryOf(k) : failures[i].count <= 1 THEN WithoutKey(k)
  ELSE [i \in DOMAIN failures |-> IF failures[i].key = k THEN [failures[i] EXCEPT !.count = @ - 1]
                                  ELSE failures[i]]

(* the release of an attempt that was counted in an earlier window *)
Stray(b) == \E i \in EntryOf(Address[b]) : failures[i].since > reserved[b]

------------------------------------------------------------------------------
(* The login *)

Shows(b, a) == page' = [page EXCEPT ![b] = a]
Stage(b, s)  == login' = [login EXCEPT ![b] = s]

(* login of an address with too many attempts, or while the node is busy *)
LoginRefused(b) ==
  /\ login[b] = "none" /\ logins < MaxLogins
  /\ Locked(Address[b]) \/ checksInFlight >= MaxConcurrentChecks
  /\ logins' = logins + 1
  /\ Shows(b, "shut")
  /\ UNCHANGED <<now, sessions, failures, checksInFlight, login, reserved, cookie, tokens, wrong, strays>>

(* login up to the wait for the body *)
LoginStarts(b) ==
  /\ login[b] = "none" /\ logins < MaxLogins
  /\ ~Locked(Address[b]) /\ checksInFlight < MaxConcurrentChecks
  /\ failures' = ReserveAttempt(Address[b])
  /\ reserved' = [reserved EXCEPT ![b] = now]
  /\ logins' = logins + 1
  /\ Stage(b, "body")
  /\ UNCHANGED <<now, sessions, checksInFlight, cookie, page, tokens, wrong, strays>>

(* readRequestBody rejects (too large, late, cut) or the password is not   *)
(* one: the attempt stays counted                                          *)
BodyBad(b) ==
  /\ login[b] = "body"
  /\ Stage(b, "none")
  /\ Shows(b, "shut")
  /\ UNCHANGED <<now, sessions, failures, checksInFlight, reserved, cookie, tokens, logins, wrong, strays>>

(* the body is there: the node is asked *)
BodyRead(b) ==
  /\ login[b] = "body"
  /\ checksInFlight' = checksInFlight + 1
  /\ Stage(b, "check")
  /\ UNCHANGED <<now, sessions, failures, reserved, cookie, page, tokens, logins, wrong, strays>>

(* verifyPassword ends, in whichever way *)
CheckEnds(b) ==
  /\ login[b] = "check"
  /\ checksInFlight' = checksInFlight - 1
  /\ Stage(b, "none")

(* "unavailable": the node does not answer, or offers no check *)
CheckUnavailable(b) ==
  /\ CheckEnds(b)
  /\ failures' = ReleaseAttempt(Address[b])
  /\ strays' = IF Stray(b) THEN strays + 1 ELSE strays
  /\ Shows(b, "shut")
  /\ UNCHANGED <<now, sessions, reserved, cookie, tokens, logins, wrong>>

(* "wrong": 401 from the node *)
CheckWrong(b) ==
  /\ CheckEnds(b)
  /\ wrong' = [wrong EXCEPT ![Address[b]] = Append(@, now)]
  /\ Shows(b, "shut")
  /\ UNCHANGED <<now, sessions, failures, reserved, cookie, tokens, logins, strays>>

(* "ok": a fresh token, in a cookie *)
CheckOk(b) ==
  /\ CheckEnds(b)
  /\ failures' = ReleaseAttempt(Address[b])
  /\ strays' = IF Stray(b) THEN strays + 1 ELSE strays
  /\ tokens' = tokens + 1
  /\ sessions' = NewSession(tokens + 1)
  /\ cookie' = [cookie EXCEPT ![b] = tokens + 1]
  /\ Shows(b, "open")
  /\ UNCHANGED <<now, reserved, logins, wrong>>

------------------------------------------------------------------------------
(* The routes behind the session *)

(* route: an expired session is forgotten; without one there is only the form *)
Route(b) ==
  /\ login[b] = "none"
  /\ sessions' = Looked(b)
  /\ Shows(b, IF HasSession(b) THEN "open" ELSE "shut")
  /\ UNCHANGED <<now, failures, checksInFlight, login, reserved, cookie, tokens, logins, wrong, strays>>

Page(b)     == Route(b)
DataFile(b) == Route(b)
TileFile(b) == Route(b)   \* TileService answers or refuses

Tick ==
  /\ now < MaxNow
  /\ now' = now + 1
  /\ UNCHANGED <<sessions, failures, checksInFlight, login, reserved, cookie, page, tokens, logins, wrong, strays>>

Next ==
  \/ \E b \in Browsers :
       \/ LoginRefused(b) \/ LoginStarts(b) \/ BodyBad(b) \/ BodyRead(b)
       \/ CheckUnavailable(b) \/ CheckWrong(b) \/ CheckOk(b)
       \/ Page(b) \/ DataFile(b) \/ TileFile(b)
  \/ Tick

Spec == Init /\ [][Next]_vars

------------------------------------------------------------------------------
(* Properties *)

(* Attempts run side by side do not get past the limit: in any LoginWindow *)
(* an address has no more than two windows' worth of passwords tried, but  *)
(* for those a release from an earlier window made room for.               *)
GuessesBounded ==
  \A k \in Addresses :
    Len(SelectSeq(wrong[k], LAMBDA at : now - at < LoginWindow)) <= 2 * MaxLoginFailures + strays

(* docs/security.md:1841: "le verifiche contemporanee sono al più 4".      *)
(* Violated: the limit is read before the wait for the body and counted    *)
(* after it.                                                               *)
ChecksBounded == checksInFlight <= MaxConcurrentChecks
=============================================================================
