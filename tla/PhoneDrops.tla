----------------------------- MODULE PhoneDrops -----------------------------
(***************************************************************************)
(* Drops (pinned notices) written on a phone.  The form sends a drop       *)
(* straight to the paired Box and queues it in localStorage when the Box   *)
(* does not answer; every later poll of the dashboard that succeeds starts *)
(* flushPendingDrops().  Several tabs of the application share the queue,  *)
(* each with its own gatewayUrl, networkPassword and flush.  Every call of *)
(* drop-queue.js reads the whole queue and may write the whole queue back, *)
(* and nothing keeps another tab from writing it in between: what that one *)
(* wrote is lost, a claim included, and the drops concerned are recorded   *)
(* in "overwritten".  The Box remembers the idempotency keys of what it    *)
(* published until it restarts.  The order of the entries, which decides   *)
(* what a flush sends first, is left open.                                 *)
(***************************************************************************)
EXTENDS Naturals, FiniteSets

CONSTANTS
  Drops,            \* drops the user may write, by idempotency key
  Tabs, Boxes,
  Elevated,         \* drops of kind "hazard" or "emergency"
  Refused,          \* drops whose content the Box refuses
  MaxPendingDrops,  \* MAX_PENDING_DROPS
  MaxElevatedDrops, \* MAX_ELEVATED_DROPS_PER_WINDOW
  Scenarios,        \* bounds: sets of [drops, restarts, forgets], what may happen
  None

\* A request of a tab with the answer it has got, or how far its handler is.
Sendable == [drop : Drops, box : Boxes \cup {None}, auth : BOOLEAN,
             reply : {"wait", "ok", "discard", "throttled", "reauth", "retry", "save"}]

ASSUME DropsAssumption ==
  /\ MaxPendingDrops \in Nat /\ None \notin Sendable
  /\ \A s \in Scenarios : s.drops \subseteq Drops

VARIABLES
  queue,      \* arald.pendingDrops: a set of [drop, gateway, taken], taken while
              \* the entry has a sendingSince younger than CLAIM_TTL_MS
  call,       \* per tab: the call of drop-queue.js that has read the queue and
              \* not yet returned, [name, on, seen], or None
  old,        \* drops older than PENDING_DROP_MAX_AGE_MS
  form,       \* per tab: the request of the form's handler, or None
  flush,      \* per tab: [gateway, todo] of flushPendingDrops(), or None
  sending,    \* per tab: the request that flush awaits, or None
  url,        \* per tab: gatewayUrl
  password,   \* per tab: the Box whose network password it holds, or None
  pairing,    \* per tab: previousUrl of a setup form under way, or "idle"
  keys,       \* per Box: dropsByIdempotencyKey
  spent,      \* per Box: elevatedDropWindow.count
  late,       \* requests given up by a tab that may still reach their Box
  fresh,      \* ghost: drops never submitted
  left,       \* ghost: what the bounds leave, [restarts, forgets]
  published,  \* ghost: per Box and drop, drops put on the mesh
  restarts,   \* ghost: per Box, restarts
  told,       \* ghost: per drop, the outcomes the user was told
  overwritten \* ghost: drops whose entry one tab changed and another wrote
              \* back from what it had read before

phone == <<queue, call, old, left, form, flush, sending, url, password, pairing>>
box   == <<keys, spent, published, restarts>>
vars  == <<phone, box, late, fresh, told, overwritten>>

DropsOf(q) == {e.drop : e \in q}
Queued == DropsOf(queue)
Of(q, d) == {e \in q : e.drop = d}
Without(q, S) == {e \in q : e.drop \notin S}
Marked(q, S, mark) == Without(q, S) \cup {[e EXCEPT !.taken = mark] : e \in q \ Without(q, S)}

Tell(S, what) == told' = [d \in Drops |-> IF d \in S THEN told[d] \cup {what} ELSE told[d]]

\* Requests a tab gives up that may still have an effect at their Box.
OnTheWay(S) == {r \in S \ {None} : r.reply = "wait" /\ r.box # None /\ r.auth}

Request(t, d) ==
  [drop |-> d, box |-> url[t], auth |-> password[t] # None /\ password[t] = url[t], reply |-> "wait"]

\* A tab runs to its next await before anything else happens in it.
AtAwait(t) ==
  /\ call[t] = None
  /\ flush[t] # None => sending[t] # None
  /\ form[t] # None => form[t].reply # "save"

Init ==
  /\ \E s \in Scenarios : fresh = s.drops /\ left = [restarts |-> s.restarts, forgets |-> s.forgets]
  /\ queue = {} /\ old = {} /\ late = {} /\ overwritten = {}
  /\ form = [t \in Tabs |-> None] /\ flush = form /\ sending = form /\ call = form
  /\ \E b \in Boxes : url = [t \in Tabs |-> b] /\ password = url
  /\ pairing = [t \in Tabs |-> "idle"]
  /\ keys = [b \in Boxes |-> {}] /\ spent = [b \in Boxes |-> 0]
  /\ restarts = spent /\ published = [b \in Boxes |-> [d \in Drops |-> 0]]
  /\ told = [d \in Drops |-> {}]

-----------------------------------------------------------------------------
(* The Box. *)

\* handleCreateDrop() and publishDrop(): authorisation, the key, validation,
\* and last the budget of elevated drops.
Answer(b, d, auth) ==
  IF ~auth THEN "reauth"
  ELSE IF d \in keys[b] THEN "ok"
  ELSE IF d \in Refused THEN "discard"
  ELSE IF d \in Elevated /\ spent[b] >= MaxElevatedDrops THEN "throttled"
  ELSE "publish"

Serve(b, d, auth) ==
  IF Answer(b, d, auth) = "publish"
  THEN /\ keys' = [keys EXCEPT ![b] = @ \cup {d}]
       /\ published' = [published EXCEPT ![b][d] = @ + 1]
       /\ spent' = [spent EXCEPT ![b] = IF d \in Elevated THEN @ + 1 ELSE @]
  ELSE UNCHANGED <<keys, published, spent>>

Reply(b, d, auth) == IF Answer(b, d, auth) = "publish" THEN "ok" ELSE Answer(b, d, auth)

BoxServesForm(t) ==
  /\ form[t] # None /\ form[t].reply = "wait" /\ form[t].box # None
  /\ LET r == form[t] IN
       /\ Serve(r.box, r.drop, r.auth)
       /\ form' = [form EXCEPT ![t].reply = Reply(r.box, r.drop, r.auth)]
  /\ UNCHANGED <<queue, call, old, left, flush, sending, url, password, pairing, restarts, late, fresh, told, overwritten>>

BoxServesFlush(t) ==
  /\ sending[t] # None /\ sending[t].reply = "wait" /\ sending[t].box # None
  /\ LET r == sending[t] IN
       /\ Serve(r.box, r.drop, r.auth)
       /\ sending' = [sending EXCEPT ![t].reply = Reply(r.box, r.drop, r.auth)]
  /\ UNCHANGED <<queue, call, old, left, form, flush, url, password, pairing, restarts, late, fresh, told, overwritten>>

\* A request its tab has given up reaches the Box all the same.
BoxServesLate(r) ==
  /\ r \in late
  /\ Serve(r.box, r.drop, r.auth)
  /\ late' = late \ {r}
  /\ UNCHANGED <<phone, restarts, fresh, told, overwritten>>

\* The keys and the budget are in memory; a generated password changes too.
BoxRestarts(b) ==
  /\ left.restarts > 0 /\ left' = [left EXCEPT !.restarts = @ - 1]
  /\ restarts' = [restarts EXCEPT ![b] = @ + 1]
  /\ keys' = [keys EXCEPT ![b] = {}] /\ spent' = [spent EXCEPT ![b] = 0]
  /\ \E fixed \in BOOLEAN :
        password' = IF fixed THEN password
                    ELSE [t \in Tabs |-> IF password[t] = b THEN "stale" ELSE password[t]]
  /\ UNCHANGED <<queue, call, old, form, flush, sending, url, pairing, published, late, fresh, told, overwritten>>

\* The budget is shared with every other client of the Box.
OthersSpend(b) ==
  /\ spent[b] < MaxElevatedDrops /\ spent' = [spent EXCEPT ![b] = @ + 1]
  /\ UNCHANGED <<phone, keys, published, restarts, late, fresh, told, overwritten>>

WindowEnds(b) ==
  /\ spent[b] > 0 /\ spent' = [spent EXCEPT ![b] = 0]
  /\ UNCHANGED <<phone, keys, published, restarts, late, fresh, told, overwritten>>

-----------------------------------------------------------------------------
(* The calls of drop-queue.js: getItem() here, setItem() when they return. *)

\* As if the full queue made room by forgetting an entry.
EnqueueOver(q, e) ==
  (IF Cardinality(q) < MaxPendingDrops THEN q ELSE q \ {CHOOSE x \in q : TRUE}) \cup {e}

\* enqueuePendingDrop(): a full queue refuses, and so does a phone that no
\* longer knows its gateway.
Enqueue(q, e) == IF Cardinality(q) < MaxPendingDrops /\ e.gateway # None THEN q \cup {e} ELSE q

\* The tab reads the queue for a call on the drops of S.
Reads(t, name, S) == call' = [call EXCEPT ![t] = [name |-> name, on |-> S, seen |-> queue]]

NewEntry(t) == [drop |-> form[t].drop, gateway |-> url[t], taken |-> FALSE]

\* What the call makes of the queue it has read.
Edited(t) ==
  LET c == call[t] IN
  CASE c.name = "save"    -> Enqueue(c.seen, NewEntry(t))
    [] c.name = "claim"   -> Marked(c.seen, c.on, TRUE)
    [] c.name = "release" -> Marked(c.seen, c.on, FALSE)
    [] OTHER              -> Without(c.seen, c.on)

\* removePendingDrop() writes always, the others what they changed.
Writes(t) == call[t].name \in {"expire", "settle"} \/ Edited(t) # call[t].seen

Stores(t) ==
  /\ call' = [call EXCEPT ![t] = None]
  /\ IF Writes(t)
     THEN /\ queue' = Edited(t)
          /\ overwritten' = overwritten \cup {d \in Drops : Of(call[t].seen, d) # Of(queue, d)}
     ELSE UNCHANGED <<queue, overwritten>>

InCall(t, name) == call[t] # None /\ call[t].name = name

-----------------------------------------------------------------------------
(* The form. *)

Submit(t, d) ==
  /\ AtAwait(t) /\ form[t] = None /\ password[t] # None /\ d \in fresh
  /\ fresh' = fresh \ {d}
  /\ form' = [form EXCEPT ![t] = Request(t, d)]
  /\ UNCHANGED <<queue, call, old, left, flush, sending, url, password, pairing, box, late, told, overwritten>>

\* No connection, a timeout before or after the Box served the request, an
\* answer that cannot be read.
FormFails(t) ==
  /\ form[t] # None /\ form[t].reply \notin {"retry", "save"} /\ call[t] = None
  /\ form' = [form EXCEPT ![t].reply = "retry"]
  /\ late' = late \cup OnTheWay({form[t]})
  /\ UNCHANGED <<queue, call, old, left, flush, sending, url, password, pairing, box, fresh, told, overwritten>>

\* The handler resumes with an answer that is not worth repeating.
FormReturns(t) ==
  /\ AtAwait(t) /\ form[t] # None /\ form[t].reply \notin {"wait", "retry", "throttled"}
  /\ form' = [form EXCEPT ![t] = None]
  /\ Tell({form[t].drop}, IF form[t].reply = "ok" THEN "published" ELSE "failed")
  /\ password' = IF form[t].reply = "reauth" THEN [password EXCEPT ![t] = None] ELSE password
  /\ UNCHANGED <<queue, call, old, left, flush, sending, url, pairing, box, late, fresh, overwritten>>

\* With one that is: entries whose time is over are taken out before the drop
\* is saved.
FormQueues(t) ==
  /\ AtAwait(t) /\ form[t] # None /\ form[t].reply \in {"retry", "throttled"}
  /\ IF Queued \cap old = {} THEN Reads(t, "save", {}) ELSE Reads(t, "tidy", Queued \cap old)
  /\ UNCHANGED <<queue, old, left, form, flush, sending, url, password, pairing, box, late, fresh, told, overwritten>>

TidyReturns(t) ==
  /\ InCall(t, "tidy") /\ Stores(t)
  /\ Tell(call[t].on, "expired")
  /\ form' = [form EXCEPT ![t].reply = "save"]
  /\ UNCHANGED <<old, left, flush, sending, url, password, pairing, box, late, fresh>>

FormSaves(t) ==
  /\ call[t] = None /\ form[t] # None /\ form[t].reply = "save"
  /\ Reads(t, "save", {})
  /\ UNCHANGED <<queue, old, left, form, flush, sending, url, password, pairing, box, late, fresh, told, overwritten>>

SaveReturns(t) ==
  /\ InCall(t, "save") /\ Stores(t)
  /\ form' = [form EXCEPT ![t] = None]
  /\ IF form[t].drop \in DropsOf(Edited(t)) THEN UNCHANGED told ELSE Tell({form[t].drop}, "failed")
  /\ UNCHANGED <<old, left, flush, sending, url, password, pairing, box, late, fresh>>

-----------------------------------------------------------------------------
(* flushPendingDrops(). *)

\* After a poll that reached the Box, unless this tab's last flush still runs.
FlushStarts(t) ==
  /\ AtAwait(t) /\ flush[t] = None /\ url[t] # None /\ password[t] # None /\ queue # {}
  /\ IF Queued \cap old = {}
     THEN flush' = [flush EXCEPT ![t] = [gateway |-> url[t], todo |-> queue]] /\ UNCHANGED call
     ELSE Reads(t, "load", Queued \cap old) /\ UNCHANGED flush
  /\ UNCHANGED <<queue, old, left, form, sending, url, password, pairing, box, late, fresh, told, overwritten>>

LoadReturns(t) ==
  /\ InCall(t, "load") /\ Stores(t)
  /\ Tell(call[t].on, "expired")
  /\ flush' = [flush EXCEPT ![t] = [gateway |-> url[t], todo |-> Edited(t)]]
  /\ UNCHANGED <<old, left, form, sending, url, password, pairing, box, late, fresh>>

\* As if an entry were sent without looking at the mark of another tab.
ClaimableAny(d) == d \in Queued

\* claimPendingDrop(): still in the queue and not taken by another tab.
Claimable(d) == \E e \in queue : e.drop = d /\ ~e.taken

FlushStep(t) ==
  /\ flush[t] # None /\ sending[t] = None /\ call[t] = None
  /\ \E e \in flush[t].todo :
     /\ flush' = [flush EXCEPT ![t].todo = @ \ {e}]
     /\ \/ /\ e.gateway = flush[t].gateway /\ e.drop \in old
           /\ Reads(t, "expire", {e.drop})
        \/ /\ e.gateway = flush[t].gateway /\ e.drop \notin old /\ Claimable(e.drop)
           /\ Reads(t, "claim", {e.drop})
        \/ /\ e.gateway # flush[t].gateway \/ (e.drop \notin old /\ ~Claimable(e.drop))
           /\ UNCHANGED call
  /\ UNCHANGED <<queue, old, left, form, sending, url, password, pairing, box, late, fresh, told, overwritten>>

ExpireReturns(t) ==
  /\ InCall(t, "expire") /\ Stores(t)
  /\ Tell(call[t].on, "expired")
  /\ UNCHANGED <<old, left, form, flush, sending, url, password, pairing, box, late, fresh>>

ClaimReturns(t) ==
  /\ InCall(t, "claim") /\ Stores(t)
  /\ \E d \in call[t].on : sending' = [sending EXCEPT ![t] = Request(t, d)]
  /\ UNCHANGED <<old, left, form, flush, url, password, pairing, box, late, fresh, told>>

FlushEnds(t) ==
  /\ flush[t] # None /\ sending[t] = None /\ call[t] = None /\ flush[t].todo = {}
  /\ flush' = [flush EXCEPT ![t] = None]
  /\ UNCHANGED <<queue, call, old, left, form, sending, url, password, pairing, box, late, fresh, told, overwritten>>

SendFails(t) ==
  /\ sending[t] # None /\ sending[t].reply # "retry" /\ call[t] = None
  /\ sending' = [sending EXCEPT ![t].reply = "retry"]
  /\ late' = late \cup OnTheWay({sending[t]})
  /\ UNCHANGED <<queue, call, old, left, form, flush, url, password, pairing, box, fresh, told, overwritten>>

\* The answers that take an entry out of the queue.
Settles(reply) == reply \in {"ok", "discard"}

\* Published or refused for good: the entry goes.  Anything else releases it.
FlushReturns(t) ==
  /\ AtAwait(t) /\ sending[t] # None /\ sending[t].reply # "wait"
  /\ Reads(t, IF Settles(sending[t].reply) THEN "settle" ELSE "release", {sending[t].drop})
  /\ UNCHANGED <<queue, old, left, form, flush, sending, url, password, pairing, box, late, fresh, told, overwritten>>

SettleReturns(t) ==
  /\ InCall(t, "settle") /\ Stores(t)
  /\ sending' = [sending EXCEPT ![t] = None]
  /\ Tell({sending[t].drop}, IF sending[t].reply = "ok" THEN "published" ELSE "failed")
  /\ UNCHANGED <<old, left, form, flush, url, password, pairing, box, late, fresh>>

\* No answer, or a rejected password, ends the flush.
ReleaseReturns(t) ==
  /\ InCall(t, "release") /\ Stores(t)
  /\ sending' = [sending EXCEPT ![t] = None]
  /\ flush' = IF sending[t].reply \in {"retry", "reauth"} THEN [flush EXCEPT ![t] = None] ELSE flush
  /\ password' = IF sending[t].reply = "reauth" THEN [password EXCEPT ![t] = None] ELSE password
  /\ UNCHANGED <<old, left, form, url, pairing, box, late, fresh, told>>

-----------------------------------------------------------------------------
(* Time, tabs and pairing. *)

\* CLAIM_TTL_MS exceeds CALL_TIMEOUT_MS by ten seconds: a mark lapses only when
\* the tab that made it is gone (an answer whose body takes longer than those
\* ten seconds to read is left out, and so is a call that lasts that long).
ClaimLapses(d) ==
  /\ \E e \in queue : e.drop = d /\ e.taken
  /\ \A t \in Tabs : call[t] = None /\ (sending[t] # None => sending[t].drop # d)
  /\ queue' = Marked(queue, {d}, FALSE)
  /\ UNCHANGED <<call, old, left, form, flush, sending, url, password, pairing, box, late, fresh, told, overwritten>>

GrowsOld(d) ==
  /\ d \in Queued \ old /\ old' = old \cup {d}
  /\ UNCHANGED <<queue, call, left, form, flush, sending, url, password, pairing, box, late, fresh, told, overwritten>>

\* A tab is closed and opened again; what its form held is lost to the user.
TabReloads(t) ==
  /\ AtAwait(t) /\ (form[t] # None \/ flush[t] # None)
  /\ form' = [form EXCEPT ![t] = None] /\ flush' = [flush EXCEPT ![t] = None]
  /\ sending' = [sending EXCEPT ![t] = None] /\ pairing' = [pairing EXCEPT ![t] = "idle"]
  /\ late' = late \cup OnTheWay({form[t], sending[t]})
  /\ IF form[t] = None THEN UNCHANGED told ELSE Tell({form[t].drop}, "failed")
  /\ UNCHANGED <<queue, call, old, left, url, password, box, fresh, overwritten>>

\* "forget-network".
Forget(t) ==
  /\ AtAwait(t) /\ password[t] # None
  /\ left.forgets > 0 /\ left' = [left EXCEPT !.forgets = @ - 1]
  /\ url' = [url EXCEPT ![t] = None] /\ password' = [password EXCEPT ![t] = None]
  /\ UNCHANGED <<queue, call, old, form, flush, sending, pairing, box, late, fresh, told, overwritten>>

\* The setup form: gatewayUrl is the candidate's from the start, and goes back
\* to the previous one if the candidate does not answer or refuses.
SetupSubmits(t, b) ==
  /\ AtAwait(t) /\ password[t] = None /\ pairing[t] = "idle"
  /\ url[t] \in {None, b}
  /\ pairing' = [pairing EXCEPT ![t] = url[t]] /\ url' = [url EXCEPT ![t] = b]
  /\ UNCHANGED <<queue, call, old, left, form, flush, sending, password, box, late, fresh, told, overwritten>>

SetupEnds(t, ok) ==
  /\ AtAwait(t) /\ pairing[t] # "idle"
  /\ pairing' = [pairing EXCEPT ![t] = "idle"]
  /\ url' = IF ok THEN url ELSE [url EXCEPT ![t] = pairing[t]]
  /\ password' = IF ok THEN [password EXCEPT ![t] = url[t]] ELSE password
  /\ UNCHANGED <<queue, call, old, left, form, flush, sending, box, late, fresh, told, overwritten>>

Next ==
  \/ \E t \in Tabs :
       \/ \E d \in Drops : Submit(t, d)
       \/ BoxServesForm(t) \/ BoxServesFlush(t) \/ FormFails(t) \/ FormReturns(t)
       \/ FormQueues(t) \/ TidyReturns(t) \/ FormSaves(t) \/ SaveReturns(t)
       \/ FlushStarts(t) \/ LoadReturns(t) \/ FlushStep(t) \/ ExpireReturns(t) \/ ClaimReturns(t)
       \/ FlushEnds(t) \/ SendFails(t) \/ FlushReturns(t) \/ SettleReturns(t) \/ ReleaseReturns(t)
       \/ TabReloads(t) \/ Forget(t)
       \/ \E b \in Boxes : SetupSubmits(t, b)
       \/ \E ok \in BOOLEAN : SetupEnds(t, ok)
  \/ \E d \in Drops : ClaimLapses(d) \/ GrowsOld(d)
  \/ \E r \in late : BoxServesLate(r)
  \/ \E b \in Boxes : BoxRestarts(b) \/ OthersSpend(b) \/ WindowEnds(b)

Spec == Init /\ [][Next]_vars

-----------------------------------------------------------------------------
\* A drop is put on the mesh of a Box a second time only if that Box restarted
\* in between and forgot its keys, whatever was retried, by whichever tab, and
\* whichever requests arrived after the phone had given them up.
PublishedOnce ==
  \A b \in Boxes, d \in Drops : published[b][d] <= 1 + restarts[b]

\* Two tabs have one and the same entry on its way only if one of them wrote the
\* queue back over a change of that entry it had not seen: the claim keeps every
\* other pair apart, whatever lapses, is released or is taken over.
NoParallelSend ==
  \A s, t \in Tabs : s # t /\ sending[s] # None /\ sending[t] # None =>
     sending[s].drop # sending[t].drop \/ sending[s].drop \in overwritten

Arrived   == {d \in Drops : \E b \in Boxes : published[b][d] > 0}
Delivered == {d \in Drops : "published" \in told[d]}
Abandoned == {d \in Drops : told[d] \cap {"expired", "failed"} # {}}

\* A drop whose entry was overwritten is out of custody: it may be gone, or be
\* back in the queue, without the user being told.
TheCustody == INSTANCE Custody WITH
  Items <- Drops, Capacity <- MaxPendingDrops,
  held <- Queued \ overwritten, arrived <- Arrived, delivered <- Delivered,
  abandoned <- Abandoned \cup overwritten

\* The queue keeps what Custody promises: a drop leaves localStorage only when
\* the user is told it was published, refused or has expired, or when a tab writes
\* back what it read before another one changed that drop's entry, and is told
\* "published" only of a drop some Box has put on its mesh.
KeepsCustody == TheCustody!Spec
=============================================================================
