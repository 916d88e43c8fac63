-------------------------- MODULE PhoneDropsProofs --------------------------
(***************************************************************************)
(* For any drops, tabs, Boxes and limits: the queue implements Custody but *)
(* for the drops whose entry one tab wrote back over another's change, no  *)
(* Box publishes a drop twice without a restart, and no two tabs send one  *)
(* entry at once unless it was overwritten.                                *)
(***************************************************************************)
EXTENDS MCPhone, FiniteSetTheorems, TLAPS

Entry  == [drop : Drops, gateway : Boxes \cup {None}, taken : BOOLEAN]
CallName == {"tidy", "save", "load", "expire", "claim", "settle", "release"}

DropTypes ==
  /\ queue \in SUBSET Entry /\ IsFiniteSet(queue)
  /\ call \in [Tabs -> [name : CallName, on : SUBSET Drops, seen : SUBSET Entry] \cup {None}]
  /\ \A t \in Tabs : call[t] # None => IsFiniteSet(call[t].seen)
  /\ fresh \subseteq Drops /\ late \subseteq OnTheWay(Sendable) /\ overwritten \subseteq Drops
  /\ form \in [Tabs -> Sendable \cup {None}]
  /\ sending \in [Tabs -> Sendable \cup {None}]
  /\ flush \in [Tabs -> [gateway : Boxes, todo : SUBSET Entry] \cup {None}]
  /\ url \in [Tabs -> Boxes \cup {None}]
  /\ pairing \in [Tabs -> Boxes \cup {None, "idle"}]
  /\ published \in [Boxes -> [Drops -> Nat]]
  /\ restarts \in [Boxes -> Nat]
  /\ keys \in [Boxes -> SUBSET Drops]
  /\ told \in [Drops -> SUBSET {"published", "expired", "failed"}]

\* The Box remembers what it published since it started.
KeysRemember ==
  \A b \in Boxes, d \in Drops :
    IF d \in keys[b] THEN published[b][d] \in 1..(1 + restarts[b])
    ELSE published[b][d] <= restarts[b]

AllTaken(q, d) == \A e \in q : e.drop = d => e.taken

\* What a tab sends from the queue bears its mark, unless it was overwritten.
SentIsClaimed ==
  /\ \A t \in Tabs : sending[t] # None /\ sending[t].drop \notin overwritten =>
       AllTaken(queue, sending[t].drop)
  /\ NoParallelSend

\* The drops the queue, a flush or a call has been entrusted with.
Entrusted(d) ==
  \/ \E e \in queue : e.drop = d
  \/ \E t \in Tabs : flush[t] # None /\ \E e \in flush[t].todo : e.drop = d
  \/ \E t \in Tabs : sending[t] # None /\ sending[t].drop = d
  \/ \E t \in Tabs : call[t] # None /\ (d \in call[t].on \/ \E e \in call[t].seen : e.drop = d)
  \/ d \in overwritten

\* A drop is new, in one form, or entrusted to the queue; of the first two the
\* user has been told nothing.
FormHolds ==
  /\ \A d \in fresh : ~Entrusted(d) /\ told[d] = {}
  /\ \A t \in Tabs : form[t] # None =>
        /\ form[t].drop \notin fresh /\ ~Entrusted(form[t].drop) /\ told[form[t].drop] = {}
        /\ \A s \in Tabs \ {t} : form[s] # None => form[s].drop # form[t].drop

\* The Box says "ok" of what it published.
AnswersTruly ==
  \A t \in Tabs :
    /\ form[t] # None /\ form[t].reply = "ok" => form[t].drop \in Arrived
    /\ sending[t] # None /\ sending[t].reply = "ok" => sending[t].drop \in Arrived

\* What a tab is about while a call of it is under way.
CallOf(t) ==
  /\ call[t].name \in {"tidy", "save"} => form[t] # None
  /\ call[t].name = "save" => call[t].on = {}
  /\ call[t].name \in {"tidy", "load"} => call[t].on \subseteq DropsOf(call[t].seen)
  /\ call[t].name = "load" => url[t] # None
  /\ call[t].name = "claim" =>
       \A d \in call[t].on : \E e \in call[t].seen : e.drop = d /\ ~e.taken
  /\ call[t].name \in {"settle", "release"} => sending[t] # None /\ call[t].on = {sending[t].drop}
CallsHold == \A t \in Tabs : call[t] # None => CallOf(t)

DropsInv ==
  DropTypes /\ KeysRemember /\ SentIsClaimed /\ FormHolds /\ AnswersTruly /\ CallsHold

\* One step of the abstract queue, and what it holds.
CustodyStep == [TheCustody!Next]_(TheCustody!vars)
Held == Queued \ overwritten

\* The abstract queue counts as this module does.
LEMMA SameCount ==
  ASSUME NEW S
  PROVE  TheCustody!Cardinality(S) = Cardinality(S)
BY DEF TheCustody!Cardinality, Cardinality

\* Nothing the abstract queue speaks of changes.
LEMMA CustodyStutters ==
  ASSUME Queued' = Queued, UNCHANGED <<published, told, overwritten>>
  PROVE  CustodyStep
BY DEF CustodyStep, TheCustody!vars, Arrived, Delivered, Abandoned

\* Drops given up, with what the user is told of them, and drops overwritten.
LEMMA GivesUp ==
  ASSUME DropTypes, NEW S \in SUBSET Drops, NEW N \in SUBSET Drops, NEW what \in {"expired", "failed"},
         Held' = Held \ (S \cup N), overwritten' = overwritten \cup N,
         told' = [d \in Drops |-> IF d \in S THEN told[d] \cup {what} ELSE told[d]],
         UNCHANGED published
  PROVE  CustodyStep
<1>1. Delivered' = Delivered /\ Abandoned' = Abandoned \cup S
  BY DEF DropTypes, Delivered, Abandoned
<1>2. Arrived' = Arrived
  BY DEF Arrived
<1>3. TheCustody!Abandon(S \cup N)
  BY <1>1, <1>2 DEF TheCustody!Abandon, Held
<1> QED BY <1>3 DEF CustodyStep, TheCustody!Next

\* Drops overwritten, of which the user is told nothing.
LEMMA Overwrites ==
  ASSUME NEW N \in SUBSET Drops, Held' = Held \ N, overwritten' = overwritten \cup N,
         UNCHANGED told, UNCHANGED published
  PROVE  CustodyStep
<1>1. Delivered' = Delivered /\ Abandoned' = Abandoned /\ Arrived' = Arrived
  BY DEF Delivered, Abandoned, Arrived
<1>2. TheCustody!Abandon(N)
  BY <1>1 DEF TheCustody!Abandon, Held
<1> QED BY <1>2 DEF CustodyStep, TheCustody!Next

\* A drop that some Box put on its mesh is told as published.
LEMMA Delivers ==
  ASSUME DropTypes, NEW d \in Drops, d \in Arrived, NEW N \in SUBSET Drops,
         Held' = Held \ ({d} \cup N), overwritten' = overwritten \cup N,
         Tell({d}, "published"), UNCHANGED published
  PROVE  CustodyStep
<1>1. told' = [x \in Drops |-> IF x \in {d} THEN told[x] \cup {"published"} ELSE told[x]]
  BY DEF Tell
<1>2. Delivered' = Delivered \cup {d} /\ Abandoned' = Abandoned
  BY <1>1 DEF DropTypes, Delivered, Abandoned
<1>3. Arrived' = Arrived
  BY DEF Arrived
<1>4. TheCustody!Deliver(d, N)
  BY <1>2, <1>3 DEF TheCustody!Deliver, Held
<1> QED BY <1>4 DEF CustodyStep, TheCustody!Next

\* The same when nothing is overwritten.
LEMMA GivesUpOne ==
  ASSUME DropTypes, NEW d \in Drops, Held' = Held \ {d}, Tell({d}, "failed"),
         UNCHANGED published, UNCHANGED overwritten
  PROVE  CustodyStep
<1>1. told' = [x \in Drops |-> IF x \in {d} THEN told[x] \cup {"failed"} ELSE told[x]]
  BY DEF Tell
<1>2. {d} \in SUBSET Drops /\ {} \in SUBSET Drops /\ "failed" \in {"expired", "failed"}
  OBVIOUS
<1>3. Held' = Held \ ({d} \cup {}) /\ overwritten' = overwritten \cup {}
  OBVIOUS
<1> QED BY <1>1, <1>2, <1>3, GivesUp

LEMMA DeliversOne ==
  ASSUME DropTypes, NEW d \in Drops, d \in Arrived, Held' = Held \ {d}, Tell({d}, "published"),
         UNCHANGED published, UNCHANGED overwritten
  PROVE  CustodyStep
<1>1. {} \in SUBSET Drops
  OBVIOUS
<1>2. Held' = Held \ ({d} \cup {}) /\ overwritten' = overwritten \cup {}
  OBVIOUS
<1> QED BY <1>1, <1>2, Delivers

\* The queue holds no more drops than entries.
LEMMA QueuedBound ==
  ASSUME NEW q, IsFiniteSet(q)
  PROVE  IsFiniteSet({e.drop : e \in q}) /\ Cardinality({e.drop : e \in q}) <= Cardinality(q)
<1> DEFINE T == {e.drop : e \in q}
           f == [e \in q |-> e.drop]
<1>1. f \in Surjection(q, T)
  BY DEF Surjection
<1> QED BY <1>1, FS_Surjection

\* What a Box does with a request: what it has published stays published, and "ok"
\* is said of such a drop.
LEMMA ServeStep ==
  ASSUME DropTypes, KeysRemember, NEW b \in Boxes, NEW d \in Drops, NEW auth \in BOOLEAN,
         Serve(b, d, auth), UNCHANGED restarts
  PROVE  /\ published' \in [Boxes -> [Drops -> Nat]] /\ keys' \in [Boxes -> SUBSET Drops]
         /\ KeysRemember'
         /\ Arrived \subseteq Arrived' /\ Arrived' \subseteq Arrived \cup {d}
         /\ Reply(b, d, auth) \in {"ok", "discard", "throttled", "reauth"}
         /\ Reply(b, d, auth) = "ok" => d \in Arrived'
<1>1. CASE Answer(b, d, auth) = "publish"
  <2>1. /\ keys' = [keys EXCEPT ![b] = @ \cup {d}]
        /\ published' = [published EXCEPT ![b] = [published[b] EXCEPT ![d] = published[b][d] + 1]]
    BY <1>1 DEF Serve
  <2>2. published[b] \in [Drops -> Nat] /\ published[b][d] \in Nat /\ restarts[b] \in Nat
    BY DEF DropTypes
  <2>3. d \notin keys[b]
    BY <1>1 DEF Answer
  <2>4. published[b][d] <= restarts[b]
    BY <2>3 DEF KeysRemember
  <2>5. /\ published' \in [Boxes -> [Drops -> Nat]]
        /\ published'[b][d] = published[b][d] + 1
        /\ \A c \in Boxes, x \in Drops : c # b \/ x # d => published'[c][x] = published[c][x]
    BY <2>1, <2>2 DEF DropTypes
  <2>6. /\ keys' \in [Boxes -> SUBSET Drops] /\ d \in keys'[b]
        /\ \A c \in Boxes, x \in Drops : c # b \/ x # d => (x \in keys'[c] <=> x \in keys[c])
    BY <2>1 DEF DropTypes
  <2>7. KeysRemember'
    <3> SUFFICES ASSUME NEW c \in Boxes, NEW x \in Drops
                 PROVE  IF x \in keys'[c] THEN published'[c][x] \in 1..(1 + restarts[c])
                        ELSE published'[c][x] <= restarts[c]
      BY DEF KeysRemember
    <3>1. CASE c = b /\ x = d
      BY <2>2, <2>4, <2>5, <2>6, <3>1
    <3>2. CASE c # b \/ x # d
      BY <2>5, <2>6, <3>2 DEF KeysRemember
    <3> QED BY <3>1, <3>2
  <2>8. Arrived \subseteq Arrived' /\ Arrived' \subseteq Arrived \cup {d} /\ d \in Arrived'
    <3>1. published'[b][d] > 0
      BY <2>2, <2>5
    <3> QED BY <2>5, <3>1 DEF Arrived
  <2> QED BY <1>1, <2>5, <2>6, <2>7, <2>8 DEF Reply
<1>2. CASE Answer(b, d, auth) # "publish"
  <2>1. UNCHANGED <<keys, published>>
    BY <1>2 DEF Serve
  <2>2. Reply(b, d, auth) \in {"ok", "discard", "throttled", "reauth"}
    BY <1>2 DEF Reply, Answer
  <2>3. Reply(b, d, auth) = "ok" => d \in keys[b]
    BY <1>2 DEF Reply, Answer
  <2>4. d \in keys[b] => d \in Arrived
    BY DEF KeysRemember, Arrived, DropTypes
  <2> QED BY <2>1, <2>2, <2>3, <2>4 DEF DropTypes, KeysRemember, Arrived
<1> QED BY <1>1, <1>2

\* A drop that has arrived at a Box, and nothing else, for the abstract queue.
LEMMA Arrives ==
  ASSUME NEW d \in Drops, UNCHANGED <<queue, told, overwritten>>,
         Arrived \subseteq Arrived', Arrived' \subseteq Arrived \cup {d}
  PROVE  CustodyStep
<1>1. Queued' = Queued /\ Delivered' = Delivered /\ Abandoned' = Abandoned
  BY DEF Queued, Delivered, Abandoned
<1>2. CASE Arrived' = Arrived
  BY <1>1, <1>2 DEF CustodyStep, TheCustody!vars
<1>3. CASE Arrived' # Arrived
  <2>1. Arrived' = Arrived \cup {d}
    BY <1>3
  <2>2. TheCustody!Arrive(d)
    BY <1>1, <2>1 DEF TheCustody!Arrive
  <2> QED BY <2>2 DEF CustodyStep, TheCustody!Next
<1> QED BY <1>2, <1>3

\* A drop whose form comes to its end with the step.
LeavesForm(d) == d \notin fresh /\ \A t \in Tabs : form'[t] # None => form[t].drop # d

\* What the invariant needs of a step that leaves the Boxes alone: the queue is
\* entrusted with, and the user is told of, what leaves a form or was entrusted.
LEMMA Winding ==
  ASSUME DropsInv, UNCHANGED <<keys, published, restarts>>,
         DropTypes', SentIsClaimed', CallsHold', fresh' \subseteq fresh,
         \A d : Entrusted(d)' => Entrusted(d) \/ LeavesForm(d),
         \A d \in Drops : told'[d] = told[d] \/ Entrusted(d) \/ LeavesForm(d),
         \A t \in Tabs : form'[t] = None \/ (form[t] # None /\ form'[t].drop = form[t].drop
                                             /\ (form'[t].reply = "ok" => form[t].reply = "ok")),
         \A t \in Tabs : \/ sending'[t] = None \/ sending'[t].reply # "ok"
                         \/ sending[t] # None /\ sending'[t].drop = sending[t].drop /\ sending[t].reply = "ok"
  PROVE  DropsInv'
<1>1. KeysRemember'
  BY DEF DropsInv, KeysRemember
<1>2. FormHolds'
  <2>1. ASSUME NEW d \in fresh'
        PROVE  ~Entrusted(d)' /\ told'[d] = {}
    BY DEF DropsInv, DropTypes, FormHolds, LeavesForm
  <2>2. ASSUME NEW t \in Tabs, form'[t] # None
        PROVE  /\ form'[t].drop \notin fresh' /\ ~Entrusted(form[t].drop)' /\ told'[form'[t].drop] = {}
               /\ \A s \in Tabs \ {t} : form'[s] # None => form'[s].drop # form'[t].drop
    <3>1. form[t] # None /\ form'[t].drop = form[t].drop /\ ~LeavesForm(form[t].drop)
      BY <2>2 DEF LeavesForm
    <3>2. form[t].drop \notin fresh /\ ~Entrusted(form[t].drop) /\ told[form[t].drop] = {}
      BY <3>1 DEF DropsInv, FormHolds
    <3>3. form[t].drop \in Drops
      BY <2>2, <3>1 DEF DropsInv, DropTypes, Sendable
    <3>4. \A s \in Tabs \ {t} : form'[s] # None => form'[s].drop # form'[t].drop
      BY <3>1 DEF DropsInv, FormHolds
    <3> QED BY <3>1, <3>2, <3>3, <3>4
  <2> QED BY <2>1, <2>2 DEF FormHolds
<1>3. AnswersTruly'
  BY DEF DropsInv, AnswersTruly, Arrived
<1> QED BY <1>1, <1>2, <1>3 DEF DropsInv

\* The Box handles a request of a form, of a flush, or one given up.
LEMMA BoxServes ==
  ASSUME DropsInv, NEW r \in Sendable, r.box # None, Serve(r.box, r.drop, r.auth),
         UNCHANGED <<queue, call, flush, url, pairing, restarts, fresh, told, overwritten>>,
         late' \subseteq late,
         \/ \E t \in Tabs : /\ form[t] = r /\ UNCHANGED sending
                            /\ form' = [form EXCEPT ![t].reply = Reply(r.box, r.drop, r.auth)]
         \/ \E t \in Tabs : /\ sending[t] = r /\ UNCHANGED form
                            /\ sending' = [sending EXCEPT ![t].reply = Reply(r.box, r.drop, r.auth)]
         \/ UNCHANGED <<form, sending>>,
         r # None
  PROVE  DropsInv' /\ CustodyStep
<1> DEFINE a == Reply(r.box, r.drop, r.auth)
<1>1. r.box \in Boxes /\ r.drop \in Drops /\ r.auth \in BOOLEAN
  BY DEF Sendable
<1>2. /\ published' \in [Boxes -> [Drops -> Nat]] /\ keys' \in [Boxes -> SUBSET Drops]
      /\ KeysRemember'
      /\ Arrived \subseteq Arrived' /\ Arrived' \subseteq Arrived \cup {r.drop}
      /\ a \in {"ok", "discard", "throttled", "reauth"}
      /\ a = "ok" => r.drop \in Arrived'
  BY <1>1, ServeStep DEF DropsInv
<1> HIDE DEF a
<1>3. CustodyStep
  BY <1>1, <1>2, Arrives
<1>4. /\ form' \in [Tabs -> Sendable \cup {None}]
      /\ \A t \in Tabs : \/ form'[t] = form[t]
                         \/ /\ form[t] # None /\ form'[t].drop = form[t].drop
                            /\ form'[t].reply = "ok" => form[t].drop \in Arrived'
  <2>1. CASE UNCHANGED form
    BY <2>1 DEF DropsInv, DropTypes
  <2>2. ASSUME NEW t \in Tabs, form[t] = r, form' = [form EXCEPT ![t].reply = a]
        PROVE  <1>4
    <3>1. form' = [form EXCEPT ![t] = [r EXCEPT !.reply = a]]
      BY <2>2
    <3>2. /\ [r EXCEPT !.reply = a] \in Sendable
          /\ [r EXCEPT !.reply = a].drop = r.drop /\ [r EXCEPT !.reply = a].reply = a
      BY <1>2 DEF Sendable
    <3> QED BY <1>2, <2>2, <3>1, <3>2 DEF DropsInv, DropTypes
  <2> QED BY <2>1, <2>2 DEF a
<1>5. /\ sending' \in [Tabs -> Sendable \cup {None}]
      /\ \A t \in Tabs : \/ sending'[t] = sending[t]
                         \/ /\ sending[t] # None /\ sending'[t].drop = sending[t].drop
                            /\ sending'[t].reply = "ok" => sending[t].drop \in Arrived'
  <2>1. CASE UNCHANGED sending
    BY <2>1 DEF DropsInv, DropTypes
  <2>2. ASSUME NEW t \in Tabs, sending[t] = r, sending' = [sending EXCEPT ![t].reply = a]
        PROVE  <1>5
    <3>1. sending' = [sending EXCEPT ![t] = [r EXCEPT !.reply = a]]
      BY <2>2
    <3>2. /\ [r EXCEPT !.reply = a] \in Sendable
          /\ [r EXCEPT !.reply = a].drop = r.drop /\ [r EXCEPT !.reply = a].reply = a
      BY <1>2 DEF Sendable
    <3> QED BY <1>2, <2>2, <3>1, <3>2 DEF DropsInv, DropTypes
  <2> QED BY <2>1, <2>2 DEF a
<1>6. DropTypes'
  BY <1>2, <1>4, <1>5 DEF DropsInv, DropTypes
<1>7. SentIsClaimed'
  BY <1>5 DEF DropsInv, SentIsClaimed, NoParallelSend, AllTaken
<1>8. \A d : Entrusted(d)' => Entrusted(d)
  BY <1>5 DEF Entrusted
<1>9. FormHolds'
  BY <1>4, <1>8 DEF DropsInv, FormHolds
<1>10. AnswersTruly'
  BY <1>2, <1>4, <1>5 DEF DropsInv, AnswersTruly
<1>11. CallsHold'
  <2>1. ASSUME NEW t \in Tabs
        PROVE  /\ form[t] # None => form'[t] # None
               /\ sending[t] # None => sending'[t] # None /\ sending'[t].drop = sending[t].drop
    <3> DEFINE Kept == /\ form[t] # None => form'[t] # None
                       /\ sending[t] # None => sending'[t] # None /\ sending'[t].drop = sending[t].drop
    <3>1. \A f : f \in Sendable => f # None
      BY DropsAssumption
    <3>2. CASE UNCHANGED <<form, sending>>
      BY <3>2
    <3>3. ASSUME NEW s \in Tabs, form[s] = r, UNCHANGED sending,
                 form' = [form EXCEPT ![s].reply = Reply(r.box, r.drop, r.auth)]
          PROVE  Kept
      <4>1. form' = [form EXCEPT ![s] = [r EXCEPT !.reply = a]]
        BY <3>3 DEF a
      <4>2. [r EXCEPT !.reply = a] \in Sendable
        BY <1>2 DEF Sendable
      <4> QED BY <3>1, <3>3, <4>1, <4>2 DEF DropsInv, DropTypes
    <3>4. ASSUME NEW s \in Tabs, sending[s] = r, UNCHANGED form,
                 sending' = [sending EXCEPT ![s].reply = Reply(r.box, r.drop, r.auth)]
          PROVE  Kept
      <4>1. sending' = [sending EXCEPT ![s] = [r EXCEPT !.reply = a]]
        BY <3>4 DEF a
      <4>2. [r EXCEPT !.reply = a] \in Sendable /\ [r EXCEPT !.reply = a].drop = r.drop
        BY <1>2 DEF Sendable
      <4>3. sending'[t] = IF t = s THEN [r EXCEPT !.reply = a] ELSE sending[t]
        BY <4>1 DEF DropsInv, DropTypes
      <4>4. CASE t = s
        BY <3>1, <3>4, <4>2, <4>3, <4>4
      <4>5. CASE t # s
        BY <3>4, <4>3, <4>5
      <4> QED BY <4>4, <4>5
    <3> QED BY <3>2, <3>3, <3>4
  <2>2. ASSUME NEW t \in Tabs, call'[t] # None
        PROVE  CallOf(t)'
    <3>1. call[t] # None /\ CallOf(t)
      BY <2>2 DEF DropsInv, CallsHold
    <3> QED BY <2>1, <3>1 DEF CallOf, DropsOf
  <2> QED BY <2>2 DEF CallsHold
<1> QED BY <1>2, <1>3, <1>6, <1>7, <1>9, <1>10, <1>11 DEF DropsInv

\* A Box that restarts forgets its keys, and may answer less.
LEMMA RestartStep ==
  ASSUME DropsInv, NEW b \in Boxes, BoxRestarts(b)
  PROVE  DropsInv' /\ CustodyStep
<1>1. /\ restarts' = [restarts EXCEPT ![b] = @ + 1] /\ keys' = [keys EXCEPT ![b] = {}]
      /\ UNCHANGED <<queue, call, form, flush, sending, url, pairing, published, late, fresh, told, overwritten>>
  BY DEF BoxRestarts
<1>2. DropTypes'
  BY <1>1 DEF DropsInv, DropTypes
<1>3. KeysRemember'
  <2> SUFFICES ASSUME NEW c \in Boxes, NEW d \in Drops
               PROVE  IF d \in keys'[c] THEN published[c][d] \in 1..(1 + restarts'[c])
                      ELSE published[c][d] <= restarts'[c]
    BY <1>1 DEF KeysRemember
  <2>1. /\ published[c][d] \in Nat /\ restarts[c] \in Nat
        /\ IF d \in keys[c] THEN published[c][d] \in 1..(1 + restarts[c])
           ELSE published[c][d] <= restarts[c]
    BY DEF DropsInv, DropTypes, KeysRemember
  <2>2. CASE c = b
    <3>1. keys'[c] = {} /\ restarts'[c] = restarts[c] + 1
      BY <1>1, <2>2 DEF DropsInv, DropTypes
    <3> QED BY <2>1, <3>1
  <2>3. CASE c # b
    <3>1. keys'[c] = keys[c] /\ restarts'[c] = restarts[c]
      BY <1>1, <2>3 DEF DropsInv, DropTypes
    <3> QED BY <2>1, <3>1
  <2> QED BY <2>2, <2>3
<1>4. SentIsClaimed' /\ FormHolds' /\ AnswersTruly' /\ CallsHold'
  BY <1>1 DEF DropsInv, SentIsClaimed, NoParallelSend, AllTaken, FormHolds, Entrusted, AnswersTruly, Arrived,
     CallsHold, CallOf, DropsOf
<1>5. CustodyStep
  BY <1>1, CustodyStutters DEF Queued, DropsOf
<1> QED BY <1>2, <1>3, <1>4, <1>5 DEF DropsInv

\* The user writes a drop.
LEMMA SubmitStep ==
  ASSUME DropsInv, NEW t \in Tabs, NEW d \in Drops, Submit(t, d)
  PROVE  DropsInv' /\ CustodyStep
<1> DEFINE r == Request(t, d)
<1>1. /\ d \in fresh /\ fresh' = fresh \ {d} /\ form[t] = None /\ call[t] = None
      /\ form' = [form EXCEPT ![t] = r]
      /\ UNCHANGED <<queue, call, flush, sending, url, pairing, keys, published, restarts, late, told, overwritten>>
  BY DEF Submit, AtAwait, box
<1>2. r \in Sendable /\ r.drop = d /\ r.reply = "wait"
  BY DEF Request, Sendable, DropsInv, DropTypes
<1> HIDE DEF r
<1>3. DropTypes'
  BY <1>1, <1>2 DEF DropsInv, DropTypes
<1>4. KeysRemember' /\ SentIsClaimed'
  BY <1>1 DEF DropsInv, KeysRemember, SentIsClaimed, NoParallelSend, AllTaken
<1>5. \A x : Entrusted(x)' <=> Entrusted(x)
  BY <1>1 DEF Entrusted
<1>6. form'[t] = r /\ \A s \in Tabs : s # t => form'[s] = form[s]
  BY <1>1 DEF DropsInv, DropTypes
<1>7. FormHolds'
  <2>1. ASSUME NEW s \in Tabs, form'[s] # None
        PROVE  /\ form'[s].drop \notin fresh' /\ told[form'[s].drop] = {}
               /\ ~Entrusted(form[s].drop)'
               /\ \A u \in Tabs \ {s} : form'[u] # None => form'[u].drop # form'[s].drop
    <3>1. CASE s = t
      <4>1. /\ d \notin fresh' /\ ~Entrusted(d) /\ told[d] = {}
            /\ \A u \in Tabs \ {t} : form[u] # None => form[u].drop # d
        BY <1>1 DEF DropsInv, FormHolds
      <4> QED BY <1>2, <1>5, <1>6, <3>1, <4>1
    <3>2. CASE s # t
      <4>1. form[s] # None /\ form[s].drop \notin fresh
        BY <1>6, <2>1, <3>2 DEF DropsInv, FormHolds
      <4>2. /\ ~Entrusted(form[s].drop) /\ told[form[s].drop] = {}
            /\ \A u \in Tabs \ {s} : form[u] # None => form[u].drop # form[s].drop
        BY <4>1 DEF DropsInv, FormHolds
      <4> QED BY <1>1, <1>2, <1>5, <1>6, <3>2, <4>1, <4>2
    <3> QED BY <3>1, <3>2
  <2>2. \A x \in fresh' : ~Entrusted(x)' /\ told[x] = {}
    BY <1>1, <1>5 DEF DropsInv, FormHolds
  <2> QED BY <1>1, <2>1, <2>2 DEF FormHolds
<1>8. AnswersTruly'
  BY <1>1, <1>2, <1>6 DEF DropsInv, AnswersTruly, Arrived
<1>9. CallsHold'
  BY <1>1, <1>6 DEF DropsInv, CallsHold, CallOf, DropsOf
<1>10. CustodyStep
  BY <1>1, CustodyStutters DEF Queued, DropsOf
<1> QED BY <1>3, <1>4, <1>7, <1>8, <1>9, <1>10 DEF DropsInv

\* A form gets no answer it can read.
LEMMA FormFailsStep ==
  ASSUME DropsInv, NEW t \in Tabs, FormFails(t)
  PROVE  DropsInv' /\ CustodyStep
<1>1. /\ form[t] # None /\ call[t] = None
      /\ form' = [form EXCEPT ![t] = [form[t] EXCEPT !.reply = "retry"]]
      /\ late' = late \cup OnTheWay({form[t]})
      /\ UNCHANGED <<queue, call, flush, sending, url, pairing, keys, published, restarts, fresh, told, overwritten>>
  BY DEF FormFails, box
<1>2. form[t] \in Sendable
  BY <1>1 DEF DropsInv, DropTypes
<1>3. /\ [form[t] EXCEPT !.reply = "retry"] \in Sendable
      /\ [form[t] EXCEPT !.reply = "retry"].drop = form[t].drop
      /\ [form[t] EXCEPT !.reply = "retry"].reply = "retry"
  BY <1>2 DEF Sendable
<1>4. DropTypes'
  BY <1>1, <1>2, <1>3 DEF DropsInv, DropTypes, OnTheWay
<1>5. SentIsClaimed'
  BY <1>1 DEF DropsInv, SentIsClaimed, NoParallelSend, AllTaken
<1>6. \A d : Entrusted(d)' => Entrusted(d)
  BY <1>1 DEF Entrusted
<1>7. \A s \in Tabs : form'[s] = None \/ (form[s] # None /\ form'[s].drop = form[s].drop
                                           /\ (form'[s].reply = "ok" => form[s].reply = "ok"))
  BY <1>1, <1>3 DEF DropsInv, DropTypes
<1>8. CallsHold'
  BY <1>1, <1>3 DEF DropsInv, DropTypes, CallsHold, CallOf, DropsOf
<1>9. DropsInv'
  BY <1>1, <1>4, <1>5, <1>6, <1>7, <1>8, Winding DEF DropsInv, AnswersTruly
<1> QED BY <1>1, <1>9, CustodyStutters DEF Queued, DropsOf

\* So does a flush.
LEMMA SendFailsStep ==
  ASSUME DropsInv, NEW t \in Tabs, SendFails(t)
  PROVE  DropsInv' /\ CustodyStep
<1>1. /\ sending[t] # None /\ call[t] = None
      /\ sending' = [sending EXCEPT ![t] = [sending[t] EXCEPT !.reply = "retry"]]
      /\ late' = late \cup OnTheWay({sending[t]})
      /\ UNCHANGED <<queue, call, flush, form, url, pairing, keys, published, restarts, fresh, told, overwritten>>
  BY DEF SendFails, box
<1>2. sending[t] \in Sendable
  BY <1>1 DEF DropsInv, DropTypes
<1>3. /\ [sending[t] EXCEPT !.reply = "retry"] \in Sendable
      /\ [sending[t] EXCEPT !.reply = "retry"].drop = sending[t].drop
      /\ [sending[t] EXCEPT !.reply = "retry"].reply = "retry"
  BY <1>2 DEF Sendable
<1>4. DropTypes'
  BY <1>1, <1>2, <1>3 DEF DropsInv, DropTypes, OnTheWay
<1>5. \A s \in Tabs : \/ sending'[s] = sending[s]
                      \/ s = t /\ sending'[s].drop = sending[s].drop /\ sending'[s].reply = "retry"
  BY <1>1, <1>3 DEF DropsInv, DropTypes
<1>6. SentIsClaimed'
  BY <1>1, <1>5 DEF DropsInv, SentIsClaimed, NoParallelSend, AllTaken
<1>7. \A d : Entrusted(d)' => Entrusted(d)
  BY <1>1, <1>5 DEF Entrusted
<1>8. CallsHold'
  BY <1>1, <1>3 DEF DropsInv, DropTypes, CallsHold, CallOf, DropsOf
<1>9. DropsInv'
  BY <1>1, <1>4, <1>5, <1>6, <1>7, <1>8, Winding
<1> QED BY <1>1, <1>9, CustodyStutters DEF Queued, DropsOf

\* What is left of a queue without some drops, and one with their entries marked.
LEMMA WithoutDrops ==
  ASSUME NEW q, NEW S, IsFiniteSet(q)
  PROVE  /\ Without(q, S) \subseteq q /\ IsFiniteSet(Without(q, S))
         /\ DropsOf(Without(q, S)) = DropsOf(q) \ S
<1>1. Without(q, S) \subseteq q
  BY DEF Without
<1> QED BY <1>1, FS_Subset DEF Without, DropsOf

LEMMA MarkedDrops ==
  ASSUME NEW q \in SUBSET Entry, NEW S, NEW mark \in BOOLEAN, IsFiniteSet(q)
  PROVE  /\ Marked(q, S, mark) \subseteq Entry /\ IsFiniteSet(Marked(q, S, mark))
         /\ DropsOf(Marked(q, S, mark)) = DropsOf(q)
         /\ \A d : d \notin S => Of(Marked(q, S, mark), d) = Of(q, d)
         /\ \A e \in Marked(q, S, mark) : e.drop \in S => e.taken = mark
<1> DEFINE R == q \ Without(q, S)
           T == {[e EXCEPT !.taken = mark] : e \in R}
           f == [e \in R |-> [e EXCEPT !.taken = mark]]
<1>1. \A e \in R : /\ [e EXCEPT !.taken = mark] \in Entry /\ [e EXCEPT !.taken = mark].drop = e.drop
                   /\ [e EXCEPT !.taken = mark].taken = mark /\ e.drop \in S
  BY DEF Entry, Without
<1>2. IsFiniteSet(Without(q, S)) /\ IsFiniteSet(R)
  BY FS_Subset, WithoutDrops
<1>3. f \in Surjection(R, T)
  BY DEF Surjection
<1>4. IsFiniteSet(T)
  BY <1>2, <1>3, FS_Surjection
<1>5. Marked(q, S, mark) = Without(q, S) \cup T
  BY DEF Marked
<1>6. IsFiniteSet(Marked(q, S, mark))
  <2>1. IsFiniteSet(Without(q, S) \cup T)
    BY <1>2, <1>4, FS_Union
  <2> QED BY <1>5, <2>1
<1>7. \A e \in T : e \in Entry /\ e.taken = mark /\ e.drop \in S
  BY <1>1
<1>8. DropsOf(T) = DropsOf(R)
  <2>1. \A d \in DropsOf(T) : d \in DropsOf(R)
    BY <1>1 DEF DropsOf
  <2>2. ASSUME NEW e \in R
        PROVE  e.drop \in DropsOf(T)
    <3>1. [e EXCEPT !.taken = mark] \in T
      OBVIOUS
    <3> QED BY <1>1, <3>1 DEF DropsOf
  <2> QED BY <2>1, <2>2 DEF DropsOf
<1> HIDE DEF R, T
<1>9. DropsOf(Marked(q, S, mark)) = DropsOf(q)
  <2>1. DropsOf(Marked(q, S, mark)) = DropsOf(Without(q, S)) \cup DropsOf(T)
    BY <1>5 DEF DropsOf
  <2>2. DropsOf(q) = DropsOf(Without(q, S)) \cup DropsOf(R)
    BY DEF R, DropsOf, Without
  <2> QED BY <1>8, <2>1, <2>2
<1>10. \A d : d \notin S => Of(Marked(q, S, mark), d) = Of(q, d)
  BY <1>5, <1>7 DEF Of, Without
<1>11. \A e \in Without(q, S) : e \in Entry /\ e.drop \notin S
  BY DEF Without
<1> QED BY <1>5, <1>6, <1>7, <1>9, <1>10, <1>11

\* A call under way, and what it takes out of the queue it has read.
Removed(t) == IF call[t].name \in {"claim", "release"} THEN {} ELSE call[t].on

LEMMA CallTypes ==
  ASSUME DropsInv, NEW t \in Tabs, call[t] # None
  PROVE  /\ call[t].name \in CallName /\ call[t].on \subseteq Drops
         /\ call[t].seen \in SUBSET Entry /\ IsFiniteSet(call[t].seen)
         /\ CallOf(t) /\ \A d \in call[t].on : Entrusted(d)
         /\ \A d \in DropsOf(call[t].seen) : Entrusted(d)
BY DEF DropsInv, DropTypes, CallsHold, Entrusted, DropsOf

\* What a call makes of the queue it has read.
LEMMA EditedQueue ==
  ASSUME DropsInv, NEW t \in Tabs, call[t] # None
  PROVE  /\ Edited(t) \in SUBSET Entry /\ IsFiniteSet(Edited(t))
         /\ call[t].name # "save" => DropsOf(Edited(t)) = DropsOf(call[t].seen) \ Removed(t)
         /\ call[t].name = "save" =>
              \/ Edited(t) = call[t].seen
              \/ /\ Edited(t) = call[t].seen \cup {NewEntry(t)}
                 /\ Cardinality(call[t].seen) < MaxPendingDrops
         /\ \A d : \/ d \in call[t].on
                   \/ call[t].name = "save" /\ d = form[t].drop
                   \/ Of(Edited(t), d) = Of(call[t].seen, d)
         /\ call[t].name \notin {"save", "release"} =>
              \A e \in Edited(t) : e.drop \in call[t].on => e.taken
<1> DEFINE q == call[t].seen
<1>1. /\ call[t].name \in CallName /\ q \in SUBSET Entry /\ IsFiniteSet(q) /\ CallOf(t)
  BY CallTypes
<1> HIDE DEF q
<1>2. CASE call[t].name = "save"
  <2>1. Edited(t) = Enqueue(q, NewEntry(t))
    BY <1>2 DEF Edited, q
  <2>2. NewEntry(t) \in Entry /\ NewEntry(t).drop = form[t].drop
    BY <1>1, <1>2 DEF NewEntry, Entry, CallOf, DropsInv, DropTypes, Sendable
  <2>3. IsFiniteSet(q \cup {NewEntry(t)})
    BY <1>1, FS_AddElement
  <2>4. \A d : d # form[t].drop => Of(q \cup {NewEntry(t)}, d) = Of(q, d)
    BY <2>2 DEF Of
  <2> QED BY <1>1, <1>2, <2>1, <2>2, <2>3, <2>4 DEF Enqueue, q
<1>3. CASE call[t].name = "claim" \/ call[t].name = "release"
  <2>1. CASE call[t].name = "claim"
    <3>1. Edited(t) = Marked(q, call[t].on, TRUE)
      BY <2>1 DEF Edited, q
    <3> DEFINE m == Marked(q, call[t].on, TRUE)
    <3>4. /\ m \subseteq Entry /\ IsFiniteSet(m) /\ DropsOf(m) = DropsOf(q)
          /\ \A d : d \notin call[t].on => Of(m, d) = Of(q, d)
          /\ \A e \in m : e.drop \in call[t].on => e.taken = TRUE
      BY <1>1, MarkedDrops, Zenon
    <3>2. /\ Edited(t) \subseteq Entry /\ IsFiniteSet(Edited(t)) /\ DropsOf(Edited(t)) = DropsOf(q)
          /\ \A d : d \notin call[t].on => Of(Edited(t), d) = Of(q, d)
          /\ \A e \in Edited(t) : e.drop \in call[t].on => e.taken
      BY <3>1, <3>4
    <3>3. Removed(t) = {}
      BY <2>1 DEF Removed
    <3> QED BY <2>1, <3>2, <3>3 DEF q
  <2>2. CASE call[t].name = "release"
    <3>1. Edited(t) = Marked(q, call[t].on, FALSE)
      BY <2>2 DEF Edited, q
    <3> DEFINE m == Marked(q, call[t].on, FALSE)
    <3>4. /\ m \subseteq Entry /\ IsFiniteSet(m) /\ DropsOf(m) = DropsOf(q)
          /\ \A d : d \notin call[t].on => Of(m, d) = Of(q, d)
          /\ \A e \in m : e.drop \in call[t].on => e.taken = FALSE
      BY <1>1, MarkedDrops, Zenon
    <3>2. /\ Edited(t) \subseteq Entry /\ IsFiniteSet(Edited(t)) /\ DropsOf(Edited(t)) = DropsOf(q)
          /\ \A d : d \notin call[t].on => Of(Edited(t), d) = Of(q, d)
      BY <3>1, <3>4
    <3>3. Removed(t) = {}
      BY <2>2 DEF Removed
    <3> QED BY <2>2, <3>2, <3>3 DEF q
  <2> QED BY <1>3, <2>1, <2>2
<1>4. CASE call[t].name \notin {"save", "claim", "release"}
  <2>1. Edited(t) = Without(q, call[t].on)
    BY <1>4 DEF Edited, q
  <2>2. \A d : d \notin call[t].on => Of(Without(q, call[t].on), d) = Of(q, d)
    BY DEF Of, Without
  <2>3. \A e \in Without(q, call[t].on) : e.drop \notin call[t].on
    BY DEF Without
  <2>4. /\ Edited(t) \subseteq Entry /\ IsFiniteSet(Edited(t))
        /\ DropsOf(Edited(t)) = DropsOf(q) \ call[t].on
    <3>1. Without(q, call[t].on) \subseteq q
      BY DEF Without
    <3>2. DropsOf(Without(q, call[t].on)) = DropsOf(q) \ call[t].on
      BY DEF Without, DropsOf
    <3> QED BY <1>1, <2>1, <3>1, <3>2, FS_Subset
  <2>5. Removed(t) = call[t].on
    BY <1>4 DEF Removed
  <2> QED BY <1>4, <2>1, <2>2, <2>3, <2>4, <2>5 DEF q
<1> QED BY <1>2, <1>3, <1>4

\* The end of a call: nothing is written, or the drops not overwritten are as the
\* call read them.
LEMMA StoresQueue ==
  ASSUME DropsInv, NEW t \in Tabs, call[t] # None, Stores(t)
  PROVE  /\ queue' \in SUBSET Entry /\ IsFiniteSet(queue')
         /\ overwritten \subseteq overwritten' /\ overwritten' \subseteq Drops
         /\ \A d \in overwritten' : Entrusted(d)
         /\ \/ UNCHANGED <<queue, overwritten>> /\ ~Writes(t)
            \/ /\ queue' = Edited(t)
               /\ \A d \in Drops : d \notin overwritten' => Of(call[t].seen, d) = Of(queue, d)
         /\ call' = [call EXCEPT ![t] = None]
         /\ call'[t] = None /\ \A s \in Tabs : s # t => call'[s] = call[s]
<1>1. call' = [call EXCEPT ![t] = None] /\ call'[t] = None /\ \A s \in Tabs : s # t => call'[s] = call[s]
  BY DEF Stores, DropsInv, DropTypes
<1>2. CASE ~Writes(t)
  BY <1>1, <1>2 DEF Stores, DropsInv, DropTypes, Entrusted
<1>3. CASE Writes(t)
  <2>1. /\ queue' = Edited(t)
        /\ overwritten' = overwritten \cup {d \in Drops : Of(call[t].seen, d) # Of(queue, d)}
    BY <1>3 DEF Stores
  <2>2. \A d : Of(call[t].seen, d) # Of(queue, d) => Entrusted(d)
    BY DEF Of, Entrusted
  <2> QED BY <1>1, <2>1, <2>2, EditedQueue DEF DropsInv, DropTypes, Entrusted
<1> QED BY <1>2, <1>3

\* What is held at the end of a call that removes or marks entries.
LEMMA StoresHeld ==
  ASSUME DropsInv, NEW t \in Tabs, call[t] # None, call[t].name # "save", Stores(t)
  PROVE  Held' = Held \ (Removed(t) \cup (overwritten' \ overwritten))
<1>1. CASE UNCHANGED <<queue, overwritten>> /\ ~Writes(t)
  <2>1. Edited(t) = call[t].seen /\ call[t].name \notin {"expire", "settle"}
    BY <1>1 DEF Writes
  <2>2. Removed(t) \cap DropsOf(call[t].seen) = {}
    BY <2>1, EditedQueue
  <2>3. Removed(t) = {}
    BY <2>1, <2>2, CallTypes DEF Removed, CallOf, CallName
  <2> QED BY <1>1, <2>3 DEF Held, Queued, DropsOf
<1>2. CASE /\ queue' = Edited(t)
           /\ \A d \in Drops : d \notin overwritten' => Of(call[t].seen, d) = Of(queue, d)
  <2>1. Queued' = DropsOf(call[t].seen) \ Removed(t)
    BY <1>2, EditedQueue DEF Queued, DropsOf
  <2>2. \A d \in Drops : d \notin overwritten' => (d \in DropsOf(call[t].seen) <=> d \in Queued)
    BY <1>2 DEF Of, Queued, DropsOf
  <2>3. DropsOf(call[t].seen) \subseteq Drops /\ Queued \subseteq Drops
    BY CallTypes DEF DropsOf, Queued, Entry, DropsInv, DropTypes
  <2>4. overwritten \subseteq overwritten'
    BY StoresQueue
  <2> QED BY <2>1, <2>2, <2>3, <2>4 DEF Held
<1> QED BY <1>1, <1>2, StoresQueue

\* The marks of what is being sent survive the end of a call that sends nothing.
LEMMA StoresMarks ==
  ASSUME DropsInv, NEW t \in Tabs, call[t] # None, Stores(t),
         NEW d \in Drops, d \notin overwritten', AllTaken(queue, d),
         call[t].name = "release" => d \notin call[t].on,
         call[t].name = "save" => d # form[t].drop
  PROVE  AllTaken(queue', d)
<1>1. CASE queue' = queue
  BY <1>1 DEF AllTaken
<1>2. CASE queue' = Edited(t) /\ Of(call[t].seen, d) = Of(queue, d)
  <2>1. AllTaken(call[t].seen, d)
    BY <1>2 DEF AllTaken, Of
  <2>2. CASE Of(Edited(t), d) = Of(call[t].seen, d)
    BY <1>2, <2>1, <2>2 DEF AllTaken, Of
  <2>3. CASE d \in call[t].on
    <3>1. call[t].name \notin {"save", "release"}
      BY <2>3, CallTypes DEF CallOf
    <3> QED BY <1>2, <2>3, <3>1, EditedQueue DEF AllTaken
  <2> QED BY <2>2, <2>3, EditedQueue
<1> QED BY <1>1, <1>2, StoresQueue

LEMMA SentStays ==
  ASSUME DropsInv, NEW t \in Tabs, call[t] # None, Stores(t),
         \A s \in Tabs : sending'[s] = None \/ sending'[s] = sending[s],
         call[t].name = "release" => sending'[t] = None
  PROVE  SentIsClaimed'
<1>1. overwritten \subseteq overwritten'
  BY StoresQueue
<1>2. ASSUME NEW s \in Tabs, sending'[s] # None, sending'[s].drop \notin overwritten'
      PROVE  AllTaken(queue', sending'[s].drop)
  <2> DEFINE d == sending[s].drop
  <2>1. sending'[s] = sending[s] /\ sending[s] # None /\ d \notin overwritten /\ d \notin overwritten'
    BY <1>1, <1>2
  <2>2. d \in Drops /\ AllTaken(queue, d) /\ Entrusted(d)
    BY <2>1 DEF DropsInv, DropTypes, Sendable, SentIsClaimed, Entrusted
  <2>3. call[t].name = "release" => d \notin call[t].on
    <3> SUFFICES ASSUME call[t].name = "release", d \in call[t].on
                 PROVE  FALSE
      OBVIOUS
    <3>1. sending[t] # None /\ sending[t].drop = d /\ s # t
      BY <1>2, CallTypes DEF CallOf
    <3> QED BY <2>1, <3>1 DEF DropsInv, SentIsClaimed, NoParallelSend
  <2>4. call[t].name = "save" => d # form[t].drop
    BY <2>2, CallTypes DEF CallOf, DropsInv, FormHolds
  <2> QED BY <2>1, <2>2, <2>3, <2>4, StoresMarks
<1>3. NoParallelSend'
  BY <1>1 DEF DropsInv, SentIsClaimed, NoParallelSend
<1> QED BY <1>2, <1>3 DEF SentIsClaimed, AllTaken

\* What the invariant needs of the end of a call.
LEMMA CallReturns ==
  ASSUME DropsInv, NEW t \in Tabs, call[t] # None, Stores(t), SentIsClaimed',
         UNCHANGED <<keys, published, restarts, fresh, late, url, pairing>>,
         form' \in [Tabs -> Sendable \cup {None}], sending' \in [Tabs -> Sendable \cup {None}],
         flush' \in [Tabs -> [gateway : Boxes, todo : SUBSET Entry] \cup {None}],
         told' \in [Drops -> SUBSET {"published", "expired", "failed"}],
         \A s \in Tabs : s # t => form'[s] = form[s] /\ sending'[s] = sending[s],
         form'[t] = None \/ (form[t] # None /\ form'[t].drop = form[t].drop
                             /\ (form'[t].reply = "ok" => form[t].reply = "ok")),
         call[t].name = "save" => form'[t] = None,
         \A s \in Tabs : \/ flush'[s] = flush[s] \/ flush'[s] = None
                         \/ call[t].name = "load" /\ flush'[s].todo = Edited(t),
         \/ sending'[t] = None \/ sending'[t] = sending[t]
         \/ sending'[t].reply = "wait" /\ sending'[t].drop \in call[t].on,
         \A x \in Drops : told'[x] = told[x] \/ Entrusted(x) \/ LeavesForm(x)
  PROVE  DropsInv'
<1>1. DropTypes'
  <2>1. /\ queue' \in SUBSET Entry /\ IsFiniteSet(queue') /\ overwritten' \subseteq Drops
        /\ call' = [call EXCEPT ![t] = None]
    BY StoresQueue
  <2>2. call' \in [Tabs -> [name : CallName, on : SUBSET Drops, seen : SUBSET Entry] \cup {None}]
    BY <2>1 DEF DropsInv, DropTypes
  <2>3. \A s \in Tabs : call'[s] # None => IsFiniteSet(call'[s].seen)
    BY StoresQueue DEF DropsInv, DropTypes
  <2> QED BY <2>1, <2>2, <2>3 DEF DropsInv, DropTypes
<1>2. CallsHold'
  BY StoresQueue DEF DropsInv, CallsHold, CallOf, DropsOf
<1>3. \A d \in DropsOf(Edited(t)) : Entrusted(d) \/ LeavesForm(d)
  <2>1. CASE call[t].name # "save"
    BY <2>1, EditedQueue, CallTypes
  <2>2. CASE call[t].name = "save"
    <3>1. \A d \in DropsOf(Edited(t)) : d \in DropsOf(call[t].seen) \/ d = form[t].drop
      BY <2>2, EditedQueue DEF DropsOf, NewEntry
    <3>2. LeavesForm(form[t].drop)
      BY <2>2, CallTypes DEF CallOf, LeavesForm, DropsInv, FormHolds
    <3> QED BY <3>1, <3>2, CallTypes
  <2> QED BY <2>1, <2>2
<1>4. call[t].name = "load" => \A d \in DropsOf(Edited(t)) : Entrusted(d)
  BY EditedQueue, CallTypes
<1>5. \A d : Entrusted(d)' => Entrusted(d) \/ LeavesForm(d)
  <2> SUFFICES ASSUME NEW d, Entrusted(d)'
               PROVE  Entrusted(d) \/ LeavesForm(d)
    OBVIOUS
  <2>1. CASE \E e \in queue' : e.drop = d
    BY <1>3, <2>1, StoresQueue DEF DropsOf, Entrusted
  <2>2. CASE \E s \in Tabs : flush'[s] # None /\ \E e \in flush'[s].todo : e.drop = d
    BY <1>4, <2>2 DEF DropsOf, Entrusted
  <2>3. CASE \E s \in Tabs : sending'[s] # None /\ sending'[s].drop = d
    BY <2>3, CallTypes DEF Entrusted
  <2>4. CASE \E s \in Tabs : call'[s] # None /\ (d \in call'[s].on \/ \E e \in call'[s].seen : e.drop = d)
    BY <2>4, StoresQueue DEF Entrusted
  <2>5. CASE d \in overwritten'
    BY <2>5, StoresQueue
  <2> QED BY <2>1, <2>2, <2>3, <2>4, <2>5 DEF Entrusted
<1>6. \A s \in Tabs : form'[s] = None \/ (form[s] # None /\ form'[s].drop = form[s].drop
                                           /\ (form'[s].reply = "ok" => form[s].reply = "ok"))
  OBVIOUS
<1>7. \A s \in Tabs : \/ sending'[s] = None \/ sending'[s].reply # "ok"
                      \/ sending[s] # None /\ sending'[s].drop = sending[s].drop /\ sending[s].reply = "ok"
  OBVIOUS
<1> QED BY <1>1, <1>2, <1>5, <1>6, <1>7, Winding

\* The queue is read for a call.
LEMMA ReadsStep ==
  ASSUME DropsInv, NEW t \in Tabs, NEW name \in CallName, NEW S \in SUBSET Drops,
         Reads(t, name, S), \A d \in S : Entrusted(d), CallOf(t)',
         UNCHANGED <<queue, form, sending, url, pairing, keys, published, restarts, late, fresh, told, overwritten>>,
         flush' \in [Tabs -> [gateway : Boxes, todo : SUBSET Entry] \cup {None}],
         \A s \in Tabs : flush'[s] = flush[s] \/ (flush[s] # None /\ flush'[s].todo \subseteq flush[s].todo)
  PROVE  DropsInv' /\ CustodyStep
<1> DEFINE c == [name |-> name, on |-> S, seen |-> queue]
<1>1. /\ c \in [name : CallName, on : SUBSET Drops, seen : SUBSET Entry]
      /\ c.on = S /\ c.seen = queue
  BY DEF DropsInv, DropTypes
<1>2. call' = [call EXCEPT ![t] = c]
  BY DEF Reads
<1> HIDE DEF c
<1>3. call'[t] = c /\ \A s \in Tabs : s # t => call'[s] = call[s]
  BY <1>2 DEF DropsInv, DropTypes
<1>4. DropTypes'
  <2>1. call' \in [Tabs -> [name : CallName, on : SUBSET Drops, seen : SUBSET Entry] \cup {None}]
    BY <1>1, <1>2 DEF DropsInv, DropTypes
  <2>2. \A s \in Tabs : call'[s] # None => IsFiniteSet(call'[s].seen)
    BY <1>1, <1>3 DEF DropsInv, DropTypes
  <2> QED BY <2>1, <2>2 DEF DropsInv, DropTypes
<1>5. CallsHold'
  <2>1. ASSUME NEW s \in Tabs, s # t, call'[s] # None
        PROVE  CallOf(s)'
    BY <1>3, <2>1 DEF DropsInv, CallsHold, CallOf, DropsOf
  <2> QED BY <2>1 DEF CallsHold
<1>6. SentIsClaimed'
  BY DEF DropsInv, SentIsClaimed, NoParallelSend, AllTaken
<1>7. \A d : Entrusted(d)' => Entrusted(d)
  <2>1. \A d : (\E e \in queue : e.drop = d) => Entrusted(d)
    BY DEF Entrusted
  <2> QED BY <2>1, <1>1, <1>3 DEF Entrusted
<1>8. DropsInv'
  BY <1>4, <1>5, <1>6, <1>7, Winding DEF DropsInv, AnswersTruly
<1> QED BY <1>8, CustodyStutters DEF Queued, DropsOf

\* The form's handler resumes with an answer that ends it.
LEMMA FormReturnsStep ==
  ASSUME DropsInv, NEW t \in Tabs, FormReturns(t)
  PROVE  DropsInv' /\ CustodyStep
<1> DEFINE d == form[t].drop
           what == IF form[t].reply = "ok" THEN "published" ELSE "failed"
<1>1. /\ form[t] # None /\ form' = [form EXCEPT ![t] = None] /\ call[t] = None
      /\ Tell({d}, what)
      /\ UNCHANGED <<queue, call, flush, sending, url, pairing, keys, published, restarts, late, fresh, overwritten>>
  BY DEF FormReturns, AtAwait, box
<1>2. d \in Drops /\ ~Entrusted(d) /\ d \notin fresh
  BY <1>1 DEF DropsInv, DropTypes, FormHolds, Sendable
<1>3. /\ form' \in [Tabs -> Sendable \cup {None}] /\ form'[t] = None
      /\ \A s \in Tabs : s # t => form'[s] = form[s]
  BY <1>1 DEF DropsInv, DropTypes
<1>4. LeavesForm(d)
  BY <1>1, <1>2, <1>3 DEF LeavesForm, DropsInv, FormHolds
<1>5. form[t].reply = "ok" => d \in Arrived
  BY <1>1 DEF DropsInv, AnswersTruly
<1>6. Held' = Held \ {d} /\ UNCHANGED overwritten /\ UNCHANGED published
  BY <1>1, <1>2 DEF Held, Queued, DropsOf, Entrusted
<1> HIDE DEF d
<1>7. /\ told' \in [Drops -> SUBSET {"published", "expired", "failed"}]
      /\ \A x \in Drops : told'[x] = told[x] \/ LeavesForm(x)
  BY <1>1, <1>4 DEF Tell, DropsInv, DropTypes
<1>8. CustodyStep
  <2>1. CASE form[t].reply = "ok"
    <3>1. Tell({d}, "published") /\ DropTypes
      BY <1>1, <2>1 DEF DropsInv
    <3> QED BY <1>2, <1>5, <1>6, <2>1, <3>1, DeliversOne
  <2>2. CASE form[t].reply # "ok"
    <3>1. Tell({d}, "failed") /\ DropTypes
      BY <1>1, <2>2 DEF DropsInv
    <3> QED BY <1>2, <1>6, <3>1, GivesUpOne
  <2> QED BY <2>1, <2>2
<1>9. DropTypes'
  BY <1>1, <1>3, <1>7 DEF DropsInv, DropTypes
<1>10. SentIsClaimed'
  BY <1>1 DEF DropsInv, SentIsClaimed, NoParallelSend, AllTaken
<1>11. CallsHold'
  BY <1>1, <1>3 DEF DropsInv, CallsHold, CallOf, DropsOf
<1>12. \A x : Entrusted(x)' => Entrusted(x)
  BY <1>1 DEF Entrusted
<1>13. DropsInv'
  BY <1>1, <1>3, <1>7, <1>9, <1>10, <1>11, <1>12, Winding DEF DropsInv, AnswersTruly
<1> QED BY <1>8, <1>13

\* What has expired in the queue is entrusted to it.
LEMMA ExpiredDrops ==
  ASSUME DropsInv
  PROVE  /\ Queued \cap old \subseteq Drops /\ Queued \cap old \subseteq DropsOf(queue)
         /\ \A d \in Queued \cap old : Entrusted(d)
BY DEF Queued, DropsOf, DropsInv, DropTypes, Entry, Entrusted

\* It resumes with one worth repeating: the queue is read.
LEMMA FormQueuesStep ==
  ASSUME DropsInv, NEW t \in Tabs, FormQueues(t) \/ FormSaves(t)
  PROVE  DropsInv' /\ CustodyStep
<1>1. /\ form[t] # None
      /\ UNCHANGED <<queue, form, flush, sending, url, pairing, keys, published, restarts, late, fresh, told, overwritten>>
      /\ Reads(t, "save", {}) \/ Reads(t, "tidy", Queued \cap old)
  BY DEF FormQueues, FormSaves, box
<1>2. flush' \in [Tabs -> [gateway : Boxes, todo : SUBSET Entry] \cup {None}]
  BY <1>1 DEF DropsInv, DropTypes
<1>3. CASE Reads(t, "save", {})
  <2>1. call'[t] = [name |-> "save", on |-> {}, seen |-> queue]
    BY <1>3 DEF Reads, DropsInv, DropTypes
  <2>2. CallOf(t)'
    BY <1>1, <2>1 DEF CallOf
  <2> QED BY <1>1, <1>2, <1>3, <2>2, ReadsStep DEF CallName
<1>4. CASE Reads(t, "tidy", Queued \cap old)
  <2>1. call'[t] = [name |-> "tidy", on |-> Queued \cap old, seen |-> queue]
    BY <1>4 DEF Reads, DropsInv, DropTypes
  <2>2. CallOf(t)'
    BY <1>1, <2>1, ExpiredDrops DEF CallOf, DropsOf
  <2> QED BY <1>1, <1>2, <1>4, <2>2, ExpiredDrops, ReadsStep DEF CallName
<1> QED BY <1>1, <1>3, <1>4

\* Expired drops are out of the queue and told: by a form, a flush at its start, or
\* a flush at an entry.
LEMMA ExpiresStep ==
  ASSUME DropsInv, NEW t \in Tabs, TidyReturns(t) \/ LoadReturns(t) \/ ExpireReturns(t)
  PROVE  DropsInv' /\ CustodyStep
<1> DEFINE S == call[t].on
           N == overwritten' \ overwritten
<1>1. /\ call[t] # None /\ Stores(t) /\ Tell(S, "expired")
      /\ call[t].name \in {"tidy", "load", "expire"}
      /\ UNCHANGED <<sending, url, pairing, keys, published, restarts, late, fresh>>
      /\ \/ form' = form
         \/ call[t].name = "tidy" /\ form' = [form EXCEPT ![t].reply = "save"]
      /\ \/ flush' = flush
         \/ call[t].name = "load" /\ flush' = [flush EXCEPT ![t] = [gateway |-> url[t], todo |-> Edited(t)]]
  BY DEF TidyReturns, LoadReturns, ExpireReturns, InCall, box
<1>2. S \subseteq Drops /\ (\A d \in S : Entrusted(d)) /\ CallOf(t)
  BY <1>1, CallTypes
<1>3. told' = [d \in Drops |-> IF d \in S THEN told[d] \cup {"expired"} ELSE told[d]]
  BY <1>1 DEF Tell
<1>4. CustodyStep
  <2>1. Held' = Held \ (S \cup N)
    BY <1>1, StoresHeld DEF Removed
  <2>2. overwritten' = overwritten \cup N /\ N \in SUBSET Drops
    BY <1>1, StoresQueue
  <2> QED BY <1>1, <1>2, <1>3, <2>1, <2>2, GivesUp DEF DropsInv
<1>5. SentIsClaimed'
  BY <1>1, SentStays
<1>6. /\ form' \in [Tabs -> Sendable \cup {None}]
      /\ \A s \in Tabs : s # t => form'[s] = form[s]
      /\ form'[t] = None \/ (form[t] # None /\ form'[t].drop = form[t].drop
                             /\ (form'[t].reply = "ok" => form[t].reply = "ok"))
  <2>1. CASE form' = form
    BY <2>1 DEF DropsInv, DropTypes
  <2>2. CASE call[t].name = "tidy" /\ form' = [form EXCEPT ![t].reply = "save"]
    <3>1. form[t] \in Sendable /\ form[t] # None
      BY <1>2, <2>2 DEF CallOf, DropsInv, DropTypes
    <3>2. /\ [form[t] EXCEPT !.reply = "save"] \in Sendable
          /\ [form[t] EXCEPT !.reply = "save"].drop = form[t].drop
          /\ [form[t] EXCEPT !.reply = "save"].reply = "save"
      BY <3>1 DEF Sendable
    <3>3. form' = [form EXCEPT ![t] = [form[t] EXCEPT !.reply = "save"]]
      BY <2>2
    <3> QED BY <3>1, <3>2, <3>3 DEF DropsInv, DropTypes
  <2> QED BY <1>1, <2>1, <2>2
<1>7. /\ flush' \in [Tabs -> [gateway : Boxes, todo : SUBSET Entry] \cup {None}]
      /\ \A s \in Tabs : \/ flush'[s] = flush[s]
                         \/ call[t].name = "load" /\ flush'[s].todo = Edited(t)
  <2>1. CASE flush' = flush
    <3>1. flush \in [Tabs -> [gateway : Boxes, todo : SUBSET Entry] \cup {None}]
      BY DEF DropsInv, DropTypes
    <3> QED BY <2>1, <3>1
  <2>2. CASE call[t].name = "load" /\ flush' = [flush EXCEPT ![t] = [gateway |-> url[t], todo |-> Edited(t)]]
    <3> DEFINE f == [gateway |-> url[t], todo |-> Edited(t)]
    <3>1. url[t] \in Boxes
      BY <1>2, <2>2 DEF CallOf, DropsInv, DropTypes
    <3>2. f \in [gateway : Boxes, todo : SUBSET Entry] /\ f.todo = Edited(t)
      BY <1>1, <3>1, EditedQueue
    <3>3. flush' = [flush EXCEPT ![t] = f]
      BY <2>2
    <3> HIDE DEF f
    <3>4. flush \in [Tabs -> [gateway : Boxes, todo : SUBSET Entry] \cup {None}]
      BY DEF DropsInv, DropTypes
    <3> QED BY <2>2, <3>2, <3>3, <3>4
  <2> QED BY <1>1, <2>1, <2>2
<1>8. sending' \in [Tabs -> Sendable \cup {None}]
  BY <1>1 DEF DropsInv, DropTypes
<1>9. /\ told' \in [Drops -> SUBSET {"published", "expired", "failed"}]
      /\ \A x \in Drops : told'[x] = told[x] \/ Entrusted(x)
  BY <1>2, <1>3 DEF DropsInv, DropTypes
<1>10. DropsInv'
  BY <1>1, <1>5, <1>6, <1>7, <1>8, <1>9, CallReturns
<1> QED BY <1>4, <1>10

\* The drop of a form is in the queue, or the user is told it could not be saved.
LEMMA SaveReturnsStep ==
  ASSUME DropsInv, NEW t \in Tabs, SaveReturns(t)
  PROVE  DropsInv' /\ CustodyStep
<1> DEFINE d == form[t].drop
           q == call[t].seen
           N == overwritten' \ overwritten
<1>1. /\ call[t] # None /\ call[t].name = "save" /\ Stores(t) /\ form[t] # None
      /\ form' = [form EXCEPT ![t] = None]
      /\ IF d \in DropsOf(Edited(t)) THEN UNCHANGED told ELSE Tell({d}, "failed")
      /\ UNCHANGED <<flush, sending, url, pairing, keys, published, restarts, late, fresh>>
  BY CallTypes DEF SaveReturns, InCall, CallOf, box
<1>2. /\ d \in Drops /\ ~Entrusted(d) /\ d \notin fresh /\ told[d] = {}
  BY <1>1 DEF DropsInv, DropTypes, FormHolds, Sendable
<1>3. /\ form' \in [Tabs -> Sendable \cup {None}] /\ form'[t] = None
      /\ \A s \in Tabs : s # t => form'[s] = form[s]
  BY <1>1 DEF DropsInv, DropTypes
<1>4. LeavesForm(d)
  BY <1>1, <1>2, <1>3 DEF LeavesForm, DropsInv, FormHolds
<1>5. d \notin DropsOf(q) /\ d \notin Queued /\ d \notin overwritten
  BY <1>1, <1>2 DEF Entrusted, DropsOf, Queued
<1>6. q \in SUBSET Entry /\ IsFiniteSet(q)
  BY <1>1, CallTypes
<1>7. overwritten' = overwritten \cup N /\ N \in SUBSET Drops /\ d \notin overwritten'
  BY <1>1, <1>2, StoresQueue
<1>8. NewEntry(t).drop = d
  BY DEF NewEntry
<1> HIDE DEF d, q, N
<1>9. /\ told' \in [Drops -> SUBSET {"published", "expired", "failed"}]
      /\ \A x \in Drops : told'[x] = told[x] \/ LeavesForm(x)
  BY <1>1, <1>4 DEF Tell, DropsInv, DropTypes
<1>10. ASSUME d \notin DropsOf(Edited(t))
       PROVE  CustodyStep
  <2>1. Edited(t) = q
    BY <1>1, <1>8, <1>10, EditedQueue DEF DropsOf, q
  <2>2. UNCHANGED <<queue, overwritten>>
    BY <1>1, <2>1 DEF Stores, Writes, q
  <2>3. Held' = Held \ {d} /\ UNCHANGED overwritten /\ UNCHANGED published
    BY <1>1, <1>5, <2>2 DEF Held, Queued, DropsOf
  <2>4. Tell({d}, "failed") /\ DropTypes
    BY <1>1, <1>10 DEF DropsInv
  <2>5. d \in Drops
    BY <1>2
  <2> QED BY <2>3, <2>4, <2>5, GivesUpOne
<1>11. ASSUME d \in DropsOf(Edited(t))
       PROVE  CustodyStep
  <2>1. Edited(t) = q \cup {NewEntry(t)} /\ Cardinality(q) < MaxPendingDrops
    BY <1>1, <1>5, <1>11, EditedQueue DEF q
  <2>2. Writes(t)
    BY <1>5, <1>8, <2>1 DEF Writes, DropsOf, q
  <2>3. queue' = q \cup {NewEntry(t)} /\ \A x \in Drops : x \notin overwritten' => Of(q, x) = Of(queue, x)
    BY <1>1, <2>1, <2>2, StoresQueue DEF q
  <2>4. Queued' = DropsOf(q) \cup {d}
    BY <1>8, <2>3 DEF Queued, DropsOf
  <2>5. \A x \in Drops : x \notin overwritten' => (x \in DropsOf(q) <=> x \in Queued)
    BY <2>3 DEF Of, Queued, DropsOf
  <2>6. DropsOf(q) \subseteq Drops /\ Queued \subseteq Drops
    BY <1>6 DEF DropsOf, Queued, Entry, DropsInv, DropTypes
  <2>7. Held' = (Held \ N) \cup {d}
    BY <1>7, <2>4, <2>5, <2>6 DEF Held
  <2>8. Held \ N \subseteq DropsOf(q)
    BY <1>7, <2>5, <2>6 DEF Held
  <2>9. Cardinality(Held \ N) < MaxPendingDrops
    <3>1. IsFiniteSet(DropsOf(q)) /\ Cardinality(DropsOf(q)) <= Cardinality(q)
      BY <1>6, QueuedBound DEF DropsOf
    <3>2. IsFiniteSet(Held \ N) /\ Cardinality(Held \ N) <= Cardinality(DropsOf(q))
      BY <2>8, <3>1, FS_Subset
    <3>3. Cardinality(q) \in Nat /\ Cardinality(DropsOf(q)) \in Nat /\ Cardinality(Held \ N) \in Nat
      BY <1>6, <3>1, <3>2, FS_CardinalityType
    <3> QED BY <2>1, <3>1, <3>2, <3>3, DropsAssumption
  <2>10. UNCHANGED <<told, published>>
    BY <1>1, <1>11
  <2>11. d \notin Delivered /\ d \notin Abandoned
    BY <1>2 DEF Delivered, Abandoned
  <2>12. /\ Delivered' = Delivered /\ Abandoned' = Abandoned /\ Arrived' = Arrived
    BY <2>10 DEF Delivered, Abandoned, Arrived
  <2>13. d \notin Held \cup Delivered \cup (Abandoned \cup overwritten) \cup N
    BY <1>5, <1>7, <2>11 DEF Held
  <2>14. TheCustody!Take(d, N)
    BY <1>7, <2>7, <2>9, <2>12, <2>13, SameCount DEF TheCustody!Take, Held
  <2>15. \E S \in SUBSET Drops, i \in Drops : TheCustody!Take(i, S)
    BY <1>2, <1>7, <2>14
  <2> QED BY <2>15 DEF CustodyStep, TheCustody!Next
<1>12. SentIsClaimed'
  BY <1>1, SentStays
<1>13. sending' \in [Tabs -> Sendable \cup {None}] /\ flush' \in [Tabs -> [gateway : Boxes, todo : SUBSET Entry] \cup {None}]
  BY <1>1 DEF DropsInv, DropTypes
<1>14. DropsInv'
  BY <1>1, <1>3, <1>9, <1>12, <1>13, CallReturns
<1> QED BY <1>10, <1>11, <1>14

\* The queue is read for a flush.
LEMMA FlushStartsStep ==
  ASSUME DropsInv, NEW t \in Tabs, FlushStarts(t)
  PROVE  DropsInv' /\ CustodyStep
<1>1. /\ url[t] # None /\ call[t] = None
      /\ UNCHANGED <<queue, form, sending, url, pairing, keys, published, restarts, late, fresh, told, overwritten>>
      /\ \/ flush' = [flush EXCEPT ![t] = [gateway |-> url[t], todo |-> queue]] /\ UNCHANGED call
         \/ Reads(t, "load", Queued \cap old) /\ UNCHANGED flush
  BY DEF FlushStarts, AtAwait, box
<1>2. CASE Reads(t, "load", Queued \cap old) /\ UNCHANGED flush
  <2>1. call'[t] = [name |-> "load", on |-> Queued \cap old, seen |-> queue]
    BY <1>2 DEF Reads, DropsInv, DropTypes
  <2>2. CallOf(t)'
    BY <1>1, <2>1, ExpiredDrops DEF CallOf, DropsOf
  <2>3. flush' \in [Tabs -> [gateway : Boxes, todo : SUBSET Entry] \cup {None}]
    BY <1>2 DEF DropsInv, DropTypes
  <2> QED BY <1>1, <1>2, <2>2, <2>3, ExpiredDrops, ReadsStep DEF CallName
<1>3. CASE flush' = [flush EXCEPT ![t] = [gateway |-> url[t], todo |-> queue]] /\ UNCHANGED call
  <2> DEFINE f == [gateway |-> url[t], todo |-> queue]
  <2>1. f \in [gateway : Boxes, todo : SUBSET Entry] /\ f.todo = queue
    BY <1>1 DEF DropsInv, DropTypes
  <2>2. flush' = [flush EXCEPT ![t] = f]
    BY <1>3
  <2> HIDE DEF f
  <2>3. DropTypes'
    BY <1>1, <1>3, <2>1, <2>2 DEF DropsInv, DropTypes
  <2>4. \A s \in Tabs : flush'[s] = flush[s] \/ flush'[s].todo = queue
    BY <2>1, <2>2 DEF DropsInv, DropTypes
  <2>5. SentIsClaimed' /\ CallsHold'
    BY <1>1, <1>3 DEF DropsInv, SentIsClaimed, NoParallelSend, AllTaken, CallsHold, CallOf, DropsOf
  <2>6. \A d : Entrusted(d)' => Entrusted(d)
    BY <1>1, <1>3, <2>4 DEF Entrusted
  <2>7. DropsInv'
    BY <1>1, <2>3, <2>5, <2>6, Winding DEF DropsInv, AnswersTruly
  <2> QED BY <1>1, <2>7, CustodyStutters DEF Queued, DropsOf
<1> QED BY <1>1, <1>2, <1>3

\* An entry of the flush is about to expire, to be claimed, or is passed over.
LEMMA FlushStepStep ==
  ASSUME DropsInv, NEW t \in Tabs, FlushStep(t)
  PROVE  DropsInv' /\ CustodyStep
<1>1. /\ flush[t] # None /\ sending[t] = None /\ call[t] = None
      /\ UNCHANGED <<queue, form, sending, url, pairing, keys, published, restarts, late, fresh, told, overwritten>>
  BY DEF FlushStep, box
<1>2. PICK e \in flush[t].todo :
        /\ flush' = [flush EXCEPT ![t].todo = @ \ {e}]
        /\ \/ Reads(t, "expire", {e.drop})
           \/ Claimable(e.drop) /\ Reads(t, "claim", {e.drop})
           \/ UNCHANGED call
  BY DEF FlushStep
<1>3. flush[t] \in [gateway : Boxes, todo : SUBSET Entry]
  BY <1>1 DEF DropsInv, DropTypes
<1>4. e \in Entry /\ e.drop \in Drops /\ Entrusted(e.drop)
  BY <1>1, <1>3 DEF Entry, Entrusted
<1>5. /\ flush' \in [Tabs -> [gateway : Boxes, todo : SUBSET Entry] \cup {None}]
      /\ \A s \in Tabs : flush'[s] = flush[s] \/ (flush[s] # None /\ flush'[s].todo \subseteq flush[s].todo)
  <2>1. /\ [flush[t] EXCEPT !.todo = @ \ {e}] \in [gateway : Boxes, todo : SUBSET Entry]
        /\ [flush[t] EXCEPT !.todo = @ \ {e}].todo = flush[t].todo \ {e}
    BY <1>3
  <2>2. flush' = [flush EXCEPT ![t] = [flush[t] EXCEPT !.todo = @ \ {e}]]
    BY <1>2
  <2> QED BY <1>1, <2>1, <2>2 DEF DropsInv, DropTypes
<1>6. CASE Reads(t, "expire", {e.drop})
  <2>1. call'[t] = [name |-> "expire", on |-> {e.drop}, seen |-> queue]
    BY <1>6 DEF Reads, DropsInv, DropTypes
  <2>2. CallOf(t)'
    BY <2>1 DEF CallOf
  <2> QED BY <1>1, <1>4, <1>5, <1>6, <2>2, ReadsStep DEF CallName
<1>7. CASE Claimable(e.drop) /\ Reads(t, "claim", {e.drop})
  <2>1. call'[t] = [name |-> "claim", on |-> {e.drop}, seen |-> queue]
    BY <1>7 DEF Reads, DropsInv, DropTypes
  <2>2. CallOf(t)'
    BY <1>7, <2>1 DEF CallOf, Claimable
  <2> QED BY <1>1, <1>4, <1>5, <1>7, <2>2, ReadsStep DEF CallName
<1>8. CASE UNCHANGED call
  <2>1. DropTypes'
    BY <1>1, <1>5, <1>8 DEF DropsInv, DropTypes
  <2>2. SentIsClaimed' /\ CallsHold'
    BY <1>1, <1>8 DEF DropsInv, SentIsClaimed, NoParallelSend, AllTaken, CallsHold, CallOf, DropsOf
  <2>3. \A d : Entrusted(d)' => Entrusted(d)
    BY <1>1, <1>5, <1>8 DEF Entrusted
  <2>4. DropsInv'
    BY <1>1, <2>1, <2>2, <2>3, Winding DEF DropsInv, AnswersTruly
  <2> QED BY <1>1, <2>4, CustodyStutters DEF Queued, DropsOf
<1> QED BY <1>2, <1>6, <1>7, <1>8

\* A claimed entry is sent.
LEMMA ClaimReturnsStep ==
  ASSUME DropsInv, NEW t \in Tabs, ClaimReturns(t)
  PROVE  DropsInv' /\ CustodyStep
<1> DEFINE N == overwritten' \ overwritten
<1>1. /\ call[t] # None /\ call[t].name = "claim" /\ Stores(t)
      /\ UNCHANGED <<form, flush, url, pairing, keys, published, restarts, late, fresh, told>>
  BY DEF ClaimReturns, InCall, box
<1>2. PICK d \in call[t].on : sending' = [sending EXCEPT ![t] = Request(t, d)]
  BY DEF ClaimReturns
<1>3. d \in Drops /\ \E e \in call[t].seen : e.drop = d /\ ~e.taken
  BY <1>1, CallTypes DEF CallOf
<1> DEFINE r == Request(t, d)
<1>4. r \in Sendable /\ r.drop = d /\ r.reply = "wait"
  BY <1>3 DEF Request, Sendable, DropsInv, DropTypes
<1>5. sending' = [sending EXCEPT ![t] = r]
  BY <1>2
<1> HIDE DEF r
<1>6. /\ sending' \in [Tabs -> Sendable \cup {None}] /\ sending'[t] = r
      /\ \A s \in Tabs : s # t => sending'[s] = sending[s]
  BY <1>4, <1>5 DEF DropsInv, DropTypes
<1>7. overwritten' = overwritten \cup N /\ N \in SUBSET Drops
  BY <1>1, StoresQueue
<1>8. queue' = Edited(t) /\ \A x \in Drops : x \notin overwritten' => Of(call[t].seen, x) = Of(queue, x)
  <2>1. Writes(t)
    <3>1. PICK e \in call[t].seen : e.drop = d /\ ~e.taken
      BY <1>3
    <3>2. \A f \in Edited(t) : f.drop \in call[t].on => f.taken
      BY <1>1, EditedQueue
    <3>3. e \notin Edited(t)
      BY <3>1, <3>2
    <3> QED BY <3>1, <3>3 DEF Writes
  <2> QED BY <1>1, <2>1, StoresQueue
<1>9. d \notin overwritten' => \A s \in Tabs : sending[s] # None => sending[s].drop # d
  <2>1. d \notin overwritten' => ~AllTaken(queue, d)
    BY <1>3, <1>8 DEF Of, AllTaken
  <2> QED BY <1>7, <2>1 DEF DropsInv, SentIsClaimed
<1>10. SentIsClaimed'
  <2>1. ASSUME NEW s \in Tabs, sending'[s] # None, sending'[s].drop \notin overwritten'
        PROVE  AllTaken(queue', sending'[s].drop)
    <3>1. CASE s = t
      BY <1>1, <1>4, <1>6, <1>8, <3>1, EditedQueue DEF AllTaken
    <3>2. CASE s # t
      <4>1. /\ sending[s] # None /\ sending'[s].drop = sending[s].drop /\ sending[s].drop \in Drops
            /\ sending[s].drop \notin overwritten
        BY <1>6, <1>7, <2>1, <3>2 DEF DropsInv, DropTypes, Sendable
      <4>2. AllTaken(queue, sending[s].drop)
        BY <4>1 DEF DropsInv, SentIsClaimed
      <4> QED BY <1>1, <2>1, <4>1, <4>2, StoresMarks
    <3> QED BY <3>1, <3>2
  <2>2. NoParallelSend'
    BY <1>4, <1>6, <1>7, <1>9 DEF DropsInv, SentIsClaimed, NoParallelSend
  <2> QED BY <2>1, <2>2 DEF SentIsClaimed, AllTaken
<1>11. CustodyStep
  <2>1. Held' = Held \ N
    BY <1>1, StoresHeld DEF Removed
  <2>2. UNCHANGED told /\ UNCHANGED published
    BY <1>1
  <2> QED BY <1>7, <2>1, <2>2, Overwrites
<1>12. /\ form' \in [Tabs -> Sendable \cup {None}]
       /\ flush' \in [Tabs -> [gateway : Boxes, todo : SUBSET Entry] \cup {None}]
       /\ told' \in [Drops -> SUBSET {"published", "expired", "failed"}]
  BY <1>1 DEF DropsInv, DropTypes
<1>13. DropsInv'
  <2>1. form'[t] = None \/ (form[t] # None /\ form'[t].drop = form[t].drop
                            /\ (form'[t].reply = "ok" => form[t].reply = "ok"))
    BY <1>1
  <2> QED BY <1>1, <1>4, <1>6, <1>10, <1>12, <2>1, CallReturns
<1> QED BY <1>11, <1>13

\* The flush resumes: the queue is read to take the entry out, or to release it.
LEMMA FlushReturnsStep ==
  ASSUME DropsInv, NEW t \in Tabs, FlushReturns(t)
  PROVE  DropsInv' /\ CustodyStep
<1> DEFINE name == IF Settles(sending[t].reply) THEN "settle" ELSE "release"
<1>1. /\ sending[t] # None /\ Reads(t, name, {sending[t].drop})
      /\ UNCHANGED <<queue, form, flush, sending, url, pairing, keys, published, restarts, late, fresh, told, overwritten>>
  BY DEF FlushReturns, box
<1>2. name \in {"settle", "release"}
  OBVIOUS
<1> HIDE DEF name
<1>3. sending[t].drop \in Drops /\ Entrusted(sending[t].drop)
  BY <1>1 DEF DropsInv, DropTypes, Sendable, Entrusted
<1>4. call'[t] = [name |-> name, on |-> {sending[t].drop}, seen |-> queue]
  BY <1>1 DEF Reads, DropsInv, DropTypes
<1>5. CallOf(t)'
  BY <1>1, <1>2, <1>4 DEF CallOf
<1>6. flush' \in [Tabs -> [gateway : Boxes, todo : SUBSET Entry] \cup {None}]
  BY <1>1 DEF DropsInv, DropTypes
<1>7. name \in CallName
  BY <1>2 DEF CallName
<1> QED BY <1>1, <1>3, <1>5, <1>6, <1>7, ReadsStep

\* The entry is out and its end is told, or it is released.
LEMMA SendEndsStep ==
  ASSUME DropsInv, NEW t \in Tabs, SettleReturns(t) \/ ReleaseReturns(t)
  PROVE  DropsInv' /\ CustodyStep
<1> DEFINE d == sending[t].drop
           N == overwritten' \ overwritten
<1>1. /\ call[t] # None /\ call[t].name \in {"settle", "release"} /\ Stores(t)
      /\ sending' = [sending EXCEPT ![t] = None]
      /\ flush' = flush \/ flush' = [flush EXCEPT ![t] = None]
      /\ \/ /\ call[t].name = "settle"
            /\ Tell({d}, IF sending[t].reply = "ok" THEN "published" ELSE "failed")
         \/ call[t].name = "release" /\ UNCHANGED told
      /\ UNCHANGED <<form, url, pairing, keys, published, restarts, late, fresh>>
  BY DEF SettleReturns, ReleaseReturns, InCall, box
<1>2. sending[t] # None /\ call[t].on = {d} /\ d \in Drops /\ Entrusted(d)
  BY <1>1, CallTypes DEF CallOf
<1>3. sending[t].reply = "ok" => d \in Arrived
  BY <1>2 DEF DropsInv, AnswersTruly
<1>4. overwritten' = overwritten \cup N /\ N \in SUBSET Drops
  BY <1>1, StoresQueue
<1> HIDE DEF d
<1>5. CustodyStep
  <2>1. CASE call[t].name = "settle" /\ sending[t].reply = "ok"
    <3>1. Held' = Held \ ({d} \cup N)
      BY <1>1, <1>2, <2>1, StoresHeld DEF Removed
    <3> QED BY <1>1, <1>2, <1>3, <1>4, <2>1, <3>1, Delivers DEF DropsInv
  <2>2. CASE call[t].name = "settle" /\ sending[t].reply # "ok"
    <3>1. Held' = Held \ ({d} \cup N)
      BY <1>1, <1>2, <2>2, StoresHeld DEF Removed
    <3>2. told' = [x \in Drops |-> IF x \in {d} THEN told[x] \cup {"failed"} ELSE told[x]]
      BY <1>1, <2>2 DEF Tell
    <3> QED BY <1>1, <1>2, <1>4, <3>1, <3>2, GivesUp DEF DropsInv
  <2>3. CASE call[t].name = "release"
    <3>1. Held' = Held \ N
      BY <1>1, <2>3, StoresHeld DEF Removed
    <3>2. UNCHANGED told /\ UNCHANGED published
      BY <1>1, <2>3
    <3> QED BY <1>4, <3>1, <3>2, Overwrites
  <2> QED BY <1>1, <2>1, <2>2, <2>3
<1>6. /\ sending' \in [Tabs -> Sendable \cup {None}] /\ sending'[t] = None
      /\ \A s \in Tabs : s # t => sending'[s] = sending[s]
  BY <1>1 DEF DropsInv, DropTypes
<1>7. /\ flush' \in [Tabs -> [gateway : Boxes, todo : SUBSET Entry] \cup {None}]
      /\ \A s \in Tabs : flush'[s] = flush[s] \/ flush'[s] = None
  BY <1>1 DEF DropsInv, DropTypes
<1>8. /\ told' \in [Drops -> SUBSET {"published", "expired", "failed"}]
      /\ \A x \in Drops : told'[x] = told[x] \/ Entrusted(x)
  <2>1. told \in [Drops -> SUBSET {"published", "expired", "failed"}]
    BY DEF DropsInv, DropTypes
  <2>2. CASE call[t].name = "release"
    BY <1>1, <2>1, <2>2
  <2>3. ASSUME NEW what \in {"published", "failed"}, Tell({d}, what)
        PROVE  <1>8
    BY <1>2, <2>1, <2>3 DEF Tell
  <2> QED BY <1>1, <2>2, <2>3
<1>9. SentIsClaimed'
  BY <1>1, <1>6, SentStays
<1>10. form' \in [Tabs -> Sendable \cup {None}]
  BY <1>1 DEF DropsInv, DropTypes
<1>11. DropsInv'
  <2>1. form'[t] = None \/ (form[t] # None /\ form'[t].drop = form[t].drop
                            /\ (form'[t].reply = "ok" => form[t].reply = "ok"))
    BY <1>1
  <2> QED BY <1>1, <1>6, <1>7, <1>8, <1>9, <1>10, <2>1, CallReturns
<1> QED BY <1>5, <1>11

\* The handlers of the Box.
LEMMA ServesStep ==
  ASSUME DropsInv, (\E t \in Tabs : BoxServesForm(t) \/ BoxServesFlush(t)) \/ \E r \in late : BoxServesLate(r)
  PROVE  DropsInv' /\ CustodyStep
<1>1. ASSUME NEW t \in Tabs, BoxServesForm(t)
      PROVE  DropsInv' /\ CustodyStep
  <2>1. form[t] \in Sendable
    BY <1>1 DEF BoxServesForm, DropsInv, DropTypes
  <2> QED BY <1>1, <2>1, BoxServes DEF BoxServesForm
<1>2. ASSUME NEW t \in Tabs, BoxServesFlush(t)
      PROVE  DropsInv' /\ CustodyStep
  <2>1. sending[t] \in Sendable
    BY <1>2 DEF BoxServesFlush, DropsInv, DropTypes
  <2> QED BY <1>2, <2>1, BoxServes DEF BoxServesFlush
<1>3. ASSUME NEW r \in late, BoxServesLate(r)
      PROVE  DropsInv' /\ CustodyStep
  <2>1. r \in Sendable /\ r # None /\ r.box # None
    BY DEF DropsInv, DropTypes, OnTheWay
  <2>2. late' \subseteq late /\ UNCHANGED <<phone, restarts, fresh, told, overwritten>> /\ Serve(r.box, r.drop, r.auth)
    BY <1>3 DEF BoxServesLate
  <2> QED BY <2>1, <2>2, BoxServes DEF phone
<1> QED BY <1>1, <1>2, <1>3

\* A tab is closed with what it held.
LEMMA TabReloadsStep ==
  ASSUME DropsInv, NEW t \in Tabs, TabReloads(t)
  PROVE  DropsInv' /\ CustodyStep
<1>1. /\ form' = [form EXCEPT ![t] = None] /\ flush' = [flush EXCEPT ![t] = None]
      /\ sending' = [sending EXCEPT ![t] = None] /\ pairing' = [pairing EXCEPT ![t] = "idle"]
      /\ late' = late \cup OnTheWay({form[t], sending[t]})
      /\ IF form[t] = None THEN UNCHANGED told ELSE Tell({form[t].drop}, "failed")
      /\ call[t] = None
      /\ UNCHANGED <<queue, call, url, keys, published, restarts, fresh, overwritten>>
  BY DEF TabReloads, AtAwait, box
<1>2. /\ form' \in [Tabs -> Sendable \cup {None}] /\ form'[t] = None
      /\ \A s \in Tabs : s # t => form'[s] = form[s]
  BY <1>1 DEF DropsInv, DropTypes
<1>3. /\ sending' \in [Tabs -> Sendable \cup {None}]
      /\ \A s \in Tabs : sending'[s] = sending[s] \/ sending'[s] = None
  BY <1>1 DEF DropsInv, DropTypes
<1>4. /\ flush' \in [Tabs -> [gateway : Boxes, todo : SUBSET Entry] \cup {None}]
      /\ \A s \in Tabs : flush'[s] = flush[s] \/ flush'[s] = None
  BY <1>1 DEF DropsInv, DropTypes
<1>5. late' \subseteq OnTheWay(Sendable)
  BY <1>1 DEF DropsInv, DropTypes, OnTheWay
<1>6. /\ told' \in [Drops -> SUBSET {"published", "expired", "failed"}]
      /\ \A d \in Drops : told'[d] = told[d] \/ LeavesForm(d)
  <2>1. CASE form[t] = None
    BY <1>1, <2>1 DEF DropsInv, DropTypes
  <2>2. CASE form[t] # None
    <3>1. LeavesForm(form[t].drop)
      BY <1>2, <2>2 DEF LeavesForm, DropsInv, FormHolds
    <3> QED BY <1>1, <2>2, <3>1 DEF Tell, DropsInv, DropTypes
  <2> QED BY <2>1, <2>2
<1>7. CustodyStep
  <2>1. CASE form[t] = None
    BY <1>1, <2>1, CustodyStutters DEF Queued, DropsOf
  <2>2. CASE form[t] # None
    <3>1. form[t].drop \in Drops /\ form[t].drop \notin Queued
      BY <2>2 DEF DropsInv, DropTypes, Sendable, FormHolds, Entrusted, Queued, DropsOf
    <3>2. Held' = Held \ ({form[t].drop} \cup {}) /\ overwritten' = overwritten \cup {}
      BY <1>1, <3>1 DEF Held, Queued, DropsOf
    <3>3. told' = [d \in Drops |-> IF d \in {form[t].drop} THEN told[d] \cup {"failed"} ELSE told[d]]
      BY <1>1, <2>2 DEF Tell
    <3> QED BY <1>1, <3>1, <3>2, <3>3, GivesUp DEF DropsInv
  <2> QED BY <2>1, <2>2
<1>8. DropTypes'
  BY <1>1, <1>2, <1>3, <1>4, <1>5, <1>6 DEF DropsInv, DropTypes
<1>9. SentIsClaimed' /\ CallsHold'
  BY <1>1, <1>2, <1>3 DEF DropsInv, SentIsClaimed, NoParallelSend, AllTaken, CallsHold, CallOf, DropsOf, DropTypes
<1>10. \A d : Entrusted(d)' => Entrusted(d)
  BY <1>1, <1>3, <1>4 DEF Entrusted
<1>11. \A s \in Tabs : \/ sending'[s] = None \/ sending'[s].reply # "ok"
                       \/ sending[s] # None /\ sending'[s].drop = sending[s].drop /\ sending[s].reply = "ok"
  BY <1>3
<1>12. \A s \in Tabs : form'[s] = None \/ (form[s] # None /\ form'[s].drop = form[s].drop
                                            /\ (form'[s].reply = "ok" => form[s].reply = "ok"))
  BY <1>2
<1>13. DropsInv'
  BY <1>1, <1>6, <1>8, <1>9, <1>10, <1>11, <1>12, Winding
<1> QED BY <1>7, <1>13

\* The end of a flush, time, pairing and the budget of a Box leave the drops alone.
LEMMA QuietStep ==
  ASSUME DropsInv, DropsOf(queue') = DropsOf(queue), queue' \in SUBSET Entry, IsFiniteSet(queue'),
         \A t \in Tabs : sending[t] # None =>
            \A e \in queue' : e.drop = sending[t].drop => e \in queue,
         UNCHANGED <<call, form, sending, late, fresh, told, keys, published, restarts, overwritten>>,
         flush' \in [Tabs -> [gateway : Boxes, todo : SUBSET Entry] \cup {None}],
         \A t \in Tabs : flush'[t] = flush[t] \/ flush'[t] = None,
         url' \in [Tabs -> Boxes \cup {None}], pairing' \in [Tabs -> Boxes \cup {None, "idle"}],
         \A t \in Tabs : url'[t] = url[t] \/ call[t] = None
  PROVE  DropsInv' /\ CustodyStep
<1>1. DropTypes'
  BY DEF DropsInv, DropTypes
<1>2. SentIsClaimed' /\ CallsHold'
  BY DEF DropsInv, SentIsClaimed, NoParallelSend, AllTaken, CallsHold, CallOf, DropsOf
<1>3. \A d : Entrusted(d)' => Entrusted(d)
  <2>1. \A e \in queue' : \E f \in queue : f.drop = e.drop
    BY DEF DropsOf
  <2> QED BY <2>1 DEF Entrusted
<1>4. DropsInv'
  BY <1>1, <1>2, <1>3, Winding DEF DropsInv, AnswersTruly
<1> QED BY <1>4, CustodyStutters DEF Queued, DropsOf

LEMMA QuietSteps ==
  ASSUME DropsInv,
         \/ \E t \in Tabs : \/ FlushEnds(t) \/ Forget(t)
                            \/ \E b \in Boxes : SetupSubmits(t, b)
                            \/ \E ok \in BOOLEAN : SetupEnds(t, ok)
         \/ \E d \in Drops : ClaimLapses(d) \/ GrowsOld(d)
         \/ \E b \in Boxes : OthersSpend(b) \/ WindowEnds(b)
  PROVE  DropsInv' /\ CustodyStep
<1>1. /\ queue \in SUBSET Entry /\ IsFiniteSet(queue)
      /\ flush \in [Tabs -> [gateway : Boxes, todo : SUBSET Entry] \cup {None}]
      /\ url \in [Tabs -> Boxes \cup {None}] /\ pairing \in [Tabs -> Boxes \cup {None, "idle"}]
  BY DEF DropsInv, DropTypes
<1>2. ASSUME NEW t \in Tabs, FlushEnds(t)
      PROVE  DropsInv' /\ CustodyStep
  <2>1. /\ flush' = [flush EXCEPT ![t] = None]
        /\ UNCHANGED <<queue, call, form, sending, late, fresh, told, keys, published, restarts, overwritten, url, pairing>>
    BY <1>2 DEF FlushEnds, box
  <2> QED BY <1>1, <2>1, QuietStep
<1>3. ASSUME NEW t \in Tabs,
             \/ Forget(t) \/ (\E b \in Boxes : SetupSubmits(t, b)) \/ \E ok \in BOOLEAN : SetupEnds(t, ok)
      PROVE  DropsInv' /\ CustodyStep
  <2>1. /\ \E u \in Boxes \cup {None} : url' = [url EXCEPT ![t] = u]
        /\ \E p \in Boxes \cup {None, "idle"} : pairing' = [pairing EXCEPT ![t] = p]
        /\ call[t] = None
        /\ UNCHANGED <<queue, call, form, flush, sending, late, fresh, told, keys, published, restarts, overwritten>>
    <3>1. CASE Forget(t)
      BY <1>1, <3>1 DEF Forget, AtAwait, box
    <3>2. CASE \E b \in Boxes : SetupSubmits(t, b)
      BY <1>1, <3>2 DEF SetupSubmits, AtAwait, box
    <3>3. CASE \E ok \in BOOLEAN : SetupEnds(t, ok)
      BY <1>1, <3>3 DEF SetupEnds, AtAwait, box
    <3> QED BY <1>3, <3>1, <3>2, <3>3
  <2> QED BY <1>1, <2>1, QuietStep
<1>4. ASSUME NEW d \in Drops, ClaimLapses(d)
      PROVE  DropsInv' /\ CustodyStep
  <2>1. /\ queue' = Marked(queue, {d}, FALSE)
        /\ \A t \in Tabs : sending[t] # None => sending[t].drop # d
        /\ UNCHANGED <<call, form, flush, sending, late, fresh, told, keys, published, restarts, overwritten, url, pairing>>
    BY <1>4 DEF ClaimLapses, box
  <2> DEFINE q == Marked(queue, {d}, FALSE)
  <2>2. /\ q \subseteq Entry /\ IsFiniteSet(q) /\ DropsOf(q) = DropsOf(queue)
        /\ \A x : x \notin {d} => Of(q, x) = Of(queue, x)
    <3>1. queue \in SUBSET Entry /\ IsFiniteSet(queue)
      BY DEF DropsInv, DropTypes
    <3> QED BY <3>1, MarkedDrops, Zenon
  <2> HIDE DEF q
  <2>3. queue' \in SUBSET Entry /\ IsFiniteSet(queue') /\ DropsOf(queue') = DropsOf(queue)
    BY <2>1, <2>2 DEF q
  <2>4. \A t \in Tabs : sending[t] # None => \A e \in queue' : e.drop = sending[t].drop => e \in queue
    <3>1. queue' = q
      BY <2>1 DEF q
    <3> QED BY <2>1, <2>2, <3>1 DEF Of
  <2> QED BY <1>1, <2>1, <2>3, <2>4, QuietStep
<1>5. ASSUME \/ \E d \in Drops : GrowsOld(d)
             \/ \E b \in Boxes : OthersSpend(b) \/ WindowEnds(b)
      PROVE  DropsInv' /\ CustodyStep
  <2>1. UNCHANGED <<queue, call, form, flush, sending, late, fresh, told, keys, published, restarts, overwritten, url, pairing>>
    BY <1>5 DEF GrowsOld, OthersSpend, WindowEnds, phone, box
  <2> QED BY <1>1, <2>1, QuietStep
<1> QED BY <1>2, <1>3, <1>4, <1>5

\* The invariant holds at the start, where nothing is in custody.
LEMMA DropsStart ==
  ASSUME Init
  PROVE  DropsInv /\ TheCustody!Init
<1>1. DropTypes
  BY FS_EmptySet, DropsAssumption DEF Init, DropTypes
<1>2. \A t \in Tabs : form[t] = None /\ sending[t] = None /\ flush[t] = None /\ call[t] = None
  BY DEF Init
<1>3. KeysRemember
  BY DEF Init, KeysRemember
<1>4. SentIsClaimed
  BY <1>2 DEF SentIsClaimed, NoParallelSend
<1>5. FormHolds
  <2>1. fresh \subseteq Drops /\ queue = {} /\ overwritten = {} /\ \A d \in Drops : told[d] = {}
    BY DropsAssumption DEF Init
  <2>2. \A d : ~Entrusted(d)
    BY <1>2, <2>1 DEF Entrusted
  <2> QED BY <1>2, <2>1, <2>2 DEF FormHolds
<1>6. AnswersTruly
  BY <1>2 DEF AnswersTruly
<1>7. CallsHold
  BY <1>2 DEF CallsHold
<1>8. TheCustody!Init
  BY DEF Init, TheCustody!Init, Queued, DropsOf, Arrived, Delivered, Abandoned
<1> QED BY <1>1, <1>3, <1>4, <1>5, <1>6, <1>7, <1>8 DEF DropsInv

\* One case per action.
LEMMA DropsStep ==
  ASSUME DropsInv, [Next]_vars
  PROVE  DropsInv' /\ CustodyStep
<1>1. ASSUME NEW t \in Tabs,
             \/ \E d \in Drops : Submit(t, d)
             \/ BoxServesForm(t) \/ BoxServesFlush(t) \/ FormFails(t) \/ FormReturns(t)
             \/ FormQueues(t) \/ TidyReturns(t) \/ FormSaves(t) \/ SaveReturns(t)
             \/ FlushStarts(t) \/ LoadReturns(t) \/ FlushStep(t) \/ ExpireReturns(t) \/ ClaimReturns(t)
             \/ SendFails(t) \/ FlushReturns(t) \/ SettleReturns(t) \/ ReleaseReturns(t)
             \/ TabReloads(t)
      PROVE  DropsInv' /\ CustodyStep
  BY <1>1, SubmitStep, ServesStep, FormFailsStep, FormReturnsStep, FormQueuesStep, ExpiresStep,
     SaveReturnsStep, FlushStartsStep, FlushStepStep, ClaimReturnsStep, SendFailsStep,
     FlushReturnsStep, SendEndsStep, TabReloadsStep
<1>2. ASSUME NEW t \in Tabs,
             FlushEnds(t) \/ Forget(t) \/ (\E b \in Boxes : SetupSubmits(t, b)) \/ \E ok \in BOOLEAN : SetupEnds(t, ok)
      PROVE  DropsInv' /\ CustodyStep
  BY <1>2, QuietSteps
<1>3. ASSUME NEW d \in Drops, ClaimLapses(d) \/ GrowsOld(d)
      PROVE  DropsInv' /\ CustodyStep
  BY <1>3, QuietSteps
<1>4. ASSUME NEW b \in Boxes, BoxRestarts(b) \/ OthersSpend(b) \/ WindowEnds(b)
      PROVE  DropsInv' /\ CustodyStep
  BY <1>4, RestartStep, QuietSteps
<1>5. ASSUME NEW r \in late, BoxServesLate(r)
      PROVE  DropsInv' /\ CustodyStep
  BY <1>5, ServesStep
<1>6. CASE UNCHANGED vars
  BY <1>6, CustodyStutters DEF vars, phone, box, DropsInv, DropTypes, KeysRemember, SentIsClaimed,
     NoParallelSend, AllTaken, FormHolds, Entrusted, AnswersTruly, Arrived, CallsHold, CallOf, DropsOf, Queued
<1> QED BY <1>1, <1>2, <1>3, <1>4, <1>5, <1>6 DEF Next

\* The queue implements Custody, whatever the Boxes answer, however late, and
\* whichever tabs are reloaded, paired anew or flush at the same time; a drop whose
\* entry one tab wrote back over another's change of it counts as given up.
THEOREM QueueKeepsCustody == Spec => KeepsCustody
<1>1. Init => DropsInv /\ TheCustody!Init
  BY DropsStart
<1>2. DropsInv /\ [Next]_vars => DropsInv' /\ [TheCustody!Next]_(TheCustody!vars)
  BY DropsStep DEF CustodyStep
<1> QED BY <1>1, <1>2, PTL DEF Spec, KeepsCustody, TheCustody!Spec

\* What the invariant says of publications and of entries on their way.
LEMMA DropsPublish ==
  ASSUME DropsInv
  PROVE  PublishedOnce /\ NoParallelSend
<1>1. PublishedOnce
  <2> SUFFICES ASSUME NEW b \in Boxes, NEW d \in Drops
               PROVE  published[b][d] <= 1 + restarts[b]
    BY DEF PublishedOnce
  <2>1. published[b][d] \in Nat /\ restarts[b] \in Nat
    BY DEF DropsInv, DropTypes
  <2> QED BY <2>1 DEF DropsInv, KeysRemember
<1>2. NoParallelSend
  BY DEF DropsInv, SentIsClaimed
<1> QED BY <1>1, <1>2

\* No Box puts a drop on the mesh twice without a restart in between.
THEOREM BoxPublishesOnce == Spec => []PublishedOnce
<1>1. DropsInv => PublishedOnce
  BY DropsPublish
<1>2. Init => DropsInv
  BY DropsStart
<1>3. DropsInv /\ [Next]_vars => DropsInv'
  BY DropsStep
<1> QED BY <1>1, <1>2, <1>3, PTL DEF Spec

\* No two tabs have one entry on its way, unless a tab wrote the queue back over a
\* change of that entry it had not seen.
THEOREM ClaimsSeparate == Spec => []NoParallelSend
<1>1. DropsInv => NoParallelSend
  BY DropsPublish
<1>2. Init => DropsInv
  BY DropsStart
<1>3. DropsInv /\ [Next]_vars => DropsInv'
  BY DropsStep
<1> QED BY <1>1, <1>2, <1>3, PTL DEF Spec

-----------------------------------------------------------------------------
(* The phone as a whole: the drops beside its SOS and the pages. *)

\* The SOS of the phone are sound in a behaviour about them.
SosSound == which = "sos" => Sos!SosInv

\* A step of the phone is one of its drops, or leaves them alone; the same of its SOS.
LEMMA OneComponentSteps ==
  ASSUME [MCNext]_mcVars
  PROVE  [Next]_vars /\ UNCHANGED which /\ (which = "sos" => [Sos!Next]_(Sos!vars))
<1>1. UNCHANGED dropsVars => UNCHANGED vars
  BY DEF dropsVars, vars, phone, box
<1>2. UNCHANGED sosVars => UNCHANGED Sos!vars
  BY DEF sosVars, Sos!vars
<1>3. CASE MCNext
  BY <1>1, <1>2, <1>3 DEF MCNext
<1>4. CASE UNCHANGED mcVars
  BY <1>1, <1>2, <1>4 DEF mcVars
<1> QED BY <1>3, <1>4

\* An SOS of the phone is held until the user is told its end, once, and neither an SOS nor
\* a drop is published again but for a doubt about the first time.
THEOREM PhoneHolds == MCSpec => []PhonePublishesOnce
<1>1. MCInit => DropsInv /\ SosSound
  BY DropsStart, SosConstants, Sos!InitSound DEF MCInit, SosSound
<1>2. DropsInv /\ SosSound /\ [MCNext]_mcVars => (DropsInv /\ SosSound)'
  BY OneComponentSteps, DropsStep, SosConstants, Sos!SosStep DEF SosSound
<1>3. DropsInv /\ SosSound => PhonePublishesOnce
  BY DropsPublish DEF PhonePublishesOnce, SosSound, Sos!SosInv, Sos!OneBeaconUnlessInDoubt, Sos!BeaconsAccounted
<1> QED BY <1>1, <1>2, <1>3, PTL DEF MCSpec
=============================================================================
