---------------------------- MODULE ContentFetch ----------------------------
(***************************************************************************)
(* getContent() of one content id over the mesh: the query, the split of   *)
(* the transfer between providers, retries, assembly, and the local calls  *)
(* that wait for it.                                                       *)
(*                                                                         *)
(*   node/src/node.ts     getContent(), handleContent*(), abandonFetch(),  *)
(*                        tryKeepFetchesGoing(), tryAssembleAndResolve()   *)
(*   node/src/content.ts  ChunkAssembler, chunksFor()                      *)
(*                                                                         *)
(* Providers are honest: their chunks verify.  Between the requester and a *)
(* provider packets arrive in order, however late; a timer may fire at any *)
(* time.                                                                   *)
(***************************************************************************)
EXTENDS Integers, Sequences, FiniteSets

CONSTANTS
  Provider,
  Call,           \* the local calls of getContent()
  Total,          \* number of chunks of the content
  Estimates,      \* chunkCountForSize() of the sizes a CONTENT_FOUND may claim
  MaxFetches,     \* MAX_CONCURRENT_CONTENT_FETCHES
  MaxCandidates,  \* MAX_CONTENT_CANDIDATES
  MaxFaults       \* bound on timeouts and on providers losing the content

\* What the constants are assumed to be.
FetchAssumption ==
  /\ Total \in Nat \ {0}
  /\ Estimates \subseteq Nat \ {0}
  /\ MaxFetches \in Nat \ {0}
  /\ MaxCandidates \in Nat
  /\ MaxFaults \in Nat

VARIABLES
  call,      \* [Call -> "idle" | "waiting" | "resolved" | "timedOut" | "rejected"]
  entry,     \* pendingContentRequests.get(contentId), or NoEntry
  assembly,  \* chunks the requesterAssembler holds
  stored,    \* contentStore.has(contentId) at the requester
  has,       \* providers that hold the content
  toP,       \* [Provider -> Seq of packets to it]
  fromP,     \* [Provider -> Seq of packets from it]
  round,     \* number of queries flooded so far, history
  faults

vars == <<call, entry, assembly, stored, has, toP, fromP, round, faults>>

Chunk == 0..(Total - 1)

Query           == [type |-> "query"]
Request(s, e)   == [type |-> "request", start |-> s, end |-> e]
Found           == [type |-> "found"]
NotFound        == [type |-> "notFound"]
ChunkPacket(i)  == [type |-> "chunk", index |-> i]
Complete        == [type |-> "complete"]

\* PendingContentEntry as getContent() creates it; total = 0 is "unknown".
FreshEntry ==
  [pending |-> TRUE, sized |-> FALSE, total |-> 0, received |-> {},
   active |-> <<>>, unassigned |-> <<>>, high |-> -1, candidates |-> <<>>]

NoEntry == [FreshEntry EXCEPT !.pending = FALSE]

Waiting == {c \in Call : call[c] = "waiting"}

RangeOf(r) == r.start .. r.end

\* Removes p from activeFetches.
Without(active, p) == [q \in DOMAIN active \ {p} |-> active[q]]

Min2(x, y) == IF x < y THEN x ELSE y

-----------------------------------------------------------------------------
\* requestRangeFromProvider(): the providers ps are put to work on ranges[p].
Assigned(e, ps, ranges) ==
  [e EXCEPT !.active = [p \in DOMAIN @ \cup ps |-> IF p \in ps THEN ranges[p] ELSE @[p]]]

\* The CONTENT_REQUESTs that take activeFetches from before to after.
SendRequests(channels, before, after) ==
  [p \in Provider |->
     IF p \in DOMAIN after.active \ DOMAIN before.active
     THEN Append(channels[p], Request(after.active[p].start, after.active[p].end))
     ELSE channels[p]]

\* Mutant of FreeSlots: the number of concurrent fetches is not limited.
FreeSlotsAny(e) == Cardinality(Provider)

FreeSlots(e) == MaxFetches - Cardinality(DOMAIN e.active)

\* tryAssignUnassignedRange() for a provider that is not fetching.
TryAssign(e, p) ==
  IF FreeSlots(e) > 0 /\ e.unassigned # <<>>
  THEN Assigned([e EXCEPT !.unassigned = Tail(@)], {p}, [q \in {p} |-> Head(e.unassigned)])
  ELSE e

\* The loop of tryKeepFetchesGoing(): the first k candidates get the first k
\* unassigned ranges, as many as there are of both and of free slots.
OfferToCandidates(e) ==
  LET k    == Min2(FreeSlots(e), Min2(Len(e.candidates), Len(e.unassigned)))
      next == {e.candidates[i] : i \in 1..k}
      Nth(p) == CHOOSE i \in 1..k : e.candidates[i] = p
  IN
  Assigned([e EXCEPT !.unassigned = SubSeq(@, k + 1, Len(@)),
                     !.candidates = SubSeq(@, k + 1, Len(@))],
           next, [p \in next |-> e.unassigned[Nth(p)]])

\* Mutant of KeepFetchesGoing: a provider that finished is not asked again.
KeepFetchesGoingOnlyCandidates(e, p) == OfferToCandidates(e)

\* tryKeepFetchesGoing(entry, p): then the provider that just finished.
KeepFetchesGoing(e, p) == TryAssign(OfferToCandidates(e), p)

\* Mutant of Abandoned: the range of the dead fetch is discarded.
AbandonedForGood(e, p) ==
  OfferToCandidates([e EXCEPT !.active = Without(@, p)])

\* abandonFetch(): the range goes back, the candidates are offered it.
Abandoned(e, p) ==
  OfferToCandidates([e EXCEPT !.active = Without(@, p),
                              !.unassigned = Append(@, e.active[p])])

-----------------------------------------------------------------------------
\* getContent(): answered from the store, or a waiter of the pending entry; the
\* first one creates the entry and floods the query.
GetContent(c) ==
  /\ call[c] = "idle"
  /\ IF stored
     THEN call' = [call EXCEPT ![c] = "resolved"] /\ UNCHANGED <<entry, toP>>
     ELSE /\ call' = [call EXCEPT ![c] = "waiting"]
          /\ IF entry.pending
             THEN UNCHANGED <<entry, toP>>
             ELSE /\ entry' = FreshEntry
                  /\ toP' = [p \in Provider |-> Append(toP[p], Query)]
  /\ round' = IF entry.pending \/ stored THEN round ELSE round + 1
  /\ UNCHANGED <<assembly, stored, has, fromP, faults>>

\* Mutant of WaiterTimeout: the last waiter leaves the entry behind.
WaiterTimeoutLeaks(c) ==
  /\ faults < MaxFaults
  /\ call[c] = "waiting"
  /\ call' = [call EXCEPT ![c] = "timedOut"]
  /\ faults' = faults + 1
  /\ UNCHANGED <<entry, assembly, stored, has, toP, fromP, round>>

\* A waiter's timeout; the last one to give up deletes the entry.
WaiterTimeout(c) ==
  /\ faults < MaxFaults
  /\ call[c] = "waiting"
  /\ call' = [call EXCEPT ![c] = "timedOut"]
  /\ entry' = IF Waiting = {c} THEN NoEntry ELSE entry
  /\ faults' = faults + 1
  /\ UNCHANGED <<assembly, stored, has, toP, fromP, round>>

\* A provider's copy expires or is evicted.
LoseContent(p) ==
  /\ faults < MaxFaults
  /\ p \in has
  /\ has' = has \ {p}
  /\ faults' = faults + 1
  /\ UNCHANGED <<call, entry, assembly, stored, toP, fromP, round>>

\* handleContentQuery() at p: only who has the content answers.
HandleQuery(p) ==
  /\ toP[p] # <<>> /\ Head(toP[p]) = Query
  /\ toP' = [toP EXCEPT ![p] = Tail(@)]
  /\ fromP' = IF p \in has THEN [fromP EXCEPT ![p] = Append(@, Found)] ELSE fromP
  /\ UNCHANGED <<call, entry, assembly, stored, has, round, faults>>

\* The chunks handleContentRequest() sends for a range, clamped to what there is.
ChunksSent(r) ==
  LET first == Min2(r.start, Total - 1)
      last  == IF r.end >= first THEN Min2(r.end, Total - 1) ELSE Total - 1
  IN  [i \in 1..(last - first + 1) |-> ChunkPacket(first + i - 1)]

\* handleContentRequest() at p.
HandleRequest(p) ==
  /\ toP[p] # <<>> /\ Head(toP[p]).type = "request"
  /\ toP' = [toP EXCEPT ![p] = Tail(@)]
  /\ fromP' = [fromP EXCEPT ![p] =
                 @ \o IF p \in has THEN Append(ChunksSent(Head(toP[p])), Complete)
                      ELSE <<NotFound>>]
  /\ UNCHANGED <<call, entry, assembly, stored, has, round, faults>>

\* The next packet from p is of this type.
Receives(p, type) == fromP[p] # <<>> /\ Head(fromP[p]).type = type

\* The packet is consumed; the entry becomes e, and the requests that takes
\* leave.  before is the entry once the fetch that ended is removed.
Consume(p, before, e) ==
  /\ fromP' = [fromP EXCEPT ![p] = Tail(@)]
  /\ entry' = e
  /\ toP' = SendRequests(toP, before, e)

Fetching(p) == entry.pending /\ p \in DOMAIN entry.active

\* The first CONTENT_FOUND splits the transfer: the front half to this
\* provider, the back half to whoever is available next.
Sized(e, p, est) ==
  LET mid   == (est + 1) \div 2
      front == [start |-> 0, end |-> IF est > 1 THEN mid - 1 ELSE est - 1]
  IN
  Assigned([e EXCEPT !.sized = TRUE, !.high = est - 1,
                     !.unassigned = IF est > 1
                                    THEN Append(@, [start |-> mid, end |-> est - 1])
                                    ELSE @],
           {p}, [q \in {p} |-> front])

\* handleContentFound(): a later reply gets an unassigned range, or waits as a
\* candidate.
HandleFound(p) ==
  /\ Receives(p, "found")
  /\ IF ~entry.pending \/ Fetching(p) \/ p \in {entry.candidates[i] : i \in DOMAIN entry.candidates}
     THEN Consume(p, entry, entry)
     ELSE IF ~entry.sized
     THEN \E est \in Estimates : Consume(p, entry, Sized(entry, p, est))
     ELSE IF FreeSlots(entry) > 0 /\ entry.unassigned # <<>>
     THEN Consume(p, entry, TryAssign(entry, p))
     ELSE Consume(p, entry,
                  IF Len(entry.candidates) < MaxCandidates
                  THEN [entry EXCEPT !.candidates = Append(@, p)] ELSE entry)
  /\ UNCHANGED <<call, assembly, stored, has, round, faults>>

\* handleContentNotFound(): abandonFetch(), unless p is not fetching for us.
HandleNotFound(p) ==
  /\ Receives(p, "notFound")
  /\ IF Fetching(p)
     THEN Consume(p, [entry EXCEPT !.active = Without(@, p)], Abandoned(entry, p))
     ELSE Consume(p, entry, entry)
  /\ UNCHANGED <<call, assembly, stored, has, round, faults>>

\* The timer of p's fetch: contentProviderTimeoutMs without a chunk from it.
FetchTimeout(p) ==
  /\ faults < MaxFaults
  /\ Fetching(p)
  /\ entry' = Abandoned(entry, p)
  /\ toP' = SendRequests(toP, [entry EXCEPT !.active = Without(@, p)], entry')
  /\ faults' = faults + 1
  /\ UNCHANGED <<call, assembly, stored, has, fromP, round>>

\* Mutant of WithChunk: the provider that revealed the gap is put to work on it
\* while its own range is still arriving.
WithChunkReassigns(e, p, i) ==
  IF e.total = 0 /\ Total - 1 > e.high
  THEN [e EXCEPT !.received = @ \cup {i}, !.total = Total, !.high = Total - 1,
                 !.active[p] = [start |-> e.high + 1, end |-> Total - 1]]
  ELSE [e EXCEPT !.received = @ \cup {i}, !.total = Total]

\* The entry after an accepted chunk: the first one reveals the real total, and
\* with it a gap the estimate left.
WithChunk(e, p, i) ==
  [e EXCEPT !.received = @ \cup {i},
            !.total = Total,
            !.unassigned = IF e.total = 0 /\ Total - 1 > e.high
                           THEN Append(@, [start |-> e.high + 1, end |-> Total - 1]) ELSE @,
            !.high = IF e.total = 0 /\ Total - 1 > @ THEN Total - 1 ELSE @]

\* handleContentChunk(): ignored from a provider that is not fetching for a
\* pending entry; with no entry pending it still goes to the assembler.
HandleChunk(p) ==
  /\ Receives(p, "chunk")
  /\ LET i == Head(fromP[p]).index IN
     IF Fetching(p)
     THEN /\ assembly' = assembly \cup {i}
          /\ Consume(p, entry, WithChunk(entry, p, i))
     ELSE /\ assembly' = IF entry.pending THEN assembly ELSE assembly \cup {i}
          /\ Consume(p, entry, entry)
  /\ UNCHANGED <<call, stored, has, round, faults>>

\* Mutant of HaveAll: off by one.
HaveAllOffByOne(e) == Cardinality(e.received) >= e.total - 1

HaveAll(e) == Cardinality(e.received) >= e.total

\* tryComplete() of the assembler: every chunk is there, and the whole has the
\* hash it was asked for.
TryComplete == assembly = Chunk

\* tryAssembleAndResolve(): complete and verified, settled for good, or still
\* waiting; e is what the entry becomes in the last case.
AssembleAndResolve(p, before, e) ==
  LET settle(outcome) ==
        /\ call' = [c \in Call |-> IF c \in Waiting THEN outcome ELSE call[c]]
        /\ fromP' = [fromP EXCEPT ![p] = Tail(@)]
        /\ toP' = SendRequests(toP, before, e)
        /\ entry' = NoEntry
  IN
  IF e.total # 0 /\ TryComplete
  THEN settle("resolved") /\ stored' = TRUE /\ assembly' = {}
  ELSE IF e.total # 0 /\ HaveAll(e)
  THEN settle("rejected") /\ UNCHANGED <<stored, assembly>>
  ELSE Consume(p, before, e) /\ UNCHANGED <<call, stored, assembly>>

\* handleContentComplete(): p's fetch is over; it, or a candidate, goes on with
\* what is unassigned, and the assembly is tried.
HandleComplete(p) ==
  /\ Receives(p, "complete")
  /\ IF Fetching(p)
     THEN LET before == [entry EXCEPT !.active = Without(@, p)] IN
          AssembleAndResolve(p, before, KeepFetchesGoing(before, p))
     ELSE /\ Consume(p, entry, entry)
          /\ UNCHANGED <<call, stored, assembly>>
  /\ UNCHANGED <<has, round, faults>>

-----------------------------------------------------------------------------
Init ==
  /\ call = [c \in Call |-> "idle"]
  /\ entry = NoEntry
  /\ assembly = {}
  /\ stored = FALSE
  /\ has \in (SUBSET Provider) \ {{}}
  /\ toP = [p \in Provider |-> <<>>]
  /\ fromP = [p \in Provider |-> <<>>]
  /\ round = 0
  /\ faults = 0

Next ==
  \/ \E c \in Call : GetContent(c) \/ WaiterTimeout(c)
  \/ \E p \in Provider :
       \/ HandleQuery(p) \/ HandleRequest(p) \/ LoseContent(p) \/ FetchTimeout(p)
       \/ HandleFound(p) \/ HandleNotFound(p) \/ HandleChunk(p) \/ HandleComplete(p)

Spec == Init /\ [][Next]_vars

-----------------------------------------------------------------------------
\* Types; and an entry is pending exactly while some call waits for it, so that
\* none is leaked by its last waiter or outlived by one.
TypeOK ==
  /\ call \in [Call -> {"idle", "waiting", "resolved", "timedOut", "rejected"}]
  /\ entry.pending <=> Waiting # {}
  /\ entry.received \subseteq Chunk
  /\ entry.total \in {0, Total}
  /\ \A p \in DOMAIN entry.active : p \in Provider /\ entry.active[p].start <= entry.active[p].end
  /\ assembly \subseteq Chunk
  /\ has \subseteq Provider
  /\ faults \in 0..MaxFaults

\* At most MAX_CONCURRENT_CONTENT_FETCHES providers fetch at once, and only
\* providers that are not waiting as candidates.
FetchesBounded ==
  entry.pending =>
    /\ Cardinality(DOMAIN entry.active) <= MaxFetches
    /\ \A i \in DOMAIN entry.candidates : entry.candidates[i] \notin DOMAIN entry.active

\* A chunk that has not arrived belongs to the range of an active fetch or is
\* unassigned, so that somebody can still be asked for it.
NoChunkForgotten ==
  entry.pending /\ entry.sized =>
    \A i \in ((0..entry.high) \cap Chunk) \ entry.received :
      \/ \E p \in DOMAIN entry.active : i \in RangeOf(entry.active[p])
      \/ \E j \in DOMAIN entry.unassigned : i \in RangeOf(entry.unassigned[j])

\* For the first request of a content: splits, retries, late packets and a real
\* total above the estimate forget no part of the transfer.
FirstRoundForgetsNothing == round = 1 => NoChunkForgotten

Quiet == \A p \in Provider : toP[p] = <<>> /\ fromP[p] = <<>>

\* The comment of handleContentComplete(): "a late COMPLETE from an abandoned
\* fetch must never be allowed to interrupt a different attempt genuinely in
\* progress" - once every packet has been handled, no missing chunk is left that
\* no fetch covers and no range names.
QuietForgetsNothing == Quiet => NoChunkForgotten

Sends(seq, m) == \E j \in DOMAIN seq : seq[j] = m

\* An active fetch is a fetch somebody works on: every chunk of its range the
\* node still misses is on its way, or the request is, or the refusal is (first
\* request of a content).
FetchBacked ==
  entry.pending /\ round = 1 => \A p \in DOMAIN entry.active :
    \/ Sends(toP[p], Request(entry.active[p].start, entry.active[p].end))
    \/ Sends(fromP[p], NotFound)
    \/ /\ Sends(fromP[p], Complete)
       /\ \A i \in (RangeOf(entry.active[p]) \cap Chunk) \ entry.received :
            Sends(fromP[p], ChunkPacket(i))

\* With honest providers no call is rejected: the chunk count and the assembler
\* never disagree on whether all is there, also when an earlier transfer of
\* the same content left chunks behind.
NeverRejected == \A c \in Call : call[c] # "rejected"

\* When nothing went wrong, a call is not left waiting once all packets have
\* been handled: one provider alone is asked for both halves, and whoever has the
\* content is enough.
FaultFreeCompletes ==
  faults = 0 /\ Quiet => Waiting = {}

-----------------------------------------------------------------------------
(* What makes these hold at every step.                                      *)

Span == {r \in [start : Nat, end : Nat] : r.start <= r.end}
Candidates(e) == {e.candidates[i] : i \in DOMAIN e.candidates}
Asked == {Query} \cup {m \in [type : {"request"}, start : Nat, end : Nat] : m.start <= m.end}
Told == {Found, NotFound, Complete} \cup {ChunkPacket(i) : i \in Chunk}

\* An entry has a slot for each of its fetches, and its candidates are others.
EntrySound(e) ==
  /\ e \in [pending : BOOLEAN, sized : BOOLEAN, total : {0, Total}, received : SUBSET Chunk,
            active : {e.active}, unassigned : Seq(Span), candidates : Seq(Provider),
            high : {-1} \cup Nat]
  /\ DOMAIN e.active \subseteq Provider /\ e.active \in [DOMAIN e.active -> Span]
  /\ IsFiniteSet(DOMAIN e.active) /\ Cardinality(DOMAIN e.active) <= MaxFetches
  /\ \A i \in DOMAIN e.candidates : e.candidates[i] \notin DOMAIN e.active
  /\ \A i, j \in DOMAIN e.candidates : e.candidates[i] = e.candidates[j] => i = j
  /\ ~e.sized => /\ DOMAIN e.active = {} /\ e.unassigned = <<>> /\ e.candidates = <<>>
                 /\ e.received = {} /\ e.total = 0

\* What has been received is in the assembler, and somebody waits for a pending entry.
CallsSound ==
  /\ call \in [Call -> {"idle", "waiting", "resolved", "timedOut"}]
  /\ entry.pending <=> Waiting # {}
  /\ ~entry.pending => entry = NoEntry
  /\ entry.received \subseteq assembly /\ assembly \subseteq Chunk
  /\ has \subseteq Provider /\ faults \in 0..MaxFaults /\ round \in Nat
  /\ toP \in [Provider -> Seq(Asked)] /\ fromP \in [Provider -> Seq(Told)]
  /\ round = 0 => ~entry.pending /\ \A p \in Provider : toP[p] = <<>> /\ fromP[p] = <<>>

\* The packets that are to answer a request for the range r: the chunks that e lacks of it,
\* then the end.
Delivers(e, s, r) ==
  /\ Len(s) > 0 /\ s[Len(s)] = Complete
  /\ \A i \in 1..(Len(s) - 1) : s[i].type = "chunk"
  /\ \A i \in (RangeOf(r) \cap Chunk) \ e.received : Sends(s, ChunkPacket(i))
  /\ Len(s) = 1 => e.total # 0

\* p, asked by q and answering with s, works on its range.
Works(e, p, q, s) ==
  \/ q = <<Request(e.active[p].start, e.active[p].end)>> /\ s = <<>>
  \/ q = <<>> /\ (s = <<NotFound>> \/ Delivers(e, s, e.active[p]))

Asks(q, s) == q = <<Query>> /\ s = <<>>
Answers(q, s) == q = <<>> /\ s = <<Found>>
Spent(q, s) == ~Sends(q, Query) /\ ~Sends(s, Found)

\* In the first round a provider is still to be asked, works, waits, or is done with.
Standing(e, p, q, s) ==
  IF p \in DOMAIN e.active THEN Works(e, p, q, s)
  ELSE IF p \in Candidates(e) THEN q = <<>> /\ s = <<>>
  ELSE Asks(q, s) \/ Answers(q, s) \/ Spent(q, s)

\* A chunk of the content that e still lacks has somebody to ask for it.
Covers(e, i) ==
  \/ \E p \in DOMAIN e.active : i \in RangeOf(e.active[p])
  \/ \E j \in DOMAIN e.unassigned : i \in RangeOf(e.unassigned[j])

FirstRound ==
  round = 1 /\ entry.pending =>
    /\ \A p \in Provider : Standing(entry, p, toP[p], fromP[p])
    /\ \A i \in ((0..entry.high) \cap Chunk) \ entry.received : Covers(entry, i)
    /\ entry.total # 0 => entry.high >= Total - 1

\* Without a fault one round is enough, and somebody is always at work.
FaultFree ==
  faults = 0 =>
    /\ has # {} /\ round <= 1 /\ (round = 1 /\ ~entry.pending => stored)
    /\ DOMAIN entry.active \cup Candidates(entry) \subseteq has
    /\ \A p \in Provider : ~Sends(fromP[p], NotFound)
    /\ \A p \in Provider \ has : fromP[p] = <<>> /\ toP[p] \in {<<>>, <<Query>>}
    /\ entry.pending =>
         IF entry.sized THEN DOMAIN entry.active # {}
         ELSE \A p \in has : Asks(toP[p], fromP[p]) \/ Answers(toP[p], fromP[p])

FetchInv == EntrySound(entry) /\ CallsSound /\ FirstRound /\ FaultFree
=============================================================================
