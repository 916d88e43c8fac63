------------------------------ MODULE TileService -----------------------------
(***************************************************************************)
(* The world tiles of the design tool (tools/map-data/tile-service.ts over *)
(* tile-cache.ts and tile-builder.ts): callers ask for tiles; one that is  *)
(* on disk is served, any other is built once for all who wait, in at most *)
(* Concurrency slots, behind a queue and an hourly limit. A build that     *)
(* exceeds its time fails for its callers while the work goes on and keeps *)
(* the slot. The cache is trimmed to Cap tiles, the oldest first, sparing  *)
(* those served lately. Every tile has size 1; time is in ticks.           *)
(***************************************************************************)
EXTENDS Naturals, Sequences, FiniteSets, SequencesExt

CONSTANTS Tiles,          \* the valid tile indexes
          Callers,        \* requests a browser can have open at once
          Concurrency, MaxQueue, MaxNewPerHour, MaxFailures,
          Cap,            \* capBytes, in tiles
          Hour, Protect, EnforceEvery,   \* the three spans of time, in ticks
          MaxNow          \* bound on time

VARIABLES now,
          disk,           \* [Tiles -> "none" | "good" | "garbled" | "shapeless"]
          mtime,          \* the tiles of the directory, the oldest first
          verified, recent,   \* recent: [tile, at] in the order of service
          job,            \* [Tiles -> "none" | "queued" | "building"]: inflight
          late,           \* [Tiles -> Nat]: works that outlived their request
          waiting, running, inProgress, builtAt, failedAt,
          lastEnforce, builtSinceEnforce, enforceTimer,
          caller          \* [Callers -> [wants, got]]

disks == <<disk, mtime, verified, recent>>
slots == <<job, late, waiting, running, inProgress, builtAt, failedAt>>
caps  == <<lastEnforce, builtSinceEnforce, enforceTimer>>
vars  == <<now, disks, slots, caps, caller>>

NoTile == "none"
Idle == [wants |-> NoTile, got |-> NoTile]

Init ==
  /\ now = EnforceEvery   \* the first check is never too early
  /\ disk \in [Tiles -> {"none", "good"}]
  /\ mtime \in SetToSeqs({t \in Tiles : disk[t] # "none"})
  /\ verified = {} /\ recent = << >>
  /\ job = [t \in Tiles |-> "none"] /\ late = [t \in Tiles |-> 0]
  /\ waiting = << >> /\ running = 0 /\ inProgress = 0
  /\ builtAt = << >> /\ failedAt = << >>
  /\ lastEnforce = 0 /\ builtSinceEnforce = FALSE /\ enforceTimer = FALSE
  /\ caller = [c \in Callers |-> Idle]

------------------------------------------------------------------------------
(* The directory *)

(* DirTileStore.has *)
Has(t) == disk[t] # "none"

(* DirTileStore.get, with nothing in memory: the file decodes to the tile *)
Decodes(t) == disk[t] = "good"

(* DirTileStore.isValid, which puts the memory aside *)
IsValid(t) == Has(t) /\ Decodes(t)

(* DirTileStore.put: written aside and renamed, so whole or not at all *)
Put(t) == [disk EXCEPT ![t] = "good"]

(* the shape that read checks: a size and the two bytes of gzip *)
HasShape(t) == disk[t] \in {"good", "garbled"}

(* the file of t is the newest *)
Touched(t, files) == Append(SelectSeq(files, LAMBDA f : f # t), t)
Without(t, files) == SelectSeq(files, LAMBDA f : f # t)

(* what read leaves in recent: t last, the stale ones at its head dropped *)
Remembered(t) ==
  LET all == Append(SelectSeq(recent, LAMBDA r : r.tile # t), [tile |-> t, at |-> now])
      fresh == {i \in 1..Len(all) : now - all[i].at < Protect}
      first == CHOOSE i \in fresh : \A j \in fresh : i <= j
  IN  SubSeq(all, first, Len(all))

(* listCache *)
ListCache(files) == files

\* Mutant: nothing is spared.
EnforceCapAll(files, protect) ==
  IF Len(files) <= Cap THEN files ELSE SubSeq(files, 2, Len(files))

(* enforceCap: over the cap, the oldest go until 9/10 of it is left *)
EnforceCap(files, protect) ==
  LET kept[i \in 0..Len(files)] ==
        IF i = 0 THEN [left |-> << >>, total |-> Len(ListCache(files))]
        ELSE LET k == kept[i - 1]
             IN  IF 10 * k.total <= 9 * Cap \/ files[i] \in protect
                 THEN [k EXCEPT !.left = Append(@, files[i])]
                 ELSE [k EXCEPT !.total = @ - 1]
  IN  IF Len(ListCache(files)) <= Cap THEN files ELSE kept[Len(files)].left

------------------------------------------------------------------------------
(* Slots *)

(* acquire, for a build whose slots are as in the state s *)
Acquire(s, t) ==
  IF s.running < Concurrency
  THEN [s EXCEPT !.running = @ + 1, !.job[t] = "building"]
  ELSE [s EXCEPT !.waiting = Append(@, t), !.job[t] = "queued"]

\* Mutant: the slot is given back and nobody is called.
ReleaseSilent(s) == [s EXCEPT !.running = @ - 1]

(* release: the first in the queue takes the slot over *)
Release(s) ==
  IF s.waiting = << >> THEN [s EXCEPT !.running = @ - 1]
  ELSE [s EXCEPT !.waiting = Tail(@), !.job[Head(s.waiting)] = "building"]

State == [job |-> job, waiting |-> waiting, running |-> running]
Becomes(s) == job' = s.job /\ waiting' = s.waiting /\ running' = s.running

(* the stamps of the last hour; the hour is over for the others *)
LastHour(stamps) == SelectSeq(stamps, LAMBDA at : now - at < Hour)

------------------------------------------------------------------------------
(* A request *)

(* every caller that waits for t *)
AllAnswered(t, got) ==
  caller' = [c \in Callers |-> IF caller[c].wants = t /\ caller[c].got = NoTile
                               THEN [caller[c] EXCEPT !.got = got] ELSE caller[c]]

\* Mutant: the tiles in the making are not counted.
RefusedBuiltOnly(t) ==
  \/ Len(LastHour(builtAt)) >= MaxNewPerHour
  \/ Len(LastHour(failedAt)) >= MaxFailures
  \/ running >= Concurrency /\ Len(waiting) >= MaxQueue

(* build's gates *)
Refused(t) ==
  \/ Len(LastHour(builtAt)) + inProgress >= MaxNewPerHour
  \/ Len(LastHour(failedAt)) >= MaxFailures
  \/ running >= Concurrency /\ Len(waiting) >= MaxQueue

(* read of a file that has its shape *)
Read(t) ==
  /\ mtime' = Touched(t, mtime)
  /\ recent' = Remembered(t)

(* get of a tile on disk: verified before, or decoded now *)
GetHit(c, t) ==
  /\ caller[c] = Idle
  /\ IF t \in verified THEN Has(t) ELSE IsValid(t)
  /\ HasShape(t)
  /\ Read(t)
  /\ verified' = verified \cup {t}
  /\ caller' = [caller EXCEPT ![c] = [wants |-> t, got |-> disk[t]]]
  /\ UNCHANGED <<now, disk, slots, caps>>

(* get of a tile that is absent or damaged: a damaged file goes; then the  *)
(* build already in flight is joined, or one begins, or none may           *)
GetMiss(c, t) ==
  /\ caller[c] = Idle
  /\ ~ IF t \in verified THEN Has(t) /\ HasShape(t) ELSE IsValid(t)
  /\ disk' = [disk EXCEPT ![t] = "none"]
  /\ mtime' = Without(t, mtime)
  /\ verified' = IF Has(t) THEN verified \ {t} ELSE verified
  /\ \/ job[t] # "none"
        /\ caller' = [caller EXCEPT ![c] = [wants |-> t, got |-> NoTile]]
        /\ UNCHANGED slots
     \/ job[t] = "none"
        /\ builtAt' = LastHour(builtAt) /\ failedAt' = LastHour(failedAt)
        /\ IF Refused(t)
           THEN /\ caller' = [caller EXCEPT ![c] = [wants |-> t, got |-> "429"]]
                /\ UNCHANGED <<job, late, waiting, running, inProgress>>
           ELSE /\ caller' = [caller EXCEPT ![c] = [wants |-> t, got |-> NoTile]]
                /\ inProgress' = inProgress + 1
                /\ Becomes(Acquire(State, t))
                /\ UNCHANGED late
  /\ UNCHANGED <<now, recent, caps>>

(* the browser has its answer *)
Done(c) ==
  /\ caller[c].got # NoTile
  /\ caller' = [caller EXCEPT ![c] = Idle]
  /\ UNCHANGED <<now, disks, slots, caps>>

------------------------------------------------------------------------------
(* The work of a build *)

(* maybeEnforce after a build, for the directory and the tiles served in   *)
(* the next state: at once, or by one timer when the last check is recent  *)
Enforced(d, files, served, timer) ==
  IF now < lastEnforce + EnforceEvery
  THEN /\ enforceTimer' = TRUE /\ builtSinceEnforce' = TRUE
       /\ mtime' = files /\ disk' = d /\ UNCHANGED lastEnforce
  ELSE LET left == EnforceCap(files, {served[i].tile : i \in DOMAIN served})
       IN  /\ lastEnforce' = now /\ builtSinceEnforce' = FALSE /\ enforceTimer' = timer
           /\ mtime' = left
           /\ disk' = [t \in Tiles |-> IF t \in Range(left) THEN d[t] ELSE "none"]

(* a build that ends for its callers: out of inflight and inProgress *)
Ended(s, t) ==
  /\ Becomes([s EXCEPT !.job[t] = "none"])
  /\ inProgress' = inProgress - 1

(* buildTile settles in time and put writes: the tile is read, protected   *)
(* and served before the cap is looked at                                  *)
BuildDone(t) ==
  /\ job[t] = "building"
  /\ Ended(Release(State), t)
  /\ builtAt' = Append(builtAt, now)
  /\ recent' = Remembered(t)
  /\ verified' = verified \cup {t}
  /\ Enforced(Put(t), Touched(t, mtime), Remembered(t), enforceTimer)
  /\ AllAnswered(t, "good")
  /\ UNCHANGED <<now, late, failedAt>>

(* the sources fail, or put does *)
BuildFails(t) ==
  /\ job[t] = "building"
  /\ Ended(Release(State), t)
  /\ failedAt' = Append(failedAt, now)
  /\ AllAnswered(t, "502")
  /\ UNCHANGED <<now, disks, late, builtAt, caps>>

(* withTimeout rejects: the request fails and the work keeps its slot. The *)
(* finally that follows the wait clears the timer that was to free the     *)
(* slot after twice the time, so only the work itself will.                *)
BuildTimeout(t) ==
  /\ job[t] = "building"
  /\ Ended(State, t)
  /\ late' = [late EXCEPT ![t] = @ + 1]
  /\ failedAt' = Append(failedAt, now)
  /\ AllAnswered(t, "502")
  /\ UNCHANGED <<now, disks, builtAt, caps>>

(* releaseOnce of a work that settles after its request failed *)
LateSettles(t) ==
  /\ late[t] > 0
  /\ late' = [late EXCEPT ![t] = @ - 1]
  /\ Becomes(Release(State))
  /\ UNCHANGED <<now, disks, inProgress, builtAt, failedAt, caps, caller>>

(* the timer of maybeEnforce *)
EnforceTimerFires ==
  /\ enforceTimer /\ now >= lastEnforce + EnforceEvery
  /\ IF builtSinceEnforce THEN Enforced(disk, mtime, recent, FALSE)
     ELSE enforceTimer' = FALSE /\ UNCHANGED <<disk, mtime, lastEnforce, builtSinceEnforce>>
  /\ UNCHANGED <<now, verified, recent, slots, caller>>

(* external: the file is damaged, or removed by another process *)
Damage(t) ==
  /\ disk[t] = "good"
  /\ \E d \in {"none", "garbled", "shapeless"} :
       /\ disk' = [disk EXCEPT ![t] = d]
       /\ mtime' = IF d = "none" THEN Without(t, mtime) ELSE mtime
  /\ UNCHANGED <<now, verified, recent, slots, caps, caller>>

Tick == /\ now < MaxNow
        /\ now' = now + 1
        /\ UNCHANGED <<disks, slots, caps, caller>>
Next ==
  \/ \E c \in Callers, t \in Tiles : GetHit(c, t) \/ GetMiss(c, t)
  \/ \E c \in Callers : Done(c)
  \/ \E t \in Tiles : BuildDone(t) \/ BuildFails(t) \/ BuildTimeout(t) \/ LateSettles(t)
  \/ EnforceTimerFires
  \/ \E t \in Tiles : Damage(t)
  \/ Tick

(* timers fire; nothing is said of the sources *)
Fairness == \A t \in Tiles : WF_vars(BuildTimeout(t))

Spec == Init /\ [][Next]_vars /\ Fairness

(* and every work settles in the end *)
SettlingSpec == Spec /\ \A t \in Tiles : WF_vars(LateSettles(t))

------------------------------------------------------------------------------
(* Properties *)

(* However requests, slow builds and failures overlap, no hour sees more   *)
(* than MaxNewPerHour new tiles: build reserves the place before it waits. *)
HourlyLimit == Len(LastHour(builtAt)) <= MaxNewPerHour

(* A tile served less than Protect ago is not trimmed from the cache, by   *)
(* the check after a build or by the deferred one.                         *)
ServedKept ==
  lastEnforce' # lastEnforce =>
    \A i \in DOMAIN recent : now - recent[i].at < Protect /\ Has(recent[i].tile)
                             => disk'[recent[i].tile] # "none"
ServedIsKept == [][ServedKept]_vars

(* When every work settles, every request is answered: the slot of a work  *)
(* that outlived its request is passed on, the queue never sleeps.         *)
AskedIsAnswered ==
  \A c \in Callers : (caller[c].wants # NoTile /\ caller[c].got = NoTile) ~> (caller[c].got # NoTile)

(* tile-service.ts:149: the slot is freed when the work ends, "or after    *)
(* twice the time". Violated: a work that never ends keeps it.             *)
SlotIsFreed == \A t \in Tiles : late[t] > 0 ~> late[t] = 0
=============================================================================
