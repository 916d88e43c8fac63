----------------------------- MODULE BoundedMap -----------------------------
(***************************************************************************)
(* node/src/bounded-map.ts: BoundedFifoMap, the bounded Map under every    *)
(* network-fed store of a node (pending deliveries, seen ids, routes,      *)
(* catalog entries, identities, ...).                                      *)
(*                                                                         *)
(* A map is a record of the keys it holds and of their insertion order:    *)
(* <<a, b>> \in older when a was inserted before b.  The values live in    *)
(* the client module, as functions over the keys.                          *)
(***************************************************************************)
EXTENDS Integers, FiniteSets

EmptyMap == [keys |-> {}, older |-> {}]

\* older, restricted to the keys of S.
OrderOn(older, S) == older \cap (S \X S)

\* delete(): the remaining keys keep their insertion order.
MapDelete(m, S) ==
  [keys  |-> m.keys \ S,
   older |-> OrderOn(m.older, m.keys \ S)]

\* The keys of S deleted and inserted again, in the order they had.
MoveLast(m, S) ==
  [keys  |-> m.keys,
   older |-> OrderOn(m.older, m.keys \ S) \cup OrderOn(m.older, S)
               \cup ((m.keys \ S) \X S)]

\* v precedes q in eviction order: a strictly lower score, and the earlier
\* insertion between equal scores.
EvictedBefore(m, score, v, q) ==
  \/ score[v] < score[q]
  \/ score[v] = score[q] /\ <<v, q>> \in m.older

\* pickEvictionCandidate(): the lowest score; the scan keeps the first key
\* that reached it, which is the oldest one.
EvictionCandidate(m, score) ==
  CHOOSE v \in m.keys : \A q \in m.keys \ {v} : EvictedBefore(m, score, v, q)

\* Mutant of EvictedBy: eviction starts one entry too late.
EvictedByLate(m, key, score, maxSize) ==
  IF key \notin m.keys /\ Cardinality(m.keys) > maxSize
  THEN {EvictionCandidate(m, score)}
  ELSE {}

\* The keys set() evicts to make room for key: none when key is already
\* present (an update never evicts) or the map is below its bound.
EvictedBy(m, key, score, maxSize) ==
  IF key \notin m.keys /\ Cardinality(m.keys) >= maxSize
  THEN {EvictionCandidate(m, score)}
  ELSE {}

\* set(): a map of bound 0 holds nothing; a known key keeps its place; a new
\* key evicts at most one other and is inserted last.  The new key itself is
\* never a candidate.
MapSet(m, key, score, maxSize) ==
  IF maxSize <= 0 \/ key \in m.keys
  THEN m
  ELSE LET kept == m.keys \ EvictedBy(m, key, score, maxSize)
       IN  [keys  |-> kept \cup {key},
            older |-> OrderOn(m.older, kept) \cup (kept \X {key})]

\* older orders every set of keys: what Map iteration relies on, stated so
\* that it is preserved by insertion and deletion.
WellOrdered(m) ==
  /\ m.older \subseteq m.keys \X m.keys
  /\ \A T \in SUBSET m.keys :
       T # {} => \E v \in T : \A q \in T \ {v} : <<v, q>> \in m.older

\* A record with exactly the two fields of a map.
IsMap(m) == m = [keys |-> m.keys, older |-> m.older]
=============================================================================
