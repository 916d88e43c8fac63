----------------------------- MODULE Fragments -----------------------------
(***************************************************************************)
(* Packets cut into fragments for a Bluetooth write and put together again *)
(* (ble-link.js): a one-byte message id that wraps around, writes of       *)
(* several packets interleaved on one connection, a reassembler with a few *)
(* places that gives up its oldest message, and a write that fails and     *)
(* leaves the message it belongs to unfinished at the other end.           *)
(***************************************************************************)
EXTENDS Naturals, Sequences, SequencesExt, FiniteSets

CONSTANTS
  Sizes,           \* fragments a packet may need
  IdSpace,         \* 256, the values of msgId
  MaxReassemblies, \* MAX_CONCURRENT_REASSEMBLIES
  MaxInFlight,     \* bound: packets being written at once
  MaxLag,          \* bound: packets begun while one is being written
  MaxMessages,     \* bound: packets written in all
  MaxFailures      \* bound: writes that fail

FragmentsAssumption ==
  /\ Sizes \subseteq Nat \ {0}
  /\ MaxReassemblies \in Nat \ {0} /\ IdSpace \in Nat \ {0} /\ MaxLag \in Nat

VARIABLES
  msgs,      \* per packet, [id, total, next]: next is the fragment to write
  entries,   \* #entries of the reassembler, oldest first: [id, total, chunks]
  out,       \* packets reassembled from their own fragments
  failed,    \* packets a write of which failed
  crowded    \* packets written while too many were: the sender sets no limit

vars == <<msgs, entries, out, failed, crowded>>

Init == msgs = <<>> /\ entries = <<>> /\ out = {} /\ failed = {} /\ crowded = {}

InFlight == {m \in DOMAIN msgs : msgs[m].next < msgs[m].total /\ m \notin failed}

\* As if the ids wrapped around one too early.
IdAfterShort(id) == IF id + 2 >= IdSpace THEN 0 ELSE id + 1

\* nextMsgId, a counter of fragmentPacket()'s module.
IdAfter(id) == IF id + 1 = IdSpace THEN 0 ELSE id + 1

\* More packets than have a place, or one begun when the ids have come round to
\* that of another.
TooMany(flying) ==
  Cardinality(flying) > MaxReassemblies \/ \E k, m \in flying : m >= k + IdSpace

\* fragmentPacket(), and sendFragmentedPacket() begins to write.
Begin(total) ==
  /\ Len(msgs) < MaxMessages /\ Cardinality(InFlight) < MaxInFlight
  /\ \A m \in InFlight : Len(msgs) - m < MaxLag
  /\ msgs' = Append(msgs, [id |-> IF msgs = <<>> THEN 0 ELSE IdAfter(Last(msgs).id), total |-> total, next |-> 0])
  /\ LET flying == InFlight \cup {Len(msgs) + 1} IN
     crowded' = IF TooMany(flying) THEN crowded \cup flying ELSE crowded
  /\ UNCHANGED <<entries, out, failed>>

At(id) == {i \in DOMAIN entries : entries[i].id = id}

\* The place of the packet's id, or a new one: for want of places the oldest is given up.
Opened(m) ==
  IF At(msgs[m].id) # {} THEN entries
  ELSE Append(IF Len(entries) >= MaxReassemblies THEN Tail(entries) ELSE entries,
              [id |-> msgs[m].id, total |-> msgs[m].total, chunks |-> <<>>])

\* addFragment(): the place takes the fragment; with all that its total asks for, it is
\* free again and they are joined in the order of the indices.
AddFragment(m) ==
  \E i \in DOMAIN Opened(m) :
    LET e   == Opened(m)[i]
        got == [k \in DOMAIN e.chunks \cup {msgs[m].next} |-> IF k = msgs[m].next THEN m ELSE e.chunks[k]]
        all == 0..(e.total - 1) \subseteq DOMAIN got
    IN
    /\ e.id = msgs[m].id
    /\ entries' = IF all THEN RemoveAt(Opened(m), i)
                  ELSE [Opened(m) EXCEPT ![i] = [id |-> e.id, total |-> e.total, chunks |-> got]]
    /\ out' = IF all /\ e.total = msgs[m].total /\ (\A k \in 0..(e.total - 1) : got[k] = m)
              THEN out \cup {m} ELSE out

Write(m) ==
  /\ m \in InFlight
  /\ AddFragment(m)
  /\ msgs' = [msgs EXCEPT ![m].next = @ + 1]
  /\ UNCHANGED <<failed, crowded>>

WriteFails(m) ==
  /\ m \in InFlight /\ Cardinality(failed) < MaxFailures
  /\ failed' = failed \cup {m}
  /\ UNCHANGED <<msgs, entries, out, crowded>>

Next ==
  \/ \E n \in Sizes : Begin(n)
  \/ \E m \in DOMAIN msgs : Write(m) \/ WriteFails(m)

Spec == Init /\ [][Next]_vars

-----------------------------------------------------------------------------
\* As long as no write has failed and never were too many written at once, every packet whose fragments were all written
\* comes out whole, however the fragments of several packets interleave and
\* however often the one-byte id has wrapped around.
FaultFreeReassembled ==
  failed = {} /\ crowded = {} =>
    \A m \in DOMAIN msgs : msgs[m].next = msgs[m].total => m \in out

Lost == {m \in DOMAIN msgs : msgs[m].next = msgs[m].total /\ m \notin out}

\* A packet written whole is lost only to being one of too many, or to what was left
\* behind: to a packet unfinished or itself lost that had its id, or that was written at
\* about the same time. A failure or a crowd long past costs nothing to packets with
\* other ids.
Excused(m) ==
  \/ m \in crowded
  \/ \E k \in (failed \cup Lost) \ {m} : msgs[k].id = msgs[m].id \/ k + MaxLag >= m

LostToUnfinished == \A m \in Lost : Excused(m)

\* What makes the two hold at every step: a packet being written has its place, with
\* fragments of its own alone and none of an older packet in the places after it, or
\* there is already one it may be lost to; and no place holds a fragment of a packet
\* that came out.
Placed(m) ==
  \E i \in DOMAIN entries :
    /\ entries[i].id = msgs[m].id /\ entries[i].total = msgs[m].total
    /\ entries[i].chunks = [j \in 0..(msgs[m].next - 1) |-> m]
    /\ \A j \in DOMAIN entries : j > i =>
         \A x \in DOMAIN entries[j].chunks : entries[j].chunks[x] + MaxLag >= m

MessagesSound ==
  /\ msgs \in Seq([id : 0..(IdSpace - 1), total : Sizes, next : Nat])
  /\ \A m \in DOMAIN msgs : msgs[m].next <= msgs[m].total
  /\ \A k, m \in DOMAIN msgs : k <= m /\ m < k + IdSpace =>
       msgs[m].id = msgs[k].id + (m - k) \/ msgs[m].id = msgs[k].id + (m - k) - IdSpace
  /\ failed \subseteq DOMAIN msgs /\ out \subseteq DOMAIN msgs
  /\ \A m \in out : msgs[m].next = msgs[m].total
  /\ TooMany(InFlight) => InFlight \subseteq crowded
  /\ \A k, m \in InFlight : m <= k + MaxLag

EntriesSound ==
  /\ entries \in Seq({entries[i] : i \in DOMAIN entries})
  /\ \A i, j \in DOMAIN entries : entries[i].id = entries[j].id => i = j
  /\ \A i \in DOMAIN entries :
       /\ DOMAIN entries[i].chunks # {}
       /\ \A x \in DOMAIN entries[i].chunks :
            LET k == entries[i].chunks[x] IN
            k \in DOMAIN msgs \ out /\ msgs[k].id = entries[i].id /\ x \in 0..(msgs[k].next - 1)

FragmentsInv ==
  /\ MessagesSound /\ EntriesSound
  /\ \A m \in InFlight : msgs[m].next > 0 => Placed(m) \/ Excused(m)
  /\ FaultFreeReassembled /\ LostToUnfinished
=============================================================================
