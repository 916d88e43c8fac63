----------------------------- MODULE Discovery -----------------------------
(***************************************************************************)
(* DiscoveryService: a bounded directory in memory where nodes register    *)
(* the address and the public label they have at the moment, and whose     *)
(* administrator puts a badge on entries.  Registrations are signed and    *)
(* dated by the node and arrive in any order, again or not at all.         *)
(***************************************************************************)
EXTENDS BoundedMap

CONSTANTS
  Nodes, Labels,
  NoLabel,          \* an entry that is not public
  MaxRegistrations, \* maxRegistrations
  MaxTime           \* bound: registrations a node signs

VARIABLES
  label,        \* the label a node has now (discoveryPublicLabel)
  signed,       \* registrations signed, any of which may arrive: [id, label, at]
  registered,   \* registrations: its ids in order
  entry,        \* per id [label, at, verified]
  shown,        \* the directory the administrator looks at, and acts on later
  badge,        \* per id, the label that was on the entry when it was verified
  checked       \* per id, the labels the administrator had in view when verifying

discoveryVars == <<label, signed, registered, entry, shown, badge, checked>>

Blank == [label |-> NoLabel, at |-> 0, verified |-> FALSE]
NoScore == [n \in Nodes |-> 0]

Init ==
  /\ label = [n \in Nodes |-> NoLabel]
  /\ signed = {} /\ registered = EmptyMap /\ entry = [n \in Nodes |-> Blank]
  /\ shown = [n \in Nodes |-> NoLabel]
  /\ badge = [n \in Nodes |-> NoLabel] /\ checked = [n \in Nodes |-> {}]

\* registerWithDiscoveryService(), from the interval timer.
Register(n) ==
  LET before == {r \in signed : r.id = n} IN
  /\ Cardinality(before) < MaxTime
  /\ signed' = signed \cup {[id |-> n, label |-> label[n], at |-> Cardinality(before) + 1]}
  /\ UNCHANGED <<label, registered, entry, shown, badge, checked>>

\* A node is started again with another label or none.
Rename(n, l) ==
  /\ l # label[n] /\ label' = [label EXCEPT ![n] = l]
  /\ UNCHANGED <<signed, registered, entry, shown, badge, checked>>

\* As if the badge stayed with the node.
VerifiedAfterKept(n, r) == n \in registered.keys /\ entry[n].verified

VerifiedAfter(n, r) == n \in registered.keys /\ entry[n].verified /\ entry[n].label = r.label

Newer(n, r) == n \in registered.keys => entry[n].at < r.at

HandleRegister(r) ==
  LET n == r.id
      kept == MapSet(registered, n, NoScore, MaxRegistrations)
      out == registered.keys \ kept.keys
  IN
  /\ Newer(n, r)
  /\ registered' = kept
  /\ entry' = [m \in Nodes |-> IF m = n THEN [label |-> r.label, at |-> r.at, verified |-> VerifiedAfter(n, r)]
                               ELSE IF m \in out THEN Blank ELSE entry[m]]
  /\ UNCHANGED <<label, signed, shown, badge, checked>>

HandleDirectory ==
  /\ shown' = [n \in Nodes |-> entry[n].label]
  /\ UNCHANGED <<label, signed, registered, entry, badge, checked>>

HandleAdminVerify(n, v) ==
  /\ shown[n] # NoLabel /\ n \in registered.keys
  /\ entry' = [entry EXCEPT ![n].verified = v]
  /\ badge' = IF v THEN [badge EXCEPT ![n] = entry[n].label] ELSE badge
  /\ checked' = IF v THEN [checked EXCEPT ![n] = @ \cup {shown[n]}] ELSE checked
  /\ UNCHANGED <<label, signed, registered, shown>>

\* The directory is in memory.
ServiceRestarts ==
  /\ registered.keys # {}
  /\ registered' = EmptyMap /\ entry' = [n \in Nodes |-> Blank]
  /\ UNCHANGED <<label, signed, shown, badge, checked>>

Next ==
  \/ \E n \in Nodes : \/ Register(n)
                      \/ \E l \in Labels \cup {NoLabel} : Rename(n, l)
                      \/ \E v \in BOOLEAN : HandleAdminVerify(n, v)
  \/ \E r \in signed : HandleRegister(r)
  \/ HandleDirectory \/ ServiceRestarts

Spec == Init /\ [][Next]_discoveryVars

-----------------------------------------------------------------------------
\* Through renames, late and repeated registrations, evictions and restarts, a
\* badge is on the label it was put on, and on no other.
BadgeKeepsLabel == \A n \in Nodes : entry[n].verified => entry[n].label = badge[n]

\* What makes it so at every step: the types alone.
DiscoveryInv ==
  /\ entry \in [Nodes -> [label : Labels \cup {NoLabel}, at : Nat, verified : BOOLEAN]]
  /\ badge \in [Nodes -> Labels \cup {NoLabel}]
  /\ label \in [Nodes -> Labels \cup {NoLabel}]
  /\ signed \subseteq [id : Nodes, label : Labels \cup {NoLabel}, at : Nat] /\ IsFiniteSet(signed)
  /\ BadgeKeepsLabel

\* "... the badge of a name never checked by the admin" is what resetting it on
\* a change of label is to prevent.
BadgeWasChecked == \A n \in Nodes : entry[n].verified => entry[n].label \in checked[n]
=============================================================================
