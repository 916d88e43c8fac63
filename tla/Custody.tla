------------------------------ MODULE Custody ------------------------------
(***************************************************************************)
(* What a queue on the phone promises about the items a user entrusts to   *)
(* it: an item taken into custody is held until it is delivered or given   *)
(* up, "delivered" is only said of an item that arrived, an item that      *)
(* ended is never taken again, and no more than Capacity items are held.   *)
(***************************************************************************)
EXTENDS Naturals, FiniteSets

CONSTANTS Items, Capacity

VARIABLES
  held,        \* items in custody
  arrived,     \* items their addressee has
  delivered,   \* items the user was told have been delivered
  abandoned    \* items given up

vars == <<held, arrived, delivered, abandoned>>

Init == held = {} /\ arrived = {} /\ delivered = {} /\ abandoned = {}

\* Room may be made for an item by giving up others.
Take(i, S) ==
  /\ i \notin held \cup delivered \cup abandoned \cup S
  /\ Cardinality(held \ S) < Capacity
  /\ held' = (held \ S) \cup {i} /\ abandoned' = abandoned \cup S
  /\ UNCHANGED <<arrived, delivered>>

Arrive(i) ==
  /\ arrived' = arrived \cup {i}
  /\ UNCHANGED <<held, delivered, abandoned>>

\* Others may be given up with it.
Deliver(i, S) ==
  /\ i \in arrived
  /\ held' = held \ ({i} \cup S)
  /\ delivered' = delivered \cup {i} /\ abandoned' = abandoned \cup S
  /\ UNCHANGED arrived

\* Several items may be given up at once.
Abandon(S) ==
  /\ held' = held \ S /\ abandoned' = abandoned \cup S
  /\ UNCHANGED <<arrived, delivered>>

Next ==
  \/ \E i \in Items : Arrive(i)
  \/ \E S \in SUBSET Items :
       Abandon(S) \/ \E i \in Items : Take(i, S) \/ Deliver(i, S)

Spec == Init /\ [][Next]_vars
=============================================================================
