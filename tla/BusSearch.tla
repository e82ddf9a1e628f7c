------------------------------ MODULE BusSearch -------------------------------
(***************************************************************************)
(* What a search of a 1-Wire bus promises: as long as nobody plugs or      *)
(* pulls a device it finds every device once, in the order of the ids, or  *)
(* as many as there is room for.  Of a disturbed search only the room is   *)
(* promised.                                                               *)
(***************************************************************************)
EXTENDS Naturals, Sequences, Functions

CONSTANTS
  Ids,
  Order         \* pairs of ids, the first of which is found before the second

VARIABLES
  searching,
  devices,      \* on the bus that is searched
  room,         \* rows for what is found
  found,        \* the ids found so far
  disturbed     \* a device was plugged or pulled since the search began

vars == <<searching, devices, room, found, disturbed>>

Init ==
  /\ searching = FALSE
  /\ devices \in SUBSET Ids
  /\ room \in Nat
  /\ found = <<>>
  /\ disturbed = FALSE

Remaining == devices \ Range(found)

\* Nothing is promised of the time between two searches.
Between ==
  /\ ~searching
  /\ devices' \in SUBSET Ids
  /\ room' \in Nat
  /\ disturbed' \in BOOLEAN
  /\ searching' \in BOOLEAN
  /\ searching' => ~disturbed'
  /\ UNCHANGED found

FindNext ==
  /\ searching /\ ~disturbed
  /\ Len(found) < room
  /\ \E d \in Remaining :
       /\ \A e \in Remaining \ {d} : <<d, e>> \in Order
       /\ found' = Append(found, d)
  /\ UNCHANGED <<searching, devices, room, disturbed>>

FindAnything ==
  /\ searching /\ disturbed
  /\ Len(found) < room
  /\ \E d \in Ids : found' = Append(found, d)
  /\ UNCHANGED <<searching, devices, room, disturbed>>

Disturb ==
  /\ searching
  /\ disturbed' = TRUE
  /\ devices' \in SUBSET Ids
  /\ UNCHANGED <<searching, room, found>>

End ==
  /\ searching
  /\ disturbed \/ Len(found) = room \/ Remaining = {}
  /\ searching' = FALSE
  /\ found' = <<>>
  /\ UNCHANGED <<devices, room, disturbed>>

Next == Between \/ FindNext \/ FindAnything \/ Disturb \/ End

Spec == Init /\ [][Next]_vars
===============================================================================
