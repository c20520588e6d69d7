------------------------------ MODULE RoomAccess ------------------------------
(***************************************************************************)
(* What the realtime gateway promises: a socket starts to hear of an       *)
(* organization only on a permission that was issued while its user was a  *)
(* member, and each request has to be given its own.                       *)
(***************************************************************************)

CONSTANTS Sockets, Organizations

VARIABLES
  member,        (* the organizations each socket's user is a member of    *)
  permits,       (* permissions issued and not yet used: <<socket, org>>   *)
  hears          (* who hears of which organization                        *)

vars == <<member, permits, hears>>

Init ==
  /\ member \in [Sockets -> SUBSET Organizations]
  /\ permits = {}
  /\ hears = {}

ChangeMembership(s) ==
  /\ \E orgs \in SUBSET Organizations : member' = [member EXCEPT ![s] = orgs]
  /\ UNCHANGED <<permits, hears>>

Permit(s, o) ==
  /\ o \in member[s]
  /\ permits' = permits \cup {<<s, o>>}
  /\ UNCHANGED <<member, hears>>

\* Using a permission may end it.
Hear(s, o) ==
  /\ <<s, o>> \in permits
  /\ hears' = hears \cup {<<s, o>>}
  /\ permits' \in SUBSET permits
  /\ UNCHANGED member

Withdraw ==
  /\ permits' \in SUBSET permits
  /\ hears' \in SUBSET hears
  /\ UNCHANGED member

Next ==
  \/ \E s \in Sockets : ChangeMembership(s)
  \/ \E s \in Sockets, o \in Organizations : Permit(s, o) \/ Hear(s, o)
  \/ Withdraw

Spec == Init /\ [][Next]_vars

===============================================================================
