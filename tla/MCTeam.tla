------------------------------- MODULE MCTeam -------------------------------
(* Small instances of Team; nothing but the sizes of the sets bounds them.  *)

EXTENDS Team, TLC

\* Users, requests and invitations are interchangeable in the safety runs.
TeamSymmetry == Permutations(Users) \cup Permutations(Invitations) \cup Permutations(Requests)

=============================================================================
