----------------------------- MODULE MCTeamPage -----------------------------
(* Values for the constants of TeamPage.                                   *)
EXTENDS TeamPage

CONSTANTS Ann, Bob

(* Ann's page.  Bob is another owner, or is yet to be invited.             *)
AnnAndBob == {[p \in People |-> "OWNER"],
              [p \in People |-> IF p = Ann THEN "OWNER" ELSE "NONE"]}

(* Roles change at length while there are no invitations, and once beside  *)
(* them; then what is asked for is AGENT.                                  *)
RolesOrInvitations ==
    \/ /\ Len(invitations) = 1 /\ ~ dialog.open
       /\ \A r \in Invites \cup {"cancel"} : request[r] = Unsent
    \/ /\ Len(members) <= 2
       /\ \A i \in DOMAIN members, p \in People : members[i][p] # "ADMIN"
       /\ request["role"].step # "unsent" => request["role"].new = "AGENT"
=============================================================================
