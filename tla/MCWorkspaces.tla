----------------------------- MODULE MCWorkspaces -----------------------------
(* Ann has a workspace and an invitation to Bob's; Cid is new.               *)

EXTENDS Workspaces, TLC

CONSTANTS Ann, Bob, Cid, Acme, Bolt

TabSymmetry == Permutations(Tabs)

OneEach     == [a \in {Ann, Bob, Cid} |-> IF a = Ann THEN <<Acme>> ELSE IF a = Bob THEN <<Bolt>> ELSE <<>>]
Invitations == [a \in {Ann, Bob, Cid} |-> IF a = Ann THEN {Bolt} ELSE {}]

Met(a) == session = a \/ \E t \in Tabs : tab[t].account = a

NothingFounded ==
  /\ \A t \in Tabs : tab[t].doing.what # "found"
  /\ \A a \in Accounts : Range(members[a]) \cap New = {}

\* A behaviour has one tab, in which Ann and Cid meet and workspaces are founded
\* (three moves, or four of Cid or without a founding), or two of Ann and Bob (three)
\* or of Ann and Cid (two).
OneTabOrTwo ==
  \/ /\ ~ Met(Bob) /\ \E t \in Tabs : \A u \in Tabs \ {t} : tab[u] = Blank
     /\ moves = MaxMoves => Met(Cid) \/ NothingFounded
  \/ /\ NothingFounded
     /\ \/ moves < MaxMoves /\ ~ Met(Cid)
        \/ moves < MaxMoves - 1 /\ ~ Met(Bob)

===============================================================================
