-------------------------------- MODULE MCLists --------------------------------
(* Two tickets, pages of one ticket: a full last page, and one that empties    *)
(* when a ticket changes its status.                                           *)

EXTENDS Lists

CONSTANTS t1, t2, open, closed

ListsInbox     == <<[id |-> t1, status |-> open], [id |-> t2, status |-> open]>>
ListsAddresses == {[filter |-> All, page |-> 1], [filter |-> open, page |-> 1], [filter |-> open, page |-> 2]}

===============================================================================
