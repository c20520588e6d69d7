------------------------- MODULE DeliveryLifecycle -------------------------
(***************************************************************************)
(* What the email pipeline promises about one delivery, whatever queue,    *)
(* workers, recovery passes and webhooks do to it: its progress is never   *)
(* undone, it only ever claims an email that the provider accepted, and    *)
(* the provider accepts at most one.                                       *)
(***************************************************************************)

EXTENDS Naturals

CONSTANT Deliveries       (* the deliveries that may be created            *)

VARIABLES status,         (* what the row says                             *)
          mails           (* how many emails the provider accepted for it  *)

vars == <<status, mails>>

\* How far a status has come.  PENDING and SENDING are as far as each other:
\* an attempt may be given back.
Rank(st) == CASE st = "NONE"                     -> 0
              [] st \in {"PENDING", "SENDING"}   -> 1
              [] st = "SENT"                     -> 2
              [] st = "DELAYED"                  -> 3
              [] OTHER                           -> 4

\* What a row may say of an email nobody has accepted.
Unproven == {"NONE", "PENDING", "SENDING", "FAILED"}

Statuses == {"NONE", "PENDING", "SENDING", "SENT", "DELAYED", "DELIVERED",
             "BOUNCED", "COMPLAINED", "SUPPRESSED", "FAILED"}

Init == /\ status = [d \in Deliveries |-> "NONE"]
        /\ mails = [d \in Deliveries |-> 0]

Attempt(d) == /\ status[d] \in {"PENDING", "SENDING"}
              /\ \E st \in {"PENDING", "SENDING"} :
                    status' = [status EXCEPT ![d] = st]
              /\ UNCHANGED mails

Advance(d) == /\ \E st \in Statuses :
                    /\ Rank(st) > Rank(status[d])
                    /\ mails[d] = 0 => st \in Unproven
                    /\ status' = [status EXCEPT ![d] = st]
              /\ UNCHANGED mails

\* The customer gets the email once, however often it is attempted.
Mail(d) == /\ status[d] # "NONE"
           /\ mails[d] = 0
           /\ mails' = [mails EXCEPT ![d] = 1]
           /\ UNCHANGED status

Next == \E d \in Deliveries : Attempt(d) \/ Advance(d) \/ Mail(d)

Spec == Init /\ [][Next]_vars

=============================================================================
