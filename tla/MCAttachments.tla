---------------------------- MODULE MCAttachments ----------------------------
(* Small instances of Attachments; only MaxFaults bounds their behaviours.  *)

EXTENDS Attachments, TLC

\* Requests are interchangeable, and so are attachments, in the safety runs.
RequestSymmetry == Permutations(Requests) \cup Permutations(Attachments) \cup Permutations(Messages)

=============================================================================
