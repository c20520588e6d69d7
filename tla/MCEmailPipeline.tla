--------------------------- MODULE MCEmailPipeline ---------------------------
(***************************************************************************)
(* Small instances of EmailPipeline.  The cfgs choose the sizes; MaxFaults *)
(* bounds every behaviour, and nothing else is cut off.                    *)
(***************************************************************************)

EXTENDS EmailPipeline, TLC

\* Slots are interchangeable in the safety runs.
SlotSymmetry == Permutations(Slots)

=============================================================================
