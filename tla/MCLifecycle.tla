---------------------------- MODULE MCLifecycle ----------------------------
(* Instances of PipelineLifecycle for TLC. *)
EXTENDS PipelineLifecycle, TLC

\* What the pages offer: "Refazer" appears on completed and error only.
FromPages == Settled

\* Places are alike, and JobLifecycle does not see them.
SlotSymmetry == Permutations(Slots)
============================================================================
