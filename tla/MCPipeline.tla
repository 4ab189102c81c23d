---------------------------- MODULE MCPipeline ----------------------------
(* Instances of JobPipeline for TLC. *)
EXTENDS JobPipeline, TLC

\* What the pages offer: "Refazer" appears on completed and error only.
FromPages == Settled
\* What PUT /jobs/{id}/retry accepts.
FromApi == JobStatus

SlotSymmetry == Permutations(Slots)
=============================================================================
