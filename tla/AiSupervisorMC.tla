--------------------------- MODULE AiSupervisorMC ---------------------------
(* Instances of AiSupervisor for TLC.                                      *)
EXTENDS AiSupervisor, TLC

\* Models are interchangeable.
Symmetry == Permutations(Models)
=============================================================================
