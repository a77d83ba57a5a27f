--------------------------- MODULE MCMeshConsumer ---------------------------
(***************************************************************************)
(* MeshConsumer on small instances for TLC.                                *)
(***************************************************************************)
EXTENDS MeshConsumer, TLC

\* Instances, commands and files are interchangeable in the safety runs.
Symmetry ==
    Permutations(Instances) \cup Permutations(Messages) \cup Permutations(Contents)
=============================================================================
