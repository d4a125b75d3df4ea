---------------------------- MODULE MCModelVersions ----------------------------
(***************************************************************************)
(* Instances of ModelVersions for TLC.                                     *)
(***************************************************************************)
EXTENDS ModelVersions, TLC

Symmetry == Permutations(Model) \cup Permutations(Taxonomy)
=============================================================================
