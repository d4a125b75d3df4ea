------------------------- MODULE MCImportLifecycle -------------------------
(***************************************************************************)
(* Instances of ImportLifecycle for TLC.  Two structures (say, header row  *)
(* 1 and 2) and two plans, p1 for both and p2 for the second only, so that *)
(* a plan can survive a reinspection or not; one LLM-made template.        *)
(***************************************************************************)
EXTENDS ImportLifecycle, TLC

CONSTANTS p1, p2, s1, s2

MCFits == {<<p1, s1>>, <<p1, s2>>, <<p2, s2>>} \cap (Plan \X Structure)
MCTemplate ==
  {t \in [structure : Structure, plan : Plan, origin : {"LLM_CONFIRMED"}] :
     t.plan = p2 /\ t.structure = s2}

Symmetry == Permutations(Caller)
SymmetryBatches == Permutations(Batch)

=============================================================================
