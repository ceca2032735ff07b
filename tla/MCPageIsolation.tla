-------------------------- MODULE MCPageIsolation --------------------------
(* PageIsolation on small instances.                                       *)
EXTENDS PageIsolation, TLC

\* Page addresses are only compared for equality.
PageSymmetry == Permutations(Pages)
=============================================================================
