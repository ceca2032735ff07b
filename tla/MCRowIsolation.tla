--------------------------- MODULE MCRowIsolation ---------------------------
(* RowIsolation on small instances.                                        *)
EXTENDS RowIsolation, TLC

\* Rows and pages are only compared for equality.
RowSymmetry == Permutations(Rows) \cup Permutations(Pages)
=============================================================================
