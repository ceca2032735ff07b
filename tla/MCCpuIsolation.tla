--------------------------- MODULE MCCpuIsolation ---------------------------
(* CpuIsolation on small instances.                                        *)
EXTENDS CpuIsolation

\* A single error of the core, a counted error outside it (which counts for
\* nothing when it is uncorrected), and a record of two errors.
Pei(valid, multiple, core) == [countValid |-> valid, multiple_error |-> multiple, core |-> core]
MCReports ==
    {<<Pei(FALSE, 0, TRUE)>>, <<Pei(TRUE, 1, FALSE)>>,
     <<Pei(TRUE, 0, FALSE), Pei(FALSE, 0, TRUE)>>}
=============================================================================
