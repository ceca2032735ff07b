---------------------------- MODULE MCRasEvents ----------------------------
(* RasEvents on small instances.                                           *)
EXTENDS RasEvents

Busy(c) == buffer[c] + page[c] + handled[c] > 0

\* Bound: once SQLite has failed a call, the events of one CPU at most (they
\* meet nothing of each other but ras->db_priv).
FlawedIsQuiet == flaws > 0 => \A c, d \in CPUs : Busy(c) /\ Busy(d) => c = d
=============================================================================
