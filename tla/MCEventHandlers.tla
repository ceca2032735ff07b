-------------------------- MODULE MCEventHandlers --------------------------
(* EventHandlers on small instances.                                       *)
EXTENDS EventHandlers

\* All the triggers, and those for uncorrected errors only.
MCTriggerSets == {{"mc_ce", "mc_ue", "aer_ce", "aer_ue", "mf"}, {"mc_ue", "aer_ue"}}
=============================================================================
