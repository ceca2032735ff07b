---------------------------- MODULE MCRasRecord ----------------------------
(* RasRecord on small instances.                                           *)
EXTENDS RasRecord
=============================================================================
