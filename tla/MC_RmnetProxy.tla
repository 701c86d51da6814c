---------------------------- MODULE MC_RmnetProxy ---------------------------
(* Model values for RmnetProxy: the services whose frames take different  *)
(* paths through process_packet, and frames too short to classify.        *)
EXTENDS RmnetProxy

MC_Svcs == {"RUNT", "NAS_SIG", "VOICE"}
=============================================================================
