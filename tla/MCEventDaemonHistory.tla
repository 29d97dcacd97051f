------------------------ MODULE MCEventDaemonHistory ------------------------
(* The instances of MCEventDaemon with the history variables.                *)
EXTENDS MCEventDaemon, EventDaemonHistory
=============================================================================
