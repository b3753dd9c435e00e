------------------------- MODULE MCMonitoringAgent -------------------------
(***************************************************************************)
(* MonitoringAgent for TLC: the constants are numbers, given in the cfg    *)
(* files.                                                                  *)
(***************************************************************************)
EXTENDS MonitoringAgent

=============================================================================
