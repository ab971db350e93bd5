-------------------------- MODULE MCPipelineLiveness --------------------------
(* Instances of PipelineLiveness for TLC.                                  *)
EXTENDS PipelineLiveness

BreakdownFaults ==
  {"reboot", "wdCrash", "tickCrash", "reportWrite", "launch", "launchTimeout", "stateWrite"}
=============================================================================
