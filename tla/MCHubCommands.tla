---------------------------- MODULE MCHubCommands ----------------------------
(* The command delivery without faults: one collar, one caller, the cloud.   *)
EXTENDS HubCommands

CONSTANTS c1, web
==============================================================================
