---------------------------- MODULE MCP4Control ----------------------------
(* The beacon is switched off, then on again.                              *)
EXTENDS P4Control

MCEdits == <<FALSE, TRUE>>
============================================================================
