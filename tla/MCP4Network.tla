---------------------------- MODULE MCP4Network ----------------------------
(* Both networks saved.                                                     *)
EXTENDS P4Network

MCChoices ==
    {[mode |-> m, nets |-> {0, 1}] : m \in Modes}
============================================================================
