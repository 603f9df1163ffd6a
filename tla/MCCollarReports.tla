-------------------------- MODULE MCCollarReports --------------------------
(* Lost mode, which asks for LTE at once, and Active, which waits for two. *)
EXTENDS CollarReports

MCProfiles == {"active", "lost"}
MCThreshold == [p \in MCProfiles |-> IF p = "lost" THEN 1 ELSE 2]
============================================================================
