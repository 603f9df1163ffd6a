--------------------------- MODULE MCWalterCollar ---------------------------
(* Normal, and Lost, which asks for LTE at once. *)
EXTENDS WalterCollar

MCProfiles == {"normal", "lost"}
MCThreshold == [p \in MCProfiles |-> IF p = "lost" THEN 1 ELSE 2]
=============================================================================
