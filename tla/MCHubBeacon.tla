---------------------------- MODULE MCHubBeacon ----------------------------
(* The BLE task beside a network task that fails over between two networks. *)
EXTENDS HubBeacon

CONSTANTS web
=============================================================================
