---------------------------- MODULE OffGridLatch ----------------------------
(***************************************************************************)
(* What the Home Hub promises about its uplink                             *)
(* (docs/firmware/home-hub/HOME_HUB_OFFGRID_ARCHITECTURE.md, "Automatic    *)
(* Wi-Fi recovery"): it searches, is online, or is Off-Grid; it may enter  *)
(* Off-Grid by itself; once there it stays, whatever the radio hears,      *)
(* until a user has consented to leave, and one consent serves one change. *)
(***************************************************************************)
VARIABLES
    mode,     \* "searching", "online" or "off_grid"
    consent   \* a confirmed request of a user is on its way

latchVars == <<mode, consent>>

LatchInit ==
    /\ mode \in {"searching", "off_grid"}
    /\ consent = FALSE

Consent ==
    /\ consent' = TRUE
    /\ UNCHANGED mode

Find == mode = "searching" /\ mode' = "online" /\ UNCHANGED consent
Lose == mode = "online" /\ mode' = "searching" /\ UNCHANGED consent
GiveUp == mode = "searching" /\ mode' = "off_grid" /\ UNCHANGED consent

\* A request, confirmed or not, is spent: outside Off-Grid it may select any
\* mode the hub can be told to enter, inside Off-Grid only consent leaves it.
Spend ==
    /\ mode' \in {"searching", "off_grid"} \union {mode}
    /\ mode = "off_grid" /\ mode' # "off_grid" => consent
    /\ consent' = FALSE

LatchNext == Consent \/ Find \/ Lose \/ GiveUp \/ Spend

LatchSpec == LatchInit /\ [][LatchNext]_latchVars
=============================================================================
