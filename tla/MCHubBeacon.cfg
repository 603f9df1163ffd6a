\* Nobody requests a mode: the profile follows the uplinks.
CONSTANTS
    web = web
    Requesters = {}
    HasPrimary = TRUE
    HasSecondary = TRUE
    RecoveryTicks = 3
    ClockMod = 4
    Provisioning = FALSE
SPECIFICATION BeaconFairSpec
PROPERTIES RoamingSilent SearchEnds OffGridHasAp
