\* As MCHubBeacon.cfg, but the web page requests modes; one network is enough.
CONSTANTS
    web = web
    Requesters = {web}
    HasPrimary = TRUE
    HasSecondary = FALSE
    RecoveryTicks = 3
    ClockMod = 4
    Provisioning = FALSE
SPECIFICATION BeaconFairSpec
PROPERTY ScannerSilent
