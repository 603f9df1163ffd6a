------------------------------ MODULE HubBeacon ------------------------------
(***************************************************************************)
(* The hub's BLE task (hub/platformio/src/main.cpp, bleTask and            *)
(* applyBleRoleForCurrentProfile) beside its network task.                 *)
(*                                                                         *)
(* bleTask computes a role from variables other tasks write, compares it   *)
(* with the role of its last application, and applies a change by reading  *)
(* those variables again.  Each of the three is a step of its own here.    *)
(***************************************************************************)
EXTENDS HubNetwork

VARIABLES
    ble,                   \* bleTask's program counter
    role, previousRole,    \* bleTask's locals
    hubBeaconEnabled,      \* the user's preference
    hubBeaconAdvertising,  \* what bleTask reports of the Home beacon
    onAir,                 \* the Home beacon is on the air
    bleLooped              \* bleTask has looped since the last tick

bleVars == <<ble, role, previousRole, hubBeaconAdvertising, onAir>>
vars == <<netVars, bleVars, hubBeaconEnabled, bleLooped>>

Roles == {"none", "silent", "advertise", "scan"}

UsesBleScanning == hubCommProfile \in {"portable", "off_grid"}

MayAdvertise == homeBeaconAllowed /\ hubBeaconEnabled

CurrentRole ==
    IF UsesBleScanning THEN "scan" ELSE IF MayAdvertise THEN "advertise" ELSE "silent"

BleInit ==
    /\ ble = "compute"
    /\ role = "none"
    /\ previousRole = "none"
    /\ hubBeaconEnabled \in BOOLEAN
    /\ hubBeaconAdvertising = FALSE
    /\ onAir = FALSE
    /\ bleLooped = FALSE

\* The top of the loop; previousRole starts as -1, which is no role.
BleCompute ==
    /\ ble = "compute"
    /\ role' = CurrentRole
    /\ ble' = IF role' # previousRole THEN "apply" ELSE "compute"
    /\ bleLooped' = TRUE
    /\ UNCHANGED <<previousRole, hubBeaconAdvertising, onAir>>

\* applyBleRoleForCurrentProfile reads the profile and the permission again;
\* the role it was called for is what the next loop compares with.
\* (_ScanOnly: the beacon is not stopped when scanning starts.)
BleApply_ScanOnly ==
    /\ ble = "apply"
    /\ hubBeaconAdvertising' = (~UsesBleScanning /\ MayAdvertise)
    /\ onAir' = IF UsesBleScanning THEN onAir ELSE MayAdvertise
    /\ previousRole' = role
    /\ ble' = "compute"
    /\ UNCHANGED <<role, bleLooped>>
BleApply ==
    /\ ble = "apply"
    /\ hubBeaconAdvertising' = (~UsesBleScanning /\ MayAdvertise)
    /\ onAir' = hubBeaconAdvertising'
    /\ previousRole' = role
    /\ ble' = "compute"
    /\ UNCHANGED <<role, bleLooped>>

\* A phone connects to the BLE server initBLE creates: the stack ends the
\* advertising, and tells nobody.
BleCentralConnects ==
    /\ onAir
    /\ onAir' = FALSE
    /\ UNCHANGED <<netVars, ble, role, previousRole, hubBeaconAdvertising,
                   hubBeaconEnabled, bleLooped>>

\* applyHubSettings and handleHubPreferences write the preference.
SetBeaconEnabled ==
    /\ hubBeaconEnabled' = ~hubBeaconEnabled
    /\ UNCHANGED <<netVars, bleVars, bleLooped>>

BleStep == (BleCompute \/ BleApply) /\ UNCHANGED <<netVars, hubBeaconEnabled>>

\* A loop of bleTask takes 0.1 s, or 2 s when it scans: at most a tick.
HubStep ==
    /\ Next
    /\ clock' # clock => bleLooped /\ ble = "compute"
    /\ bleLooped' = (bleLooped /\ clock' = clock)
    /\ UNCHANGED <<bleVars, hubBeaconEnabled>>

BeaconNext == BleStep \/ BleCentralConnects \/ SetBeaconEnabled \/ HubStep

BeaconInit == Init /\ BleInit

BeaconSpec == BeaconInit /\ [][BeaconNext]_vars

\* Both tasks are scheduled and time passes, however often the user toggles the
\* preference; an access point that is retried for ever starts in the end.
BeaconFairSpec ==
    /\ BeaconSpec
    /\ WF_vars(HubStep /\ NetStep)
    /\ SF_vars(HubStep /\ TimePasses)
    /\ SF_vars(HubStep /\ NetPublish /\ hubApEnabled')
    /\ WF_vars(BleStep)
-----------------------------------------------------------------------------
BeaconTypeOK ==
    /\ TypeOK
    /\ ble \in {"compute", "apply"}
    /\ {role, previousRole} \subseteq Roles
    /\ hubBeaconEnabled \in BOOLEAN
    /\ hubBeaconAdvertising \in BOOLEAN
    /\ onAir \in BOOLEAN
    /\ bleLooped \in BOOLEAN

\* A roaming hub does not tell collars that they are at home: one that stays
\* Portable or Off-Grid ends up off the air, although the BLE task reads the
\* profile and the permission twice and may see two different pairs.  (A hub that
\* nobody asks for another mode: see ScannerSilent.)
RoamingSilent ==
    <>[](hubCommProfile \in {"portable", "off_grid"}) => <>[]~onAir

\* bleTask "advertises the Home beacon in Home mode or scans for Lost Alert BLE find
\* beacons in Portable/Off-Grid modes" (HOME_HUB_RUNTIME_DECISIONS.md, line 46): when it
\* is to scan and finds nothing to apply, the Home beacon is off the air.  It fails when
\* a mode is requested between two loops: the role bleTask remembers is the one it had
\* computed, not the one it applied.
ScannerSilent ==
    [][BleCompute /\ role' = "scan" /\ ble' = "compute" => ~onAir]_vars
=============================================================================
