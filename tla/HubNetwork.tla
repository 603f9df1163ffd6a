----------------------------- MODULE HubNetwork -----------------------------
(***************************************************************************)
(* The Home Hub's network task (hub/platformio/src/main.cpp, networkTask)  *)
(* with the tasks that ask it to change the communications profile         *)
(* (requestHubMode, called by the web server and the serial console).      *)
(*                                                                         *)
(* networkTask owns every Wi-Fi change.  One loop iteration samples the    *)
(* clock, takes a request from a queue of length one, applies it once its  *)
(* HTTP reply has had time to leave, and ticks the failover policy.        *)
(* Requesters run on other tasks: they read the profile, set the           *)
(* modeChangePending flag and send to the queue in three separate steps.   *)
(* The radio environment associates, drops and refuses access points.      *)
(***************************************************************************)
EXTENDS WifiFailover, Sequences, FiniteSets

CONSTANTS
    Requesters,   \* the tasks that may call requestHubMode
    Provisioning  \* hubProvisioningMode: keep the access point up

ASSUME NetworkAssumption ==
    /\ IsFiniteSet(Requesters)
    /\ Provisioning \in BOOLEAN

VARIABLES
    hubCommProfile,       \* "home", "portable" or "off_grid"
    policy,               \* networkTask's WifiFailover
    net,                  \* networkTask's program counter
    netNow,               \* the clock reading of this iteration
    hasRequest, pending,  \* networkTask's request slot
    networkQueue,         \* requests on their way to networkTask
    modeChangePending,    \* one request at a time
    caller,               \* each requester: where it is and what it asks
    associated,           \* WiFi.status() == WL_CONNECTED
    hubApEnabled,         \* the local access point is up
    homeBeaconAllowed,    \* the BLE task may advertise Home
    staConnected,         \* what the other tasks are told about the uplink
    clearOfflineSessions, \* tell the web task to forget PIN sessions
    clock                 \* millis()

netVars == <<hubCommProfile, policy, net, netNow, hasRequest, pending, networkQueue,
             modeChangePending, caller, associated, hubApEnabled, homeBeaconAllowed,
             staConnected, clearOfflineSessions, clock>>

\* What one step of one task leaves alone, in groups.
taskVars == <<net, netNow, hasRequest, pending, staConnected>>
heldVars == <<hasRequest, pending>>
requestVars == <<networkQueue, modeChangePending, caller>>
radioVars == <<hubCommProfile, policy, associated, hubApEnabled, homeBeaconAllowed,
               clearOfflineSessions>>

Profiles == {"home", "portable", "off_grid"}
Requests == [profile : Profiles, confirmed : BOOLEAN, requestedAt : Clock]
NoRequest == [profile |-> "home", confirmed |-> FALSE, requestedAt |-> 0]
CallerStates == [at : {"idle", "checked", "flagged"}, profile : Profiles,
                 confirmed : BOOLEAN]
IdleCaller == [at |-> "idle", profile |-> "home", confirmed |-> FALSE]

MaxLag == 1      \* an iteration takes 10 ms: the clock is never sampled later than this
ReplyTicks == 1  \* a request is applied this long after it was made (500 ms)

NeedsLocalAp(profile) == profile = "off_grid" \/ Provisioning \/ ~HasPrimary
-----------------------------------------------------------------------------
(* The radio operations behind perform().                                  *)

\* applyWifiRoleForCurrentProfile: starting the access point may fail.
ApplyWifiRole(profile) ==
    IF NeedsLocalAp(profile)
    THEN \/ hubApEnabled' = TRUE
         \/ ~hubApEnabled /\ UNCHANGED hubApEnabled
    ELSE hubApEnabled' = FALSE

\* setHubCommunicationsProfile, called first with the requested profile and
\* then with the one the radio operation selects: leaving Off-Grid in either
\* call ends the PIN sessions.
SetProfile(requested, selected) ==
    /\ hubCommProfile' = selected
    /\ clearOfflineSessions' =
         (\/ clearOfflineSessions
          \/ (hubCommProfile = "off_grid" /\ requested # "off_grid")
          \/ (requested = "off_grid" /\ selected # "off_grid"))

\* The profile an operation selects: it keeps the requested one while searching.
Selected(do, requested) ==
    CASE do = "StartOffGrid"       -> "off_grid"
      [] do = "ConnectedPrimary"   -> "home"
      [] do = "ConnectedSecondary" -> "portable"
      [] do \in {"Connect", "None"} -> requested

\* Connecting and going Off-Grid drop the current association first and
\* silence the Home beacon; only the primary network allows it again.
\* The driver reports the drop at once or only later (as LinkDown).
\* (_KeepsBeacon: the beacon is not silenced before a new search.)
Perform_KeepsBeacon(do, requested) ==
    /\ SetProfile(requested, Selected(do, requested))
    /\ IF do = "None" THEN UNCHANGED hubApEnabled
                      ELSE ApplyWifiRole(Selected(do, requested))
    /\ homeBeaconAllowed' = (homeBeaconAllowed \/ do = "ConnectedPrimary")
    /\ associated' \in IF do \in {"Connect", "StartOffGrid"} THEN {FALSE, associated}
                      ELSE {associated}
Perform(do, requested) ==
    /\ SetProfile(requested, Selected(do, requested))
    /\ IF do = "None" THEN UNCHANGED hubApEnabled
                      ELSE ApplyWifiRole(Selected(do, requested))
    /\ homeBeaconAllowed' = IF do = "None" THEN homeBeaconAllowed
                            ELSE do = "ConnectedPrimary"
    /\ associated' \in IF do \in {"Connect", "StartOffGrid"} THEN {FALSE, associated}
                      ELSE {associated}
-----------------------------------------------------------------------------
(* Boot: the profile was read from flash, and networkTask performs its     *)
(* first action before it enters its loop.                                 *)
Init ==
    /\ net = "boot"
    /\ hubCommProfile \in Profiles
    /\ policy = IdlePolicy
    /\ netNow = 0
    /\ hasRequest = FALSE
    /\ pending = NoRequest
    /\ networkQueue = <<>>
    /\ modeChangePending = FALSE
    /\ caller = [r \in Requesters |-> IdleCaller]
    /\ associated = FALSE
    /\ hubApEnabled = FALSE
    /\ homeBeaconAllowed = FALSE
    /\ staConnected = FALSE
    /\ clearOfflineSessions = FALSE
    /\ clock = 0

NetBoot ==
    /\ net = "boot"
    /\ LET first == IF hubCommProfile = "off_grid" THEN OffGrid(policy)
                    ELSE Begin(policy, clock, hubCommProfile = "portable")
       IN /\ policy' = first.policy
          /\ Perform(first.do, hubCommProfile)
    /\ net' = "sample"
    /\ UNCHANGED <<heldVars, requestVars, netNow, staConnected, clock>>

\* The top of the loop.
NetSample ==
    /\ net = "sample"
    /\ netNow' = clock
    /\ net' = "receive"
    /\ UNCHANGED <<heldVars, requestVars, radioVars, staConnected, clock>>

\* Take a request if none is held; it may be younger than the sample.
NetReceive ==
    /\ net = "receive"
    /\ IF ~hasRequest /\ networkQueue # <<>>
       THEN /\ pending' = Head(networkQueue)
            /\ networkQueue' = Tail(networkQueue)
            /\ hasRequest' = TRUE
       ELSE UNCHANGED <<heldVars, networkQueue>>
    /\ net' = "apply"
    /\ UNCHANGED <<radioVars, netNow, modeChangePending, caller, staConnected, clock>>

RequestDue == hasRequest /\ Since(netNow, pending.requestedAt) >= ReplyTicks

\* Off-Grid is left only by a request that carries the user's confirmation;
\* this is decided here, against the profile of now, not of the request.
\* (_Unchecked: the check of the requester is trusted.)
MayApply_Unchecked(request) == TRUE
MayApply(request) ==
    hubCommProfile # "off_grid" \/ request.profile = "off_grid" \/ request.confirmed

\* The request is over and the next one may be made, whether this one was
\* applied or refused.
ReleaseFlag == modeChangePending' = FALSE

NetApply ==
    /\ net = "apply"
    /\ RequestDue
    /\ IF MayApply(pending)
       THEN LET next == IF pending.profile = "off_grid" THEN OffGrid(policy)
                        ELSE Begin(policy, netNow, pending.profile = "portable")
            IN /\ policy' = next.policy
               /\ Perform(next.do, pending.profile)
       ELSE UNCHANGED radioVars
    /\ hasRequest' = FALSE
    /\ pending' = NoRequest
    /\ ReleaseFlag
    /\ net' = "tick"
    /\ UNCHANGED <<netNow, networkQueue, caller, staConnected, clock>>

NetNothingDue ==
    /\ net = "apply"
    /\ ~RequestDue
    /\ net' = "tick"
    /\ UNCHANGED <<heldVars, requestVars, radioVars, netNow, staConnected, clock>>

\* policy.tick and the action it returns.
NetTick ==
    /\ net = "tick"
    /\ LET next == Tick(policy, netNow, associated)
       IN /\ policy' = next.policy
          /\ Perform(next.do, hubCommProfile)
    /\ net' = "publish"
    /\ UNCHANGED <<heldVars, requestVars, netNow, staConnected, clock>>

\* Maintenance retries an access point that failed to start, every five seconds
\* in the program, at the end of any iteration here.  (_Never: it does not.)
RetryAp_Never == UNCHANGED hubApEnabled
RetryAp ==
    \/ UNCHANGED hubApEnabled
    \/ /\ NeedsLocalAp(hubCommProfile) /\ ~hubApEnabled
       /\ ApplyWifiRole(hubCommProfile)

\* updateConnectivityState re-reads the driver: the link may have dropped since
\* the tick.
NetPublish ==
    /\ net = "publish"
    /\ staConnected' = associated
    /\ homeBeaconAllowed' = (homeBeaconAllowed /\ associated)
    /\ RetryAp
    /\ net' = "sample"
    /\ UNCHANGED <<heldVars, requestVars, hubCommProfile, policy, netNow, associated,
                   clearOfflineSessions, clock>>
-----------------------------------------------------------------------------
(* requestHubMode, and the check its callers make before they call it.     *)

RequestCheck(r, profile, confirmed) ==
    /\ net # "boot"
    /\ caller[r].at = "idle"
    /\ ~(hubCommProfile = "off_grid" /\ profile # "off_grid" /\ ~confirmed)
    /\ caller' = [caller EXCEPT ![r] = [at |-> "checked", profile |-> profile,
                                        confirmed |-> confirmed]]
    /\ UNCHANGED <<taskVars, radioVars, networkQueue, modeChangePending, clock>>

\* modeChangePending.exchange(true): refused when it was already set.
\* (_Racy: the old value is not looked at.)
RequestFlag_Racy(r) ==
    /\ caller[r].at = "checked"
    /\ modeChangePending' = TRUE
    /\ caller' = [caller EXCEPT ![r].at = "flagged"]
    /\ UNCHANGED <<taskVars, radioVars, networkQueue, clock>>
RequestFlag(r) ==
    /\ caller[r].at = "checked"
    /\ modeChangePending' = TRUE
    /\ caller' = [caller EXCEPT ![r] = IF modeChangePending THEN IdleCaller
                                       ELSE [@ EXCEPT !.at = "flagged"]]
    /\ UNCHANGED <<taskVars, radioVars, networkQueue, clock>>

\* xQueueSend with no wait on a queue of one; a full queue gives the flag back.
RequestSend(r) ==
    /\ caller[r].at = "flagged"
    /\ IF networkQueue = <<>>
       THEN /\ networkQueue' = <<[profile |-> caller[r].profile,
                                  confirmed |-> caller[r].confirmed,
                                  requestedAt |-> clock]>>
            /\ UNCHANGED modeChangePending
       ELSE /\ modeChangePending' = FALSE
            /\ UNCHANGED networkQueue
    /\ caller' = [caller EXCEPT ![r] = IdleCaller]
    /\ UNCHANGED <<taskVars, radioVars, clock>>
-----------------------------------------------------------------------------
(* The environment.                                                        *)

\* The driver associates with the network it was told to join, or loses it.
LinkUp ==
    /\ ~associated
    /\ policy.phase \in Searching
    /\ associated' = TRUE
    /\ UNCHANGED <<taskVars, requestVars, hubCommProfile, policy, hubApEnabled, homeBeaconAllowed,
                   clearOfflineSessions, clock>>

LinkDown ==
    /\ associated
    /\ associated' = FALSE
    /\ UNCHANGED <<taskVars, requestVars, hubCommProfile, policy, hubApEnabled, homeBeaconAllowed,
                   clearOfflineSessions, clock>>

\* The web task ends the PIN sessions it was told to end.
WebClearSessions ==
    /\ clearOfflineSessions
    /\ clearOfflineSessions' = FALSE
    /\ UNCHANGED <<taskVars, requestVars, hubCommProfile, policy, associated, hubApEnabled,
                   homeBeaconAllowed, clock>>

\* The clock advances, but not past an iteration that has not sampled it.
TimePasses ==
    /\ net # "boot"
    /\ Since(clock, netNow) < MaxLag
    /\ clock' = (clock + 1) % ClockMod
    /\ UNCHANGED <<taskVars, requestVars, radioVars>>
-----------------------------------------------------------------------------
NetStep == NetBoot \/ NetSample \/ NetReceive \/ NetApply \/ NetNothingDue \/ NetTick \/ NetPublish

RequesterStep(r) ==
    \/ \E profile \in Profiles, confirmed \in BOOLEAN : RequestCheck(r, profile, confirmed)
    \/ RequestFlag(r)
    \/ RequestSend(r)

Next ==
    \/ NetStep
    \/ \E r \in Requesters : RequesterStep(r)
    \/ LinkUp \/ LinkDown
    \/ WebClearSessions
    \/ TimePasses

Spec == Init /\ [][Next]_netVars

\* networkTask and a called requester are scheduled, time passes, and the web
\* task keeps looping.  Nothing is owed by users or by the radio environment,
\* except that an access point which is retried for ever starts in the end.
Fairness ==
    /\ WF_netVars(NetStep)
    /\ WF_netVars(TimePasses)
    /\ WF_netVars(WebClearSessions)
    /\ \A r \in Requesters : WF_netVars(RequestFlag(r) \/ RequestSend(r))
    /\ SF_netVars(NetPublish /\ hubApEnabled')

FairSpec == Spec /\ Fairness
-----------------------------------------------------------------------------
(* Properties.                                                             *)

TypeOK ==
    /\ hubCommProfile \in Profiles
    /\ policy \in Policies
    /\ net \in {"boot", "sample", "receive", "apply", "tick", "publish"}
    /\ netNow \in Clock
    /\ hasRequest \in BOOLEAN
    /\ pending \in Requests
    /\ networkQueue \in {<<>>} \union {<<q>> : q \in Requests}
    /\ modeChangePending \in BOOLEAN
    /\ caller \in [Requesters -> CallerStates]
    /\ associated \in BOOLEAN
    /\ hubApEnabled \in BOOLEAN
    /\ homeBeaconAllowed \in BOOLEAN
    /\ staConnected \in BOOLEAN
    /\ clearOfflineSessions \in BOOLEAN
    /\ clock \in Clock

\* The profile the user sees and the phase of the failover policy are two
\* variables, written in different places; they agree on being Off-Grid.
LatchAgrees == net # "boot" => (hubCommProfile = "off_grid" <=> policy.phase = "OffGrid")

\* The modeChangePending flag has exactly one owner: a requester that has not
\* sent yet, the queue, or the network task.  It never leaks (a mode change
\* would be refused for ever) and it never has two owners (a request would
\* find the queue of one full).
FlagOwners ==
    Cardinality({r \in Requesters : caller[r].at = "flagged"})
      + Len(networkQueue) + (IF hasRequest THEN 1 ELSE 0)

FlagHasOneOwner == FlagOwners = (IF modeChangePending THEN 1 ELSE 0)

\* The Home beacon tells a collar it is at home, so it may be allowed only on
\* the primary network, whatever requests and outages came before.
BeaconMeansHome ==
    homeBeaconAllowed => policy.phase = "OnlinePrimary" /\ hubCommProfile = "home"

\* A search ends within one budget of the outage that began it: after a tick
\* the hub is never still searching with the budget spent.
RecoveryBounded ==
    net = "publish" /\ policy.phase \in Searching => Elapsed(policy, netNow) < RecoveryTicks

\* Off-Grid is latched: it is left only when the network task applies a
\* request that carries a confirmation, even if the request was checked by
\* its caller when the hub was not Off-Grid yet.
OffGridLatched ==
    [][hubCommProfile = "off_grid" /\ hubCommProfile' # "off_grid"
         => hasRequest /\ pending.confirmed]_netVars

\* One outage has one deadline: trying the other candidate does not restart it.
OneDeadline ==
    [][net = "tick" /\ {policy.phase, policy'.phase} \subseteq Searching
         => policy'.started = policy.started]_netVars

\* A search that no request restarts ends, online or Off-Grid.
SearchEnds == policy.phase \in Searching ~> (policy.phase \notin Searching \/ hasRequest)

\* In Off-Grid the access point comes up, however often its start has failed.
OffGridHasAp == hubCommProfile = "off_grid" ~> (hubApEnabled \/ hubCommProfile # "off_grid")

(* The hub implements the latch of its documentation.                      *)
OffGridMode == hubCommProfile = "off_grid" /\ (net = "boot" \/ policy.phase = "OffGrid")
LatchMode ==
    IF OffGridMode THEN "off_grid"
    ELSE IF net # "boot" /\ policy.phase \in Online THEN "online" ELSE "searching"

Consented ==
    \/ \E r \in Requesters : caller[r].at = "flagged" /\ caller[r].confirmed
    \/ \E i \in DOMAIN networkQueue : networkQueue[i].confirmed
    \/ hasRequest /\ pending.confirmed

Latch == INSTANCE OffGridLatch WITH mode <- LatchMode, consent <- Consented
LatchSpec == Latch!LatchSpec
=============================================================================
