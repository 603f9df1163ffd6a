-------------------------- MODULE HubNetwork_proofs --------------------------
(***************************************************************************)
(* Proofs about the network task.  Two variables say whether the hub is    *)
(* Off-Grid, the profile and the phase of the failover policy; every radio *)
(* operation sets both or neither.  A request has one owner at a time, so  *)
(* applying one spends all the consent there is.  With both facts the      *)
(* network task implements the latch of its documentation.  Then the BLE   *)
(* task beside it (HubBeacon): where a hub nobody asks for a mode cannot   *)
(* outrun it.  Last the Home Hub's network task (P4Network): it forgets no *)
(* request.                                                                *)
(***************************************************************************)
EXTENDS HubBeacon, P4Network, FiniteSetTheorems, TLAPS

USE DEF taskVars, heldVars, requestVars, radioVars

Flagged == {r \in Requesters : caller[r].at = "flagged"}

\* Who owns the flag: nobody, one requester, the queue, or the network task.
OneOwner ==
    \/ ~modeChangePending /\ Flagged = {} /\ networkQueue = <<>> /\ ~hasRequest
    \/ /\ modeChangePending /\ networkQueue = <<>> /\ ~hasRequest
       /\ \E r \in Requesters : Flagged = {r}
    \/ modeChangePending /\ Flagged = {} /\ networkQueue # <<>> /\ ~hasRequest
    \/ modeChangePending /\ Flagged = {} /\ networkQueue = <<>> /\ hasRequest

\* A hub that searches has something to search for.
Configured == policy.phase \in Searching \union Online => HasPrimary \/ HasSecondary

\* The inductive invariant.
IInv ==
    /\ TypeOK
    /\ LatchAgrees /\ BeaconMeansHome /\ Configured
    /\ OneOwner /\ RecoveryBounded

\* What a policy operation other than tick does, and what tick does.
Starts(op) ==
    \/ op.do = "StartOffGrid" /\ op.policy.phase = "OffGrid"
    \/ op.do = "Connect" /\ op.policy.phase \in Searching

Ticks(op, p) ==
    \/ op.do = "None" /\ op.policy = p
    \/ Starts(op) /\ p.phase \in Searching \union Online
    \/ /\ p.phase \in Searching
       /\ \/ op.do = "ConnectedPrimary" /\ op.policy.phase = "OnlinePrimary"
          \/ op.do = "ConnectedSecondary" /\ op.policy.phase = "OnlineSecondary"
-----------------------------------------------------------------------------
(* The policy.                                                             *)

LEMMA ClockArithmetic ==
    ASSUME NEW t \in Clock
    PROVE  Since(t, t) = 0 /\ (t + 1) % ClockMod \in Clock
  BY FailoverAssumption DEF Since, Clock

LEMMA SinceIsNatural == ASSUME NEW t \in Clock, NEW s \in Clock PROVE Since(t, s) \in Nat
  <1>1. t - s \in Int /\ ClockMod \in Nat /\ ClockMod > 0
    BY FailoverAssumption DEF Clock
  <1>2. ASSUME NEW i \in Int PROVE i % ClockMod \in Nat
    BY <1>1
  <1> QED BY <1>1, <1>2 DEF Since

LEMMA OffGridStarts ==
    ASSUME NEW p \in Policies
    PROVE  OffGrid(p).policy \in Policies /\ Starts(OffGrid(p))
           /\ OffGrid(p).policy.phase = "OffGrid"
  BY DEF OffGrid, Policies, Phases, Starts

LEMMA BeginStarts ==
    ASSUME NEW p \in Policies, NEW t \in Clock, NEW prefer \in BOOLEAN
    PROVE  /\ Begin(p, t, prefer).policy \in Policies
           /\ Starts(Begin(p, t, prefer))
           /\ Begin(p, t, prefer).policy.phase \in Searching =>
                Begin(p, t, prefer).policy.started = t /\ (HasPrimary \/ HasSecondary)
  <1>1. CASE ~HasPrimary /\ ~HasSecondary
    <2> DEFINE q == [p EXCEPT !.started = t]
    <2>1. q \in Policies
      BY DEF Policies
    <2>2. Begin(p, t, prefer) = OffGrid(q)
      BY <1>1 DEF Begin
    <2> HIDE DEF q
    <2> QED BY <2>1, <2>2, OffGridStarts DEF Searching
  <1>2. CASE HasPrimary \/ HasSecondary
    BY <1>2 DEF Begin, Policies, Phases, Searching, Starts
  <1> QED BY <1>1, <1>2

\* A search step gives up, tries the other candidate, or waits; it keeps the
\* beginning of the outage, and goes on only within the budget.
LEMMA SearchSteps ==
    ASSUME NEW p \in Policies, p.phase \in Searching, NEW t \in Clock
    PROVE  /\ SearchStep(p, t).policy \in Policies
           /\ Ticks(SearchStep(p, t), p)
           /\ SearchStep(p, t).policy.phase \in Searching =>
                /\ SearchStep(p, t).policy.started = p.started
                /\ ~Exhausted(p, t)
  <1>1. CASE Exhausted(p, t)
    BY <1>1, OffGridStarts DEF SearchStep, Ticks, Searching
  <1>2. CASE ~Exhausted(p, t) /\ MaySwitch(p, t)
    BY <1>2 DEF SearchStep, Switch, Policies, Phases, Searching, Starts, Ticks
  <1>3. CASE ~Exhausted(p, t) /\ ~MaySwitch(p, t)
    BY <1>3 DEF SearchStep, Stay, Ticks
  <1> QED BY <1>1, <1>2, <1>3

LEMMA TickTicks ==
    ASSUME NEW p \in Policies, NEW t \in Clock, NEW connected \in BOOLEAN
    PROVE  /\ Tick(p, t, connected).policy \in Policies
           /\ Ticks(Tick(p, t, connected), p)
           /\ Tick(p, t, connected).policy.phase \in Searching =>
                Elapsed(Tick(p, t, connected).policy, t) < RecoveryTicks
           /\ {p.phase, Tick(p, t, connected).policy.phase} \subseteq Searching =>
                Tick(p, t, connected).policy.started = p.started
           /\ Tick(p, t, connected).policy.phase \in Searching \union Online =>
                p.phase \in Searching \union Online
  <1> USE DEF Searching, Online
  <1>1. CASE p.phase \in {"OffGrid", "Idle"} \/ (p.phase \in Online /\ connected)
    BY <1>1 DEF Tick, Stay, Ticks
  <1>2. CASE p.phase \in Online /\ ~connected
    <2>1. Tick(p, t, connected) = Begin(p, t, FALSE)
      BY <1>2 DEF Tick
    <2>2. /\ Begin(p, t, FALSE).policy \in Policies /\ Starts(Begin(p, t, FALSE))
          /\ Begin(p, t, FALSE).policy.phase \in Searching =>
               Begin(p, t, FALSE).policy.started = t
      BY BeginStarts
    <2>3. Begin(p, t, FALSE).policy.phase \in Searching =>
            Elapsed(Begin(p, t, FALSE).policy, t) < RecoveryTicks
      <3> DEFINE q == Begin(p, t, FALSE).policy
      <3>1. SUFFICES ASSUME q.phase \in Searching PROVE Elapsed(q, t) < RecoveryTicks
        OBVIOUS
      <3>2. q.started = t
        BY <2>2, <3>1
      <3> HIDE DEF q
      <3>3. Elapsed(q, t) = 0
        BY <3>2, ClockArithmetic DEF Elapsed
      <3>4. RecoveryTicks \in Nat /\ RecoveryTicks > 0
        BY FailoverAssumption
      <3> QED BY <3>3, <3>4
    <2>4. p.phase \notin Searching /\ p.phase \in Searching \union Online
      BY <1>2
    <2> QED BY <2>1, <2>2, <2>3, <2>4 DEF Ticks
  <1>3. CASE p.phase \in Searching /\ connected
    BY <1>3 DEF Tick, Associated, Policies, Phases, Ticks
  <1>4. CASE p.phase \in Searching /\ ~connected
    <2>1. Tick(p, t, connected) = SearchStep(p, t)
      BY <1>4 DEF Tick
    <2>2. Elapsed(p, t) \in Nat
      BY SinceIsNatural DEF Elapsed, Policies
    <2>3. SearchStep(p, t).policy.phase \in Searching =>
            Elapsed(SearchStep(p, t).policy, t) < RecoveryTicks
      BY <1>4, <2>2, SearchSteps, FailoverAssumption DEF Exhausted, Elapsed
    <2> QED BY <1>4, <2>1, <2>3, SearchSteps
  <1>5. p.phase \in {"OffGrid", "Idle"} \union Searching \union Online
    BY DEF Policies, Phases
  <1> QED BY <1>1, <1>2, <1>3, <1>4, <1>5
-----------------------------------------------------------------------------
(* Radio operations, and the steps that perform one.                       *)

LEMMA Performed ==
    ASSUME TypeOK, NEW do \in Actions, NEW requested \in Profiles, Perform(do, requested)
    PROVE  /\ hubCommProfile' = Selected(do, requested)
           /\ hubCommProfile' \in Profiles
           /\ hubApEnabled' \in BOOLEAN
           /\ associated' \in BOOLEAN
           /\ clearOfflineSessions' \in BOOLEAN
           /\ homeBeaconAllowed' \in BOOLEAN
           /\ homeBeaconAllowed' => do = "ConnectedPrimary" \/ (do = "None" /\ homeBeaconAllowed)
  <1>1. hubCommProfile' = Selected(do, requested)
    BY DEF Perform, SetProfile
  <1>2. Selected(do, requested) \in Profiles
    BY DEF Selected, Actions, Profiles
  <1>3. hubApEnabled' \in BOOLEAN
    BY DEF Perform, ApplyWifiRole, TypeOK
  <1>4. associated' \in BOOLEAN
    BY DEF Perform, TypeOK
  <1>5. clearOfflineSessions' \in BOOLEAN
    BY DEF Perform, SetProfile, TypeOK
  <1>6. /\ homeBeaconAllowed' \in BOOLEAN
        /\ homeBeaconAllowed' => do = "ConnectedPrimary" \/ (do = "None" /\ homeBeaconAllowed)
    BY DEF Perform, TypeOK
  <1> QED BY <1>1, <1>2, <1>3, <1>4, <1>5, <1>6

\* A step that starts a search or goes Off-Grid keeps profile and phase together.
LEMMA Started ==
    ASSUME TypeOK, NEW requested \in Profiles, NEW op, op.policy \in Policies,
           Starts(op), Perform(op.do, requested),
           op.do = "Connect" => requested # "off_grid"
    PROVE  /\ hubCommProfile' \in Profiles
           /\ hubCommProfile' = "off_grid" <=> op.policy.phase = "OffGrid"
           /\ op.policy.phase # "OffGrid" => hubCommProfile' = requested
           /\ homeBeaconAllowed' = FALSE
  <1>1. op.do \in Actions /\ op.do \notin {"ConnectedPrimary", "None"}
    BY DEF Starts, Actions
  <1>2. /\ hubCommProfile' = Selected(op.do, requested)
        /\ hubCommProfile' \in Profiles
        /\ homeBeaconAllowed' = FALSE
    BY <1>1, Performed
  <1>3. CASE op.do = "StartOffGrid"
    BY <1>2, <1>3 DEF Selected, Starts, Searching
  <1>4. CASE op.do = "Connect"
    BY <1>2, <1>4 DEF Selected, Starts, Searching
  <1> QED BY <1>2, <1>3, <1>4 DEF Starts

\* What the boot and an accepted request perform.
LEMMA BootStarts ==
    ASSUME TypeOK, NetBoot
    PROVE  \E op : /\ op.policy \in Policies /\ Starts(op)
                   /\ op.do = "Connect" => hubCommProfile # "off_grid"
                   /\ op.policy.phase \in Searching => HasPrimary \/ HasSecondary
                   /\ policy' = op.policy /\ Perform(op.do, hubCommProfile)
  <1> DEFINE op == IF hubCommProfile = "off_grid" THEN OffGrid(policy)
                   ELSE Begin(policy, clock, hubCommProfile = "portable")
  <1>1. op.policy \in Policies /\ Starts(op)
        /\ (op.do = "Connect" => hubCommProfile # "off_grid")
        /\ (op.policy.phase \in Searching => HasPrimary \/ HasSecondary)
    <2>1. CASE hubCommProfile = "off_grid"
      BY <2>1, OffGridStarts DEF TypeOK, Starts, Searching
    <2>2. CASE hubCommProfile # "off_grid"
      BY <2>2, BeginStarts DEF TypeOK
    <2> QED BY <2>1, <2>2
  <1>2. policy' = op.policy /\ Perform(op.do, hubCommProfile)
    BY DEF NetBoot
  <1> HIDE DEF op
  <1> QED BY <1>1, <1>2

LEMMA ApplyStarts ==
    ASSUME TypeOK, NetApply, MayApply(pending)
    PROVE  \E op : /\ op.policy \in Policies /\ Starts(op)
                   /\ op.do = "Connect" => pending.profile # "off_grid"
                   /\ op.policy.phase \in Searching => HasPrimary \/ HasSecondary
                   /\ policy' = op.policy /\ Perform(op.do, pending.profile)
  <1> DEFINE op == IF pending.profile = "off_grid" THEN OffGrid(policy)
                   ELSE Begin(policy, netNow, pending.profile = "portable")
  <1>1. op.policy \in Policies /\ Starts(op)
        /\ (op.do = "Connect" => pending.profile # "off_grid")
        /\ (op.policy.phase \in Searching => HasPrimary \/ HasSecondary)
    <2>1. CASE pending.profile = "off_grid"
      BY <2>1, OffGridStarts DEF TypeOK, Starts, Searching
    <2>2. CASE pending.profile # "off_grid"
      BY <2>2, BeginStarts DEF TypeOK
    <2> QED BY <2>1, <2>2
  <1>2. policy' = op.policy /\ Perform(op.do, pending.profile)
    BY DEF NetApply
  <1> HIDE DEF op
  <1> QED BY <1>1, <1>2
-----------------------------------------------------------------------------
(* Profile, phase and beacon are kept together.                            *)

ModeInv == LatchAgrees /\ BeaconMeansHome /\ Configured /\ RecoveryBounded

Quiet ==
    /\ UNCHANGED <<hubCommProfile, policy>>
    /\ homeBeaconAllowed' => homeBeaconAllowed
    /\ net' = "boot" <=> net = "boot"
    /\ net' = "publish" => net = "publish" /\ netNow' = netNow

\* All steps but those that perform a radio operation.
QuietStep ==
    \/ NetSample \/ NetReceive \/ NetNothingDue \/ NetPublish
    \/ NetApply /\ ~MayApply(pending)
    \/ \E r \in Requesters : RequesterStep(r)
    \/ LinkUp \/ LinkDown \/ WebClearSessions \/ TimePasses
    \/ UNCHANGED netVars

LEMMA StepCases ==
    ASSUME [Next]_netVars
    PROVE  QuietStep \/ NetBoot \/ (NetApply /\ MayApply(pending)) \/ NetTick
  BY DEF Next, NetStep, QuietStep

LEMMA QuietSteps == ASSUME QuietStep PROVE Quiet
  <1>1. CASE \E r \in Requesters : RequesterStep(r)
    BY <1>1 DEF RequesterStep, RequestCheck, RequestFlag, RequestSend, Quiet
  <1>2. CASE NetSample \/ NetReceive \/ NetNothingDue
    BY <1>2 DEF NetSample, NetReceive, NetNothingDue, Quiet
  <1>3. CASE NetPublish
    BY <1>3 DEF NetPublish, Quiet
  <1>4. CASE NetApply /\ ~MayApply(pending)
    BY <1>4 DEF NetApply, Quiet
  <1>5. CASE LinkUp \/ LinkDown \/ WebClearSessions \/ TimePasses \/ UNCHANGED netVars
    BY <1>5 DEF LinkUp, LinkDown, WebClearSessions, TimePasses, netVars, Quiet
  <1> QED BY <1>1, <1>2, <1>3, <1>4, <1>5 DEF QuietStep

LEMMA QuietKeeps == ASSUME IInv, Quiet PROVE ModeInv'
  <1> USE DEF IInv, Quiet
  <1>1. LatchAgrees'
    BY DEF LatchAgrees
  <1>2. BeaconMeansHome'
    BY DEF BeaconMeansHome
  <1>3. Configured'
    BY DEF Configured
  <1>4. RecoveryBounded'
    BY DEF RecoveryBounded, Elapsed, Since
  <1> QED BY <1>1, <1>2, <1>3, <1>4 DEF ModeInv

\* A tick changes the profile only together with the phase.
LEMMA TickModes ==
    ASSUME IInv, NetTick
    PROVE  ModeInv' /\ hubCommProfile' \in Profiles
           /\ (policy.phase = "OffGrid" => UNCHANGED <<policy, hubCommProfile>>)
  <1> DEFINE op == Tick(policy, netNow, associated)
  <1>1. /\ policy' = op.policy /\ Perform(op.do, hubCommProfile)
        /\ net' = "publish" /\ net # "boot" /\ netNow' = netNow
    BY DEF NetTick
  <1>2. TypeOK /\ policy \in Policies /\ hubCommProfile \in Profiles
        /\ (hubCommProfile = "off_grid" <=> policy.phase = "OffGrid")
    BY <1>1 DEF IInv, TypeOK, LatchAgrees
  <1>3. /\ op.policy \in Policies /\ Ticks(op, policy)
        /\ op.policy.phase \in Searching => Elapsed(op.policy, netNow) < RecoveryTicks
        /\ op.policy.phase \in Searching \union Online =>
             policy.phase \in Searching \union Online
    BY TickTicks DEF IInv, TypeOK
  <1> HIDE DEF op
  <1>4. RecoveryBounded'
    BY <1>1, <1>3 DEF RecoveryBounded, Elapsed, Since
  <1>5. Configured'
    BY <1>1, <1>3 DEF Configured, IInv
  <1>6. CASE op.do = "None" /\ op.policy = policy
    <2>1. op.do \in Actions
      BY <1>6 DEF Actions
    <2>2. hubCommProfile' = hubCommProfile /\ (homeBeaconAllowed' => homeBeaconAllowed)
      BY <1>1, <1>2, <1>6, <2>1, Performed DEF Selected
    <2>3. LatchAgrees' /\ BeaconMeansHome'
      BY <1>1, <1>2, <1>6, <2>2 DEF LatchAgrees, BeaconMeansHome, IInv
    <2> QED BY <1>1, <1>2, <1>4, <1>5, <1>6, <2>2, <2>3 DEF ModeInv
  <1>7. CASE Starts(op) /\ policy.phase \in Searching \union Online
    <2>1. hubCommProfile # "off_grid" /\ policy.phase # "OffGrid"
      BY <1>2, <1>7 DEF Searching, Online
    <2>2. /\ hubCommProfile' \in Profiles /\ homeBeaconAllowed' = FALSE
          /\ hubCommProfile' = "off_grid" <=> op.policy.phase = "OffGrid"
      BY <1>1, <1>2, <1>3, <1>7, <2>1, Started
    <2>3. LatchAgrees' /\ BeaconMeansHome'
      BY <1>1, <2>2 DEF LatchAgrees, BeaconMeansHome
    <2> QED BY <1>4, <1>5, <2>1, <2>2, <2>3 DEF ModeInv
  <1>8. CASE /\ policy.phase \in Searching
             /\ \/ op.do = "ConnectedPrimary" /\ op.policy.phase = "OnlinePrimary"
                \/ op.do = "ConnectedSecondary" /\ op.policy.phase = "OnlineSecondary"
    <2>1. op.do \in Actions /\ policy.phase # "OffGrid"
      BY <1>8 DEF Actions, Searching
    <2>2. /\ hubCommProfile' = Selected(op.do, hubCommProfile)
          /\ hubCommProfile' \in Profiles
          /\ homeBeaconAllowed' => op.do = "ConnectedPrimary"
      BY <1>1, <1>2, <1>8, <2>1, Performed
    <2>3. /\ op.do = "ConnectedPrimary" => hubCommProfile' = "home"
          /\ hubCommProfile' # "off_grid"
      BY <1>8, <2>2 DEF Selected
    <2>4. LatchAgrees' /\ BeaconMeansHome'
      BY <1>1, <1>8, <2>2, <2>3 DEF LatchAgrees, BeaconMeansHome
    <2> QED BY <1>4, <1>5, <2>1, <2>2, <2>4 DEF ModeInv
  <1> QED BY <1>3, <1>6, <1>7, <1>8 DEF Ticks

LEMMA ModeKept == ASSUME IInv, [Next]_netVars PROVE ModeInv' /\ hubCommProfile' \in Profiles
  <1>1. CASE QuietStep
    BY <1>1, QuietSteps, QuietKeeps DEF IInv, TypeOK, Quiet
  <1>2. ASSUME NEW requested \in Profiles, NEW op, op.policy \in Policies, Starts(op),
               op.do = "Connect" => requested # "off_grid",
               op.policy.phase \in Searching => HasPrimary \/ HasSecondary,
               policy' = op.policy, Perform(op.do, requested), net' # "publish"
        PROVE  ModeInv' /\ hubCommProfile' \in Profiles
    <2>1. /\ hubCommProfile' \in Profiles /\ homeBeaconAllowed' = FALSE
          /\ hubCommProfile' = "off_grid" <=> policy'.phase = "OffGrid"
      BY <1>2, Started DEF IInv
    <2>2. policy'.phase \notin Online
      BY <1>2 DEF Starts, Searching, Online
    <2>3. LatchAgrees' /\ BeaconMeansHome' /\ Configured' /\ RecoveryBounded'
      BY <1>2, <2>1, <2>2 DEF LatchAgrees, BeaconMeansHome, Configured, RecoveryBounded
    <2> QED BY <2>1, <2>3 DEF ModeInv
  <1>3. CASE NetBoot
    <2>1. TypeOK /\ hubCommProfile \in Profiles /\ net' # "publish"
      BY <1>3 DEF IInv, TypeOK, NetBoot
    <2> QED BY <1>2, <1>3, <2>1, BootStarts
  <1>4. CASE NetApply /\ MayApply(pending)
    <2>1. TypeOK /\ pending.profile \in Profiles /\ net' # "publish"
      BY <1>4 DEF IInv, TypeOK, Requests, NetApply
    <2> QED BY <1>2, <1>4, <2>1, ApplyStarts
  <1>5. CASE NetTick
    BY <1>5, TickModes
  <1> QED BY <1>1, <1>3, <1>4, <1>5, StepCases
-----------------------------------------------------------------------------
(* A request has one owner.                                                *)

\* Who is flagged after a step of one requester.
LEMMA FlaggedAfter ==
    ASSUME TypeOK, NEW r \in Requesters, NEW state, caller' = [caller EXCEPT ![r] = state]
    PROVE  /\ state.at = "flagged" => Flagged' = Flagged \union {r}
           /\ state.at # "flagged" => Flagged' = Flagged \ {r}
  BY DEF TypeOK, Flagged

\* The queue holds one request at most.
LEMMA QueueOfOne ==
    ASSUME TypeOK, networkQueue # <<>>
    PROVE  /\ Head(networkQueue) \in Requests /\ Tail(networkQueue) = <<>>
           /\ Len(networkQueue) = 1 /\ networkQueue[1] = Head(networkQueue)
  <1>1. PICK q \in Requests : networkQueue = <<q>>
    BY DEF TypeOK
  <1> QED BY <1>1

LEMMA OwnerKept == ASSUME IInv, [Next]_netVars PROVE OneOwner'
  <1>1. TypeOK /\ OneOwner
    BY DEF IInv
  <1>2. CASE UNCHANGED <<modeChangePending, caller, networkQueue, hasRequest>>
    BY <1>1, <1>2 DEF OneOwner, Flagged
  <1>3. CASE NetReceive
    <2>1. CASE hasRequest \/ networkQueue = <<>>
      BY <1>2, <1>3, <2>1 DEF NetReceive
    <2>2. CASE ~hasRequest /\ networkQueue # <<>>
      <3>1. networkQueue' = <<>> /\ hasRequest'
        BY <1>1, <1>3, <2>2, QueueOfOne DEF NetReceive
      <3>2. UNCHANGED <<modeChangePending, caller>>
        BY <1>3 DEF NetReceive
      <3> QED BY <1>1, <2>2, <3>1, <3>2 DEF OneOwner, Flagged
    <2> QED BY <2>1, <2>2
  <1>4. CASE NetApply
    <2>1. hasRequest /\ ~hasRequest' /\ modeChangePending' = FALSE
          /\ UNCHANGED <<caller, networkQueue>>
      BY <1>4 DEF NetApply, RequestDue, ReleaseFlag
    <2> QED BY <1>1, <2>1 DEF OneOwner, Flagged
  <1>5. ASSUME NEW r \in Requesters, RequesterStep(r) PROVE OneOwner'
    <2>1. CASE \E profile \in Profiles, confirmed \in BOOLEAN : RequestCheck(r, profile, confirmed)
      <3>1. PICK profile \in Profiles, confirmed \in BOOLEAN : RequestCheck(r, profile, confirmed)
        BY <2>1
      <3>2. Flagged' = Flagged
        BY <1>1, <3>1, FlaggedAfter DEF RequestCheck, Flagged
      <3>3. UNCHANGED <<modeChangePending, networkQueue, hasRequest>>
        BY <3>1 DEF RequestCheck
      <3> QED BY <1>1, <3>2, <3>3 DEF OneOwner
    <2>2. CASE RequestFlag(r)
      <3>1. r \notin Flagged /\ modeChangePending' = TRUE /\ UNCHANGED <<networkQueue, hasRequest>>
        BY <2>2 DEF RequestFlag, Flagged
      <3>2. CASE modeChangePending
        <4>1. caller' = [caller EXCEPT ![r] = IdleCaller]
          BY <2>2, <3>2 DEF RequestFlag
        <4>2. IdleCaller.at # "flagged"
          BY DEF IdleCaller
        <4>3. Flagged' = Flagged \ {r}
          BY <1>1, <4>1, <4>2, FlaggedAfter
        <4> QED BY <1>1, <3>1, <3>2, <4>3 DEF OneOwner
      <3>3. CASE ~modeChangePending
        <4>1. caller' = [caller EXCEPT ![r] = [caller[r] EXCEPT !.at = "flagged"]]
          BY <2>2, <3>3 DEF RequestFlag
        <4>2. [caller[r] EXCEPT !.at = "flagged"].at = "flagged"
          BY <1>1 DEF TypeOK, CallerStates
        <4>3. Flagged' = Flagged \union {r}
          BY <1>1, <4>1, <4>2, FlaggedAfter
        <4> QED BY <1>1, <3>1, <3>3, <4>3 DEF OneOwner
      <3> QED BY <3>2, <3>3
    <2>3. CASE RequestSend(r)
      <3>1. r \in Flagged /\ hasRequest' = hasRequest
        BY <2>3 DEF RequestSend, Flagged
      <3>2. Flagged' = Flagged \ {r}
        <4>1. caller' = [caller EXCEPT ![r] = IdleCaller] /\ IdleCaller.at # "flagged"
          BY <2>3 DEF RequestSend, IdleCaller
        <4> QED BY <1>1, <4>1, FlaggedAfter
      <3>3. Flagged = {r} /\ modeChangePending /\ networkQueue = <<>> /\ ~hasRequest
        BY <1>1, <3>1 DEF OneOwner
      <3>4. networkQueue' # <<>> /\ modeChangePending' = modeChangePending
        BY <2>3, <3>3 DEF RequestSend
      <3> QED BY <3>1, <3>2, <3>3, <3>4 DEF OneOwner
    <2> QED BY <1>5, <2>1, <2>2, <2>3 DEF RequesterStep
  <1>6. CASE NetBoot \/ NetSample \/ NetNothingDue \/ NetTick \/ NetPublish
    BY <1>2, <1>6 DEF NetBoot, NetSample, NetNothingDue, NetTick, NetPublish
  <1>7. CASE LinkUp \/ LinkDown \/ WebClearSessions \/ TimePasses \/ UNCHANGED netVars
    BY <1>2, <1>7 DEF LinkUp, LinkDown, WebClearSessions, TimePasses, netVars
  <1> QED BY <1>3, <1>4, <1>5, <1>6, <1>7 DEF Next, NetStep

\* What OneOwner says with cardinalities.
LEMMA OwnersCounted == ASSUME IInv PROVE FlagHasOneOwner
  <1>1. TypeOK /\ OneOwner
    BY DEF IInv
  <1>2. Cardinality({}) = 0 /\ \A r \in Requesters : Cardinality({r}) = 1
    BY FS_EmptySet, FS_Singleton
  <1>3. Len(<<>>) = 0 /\ (networkQueue # <<>> => Len(networkQueue) = 1)
    BY <1>1, QueueOfOne
  <1>4. FlagOwners = Cardinality(Flagged) + Len(networkQueue) + (IF hasRequest THEN 1 ELSE 0)
    BY DEF FlagOwners, Flagged
  <1>5. CASE ~modeChangePending /\ Flagged = {} /\ networkQueue = <<>> /\ ~hasRequest
    BY <1>2, <1>3, <1>4, <1>5 DEF FlagHasOneOwner
  <1>6. CASE /\ modeChangePending /\ networkQueue = <<>> /\ ~hasRequest
             /\ \E r \in Requesters : Flagged = {r}
    <2>1. Cardinality(Flagged) = 1
      BY <1>2, <1>6
    <2> QED BY <1>3, <1>4, <1>6, <2>1 DEF FlagHasOneOwner
  <1>7. CASE modeChangePending /\ Flagged = {} /\ networkQueue # <<>> /\ ~hasRequest
    <2>1. Cardinality(Flagged) = 0 /\ Len(networkQueue) = 1
      BY <1>2, <1>3, <1>7
    <2> QED BY <1>4, <1>7, <2>1 DEF FlagHasOneOwner
  <1>8. CASE modeChangePending /\ Flagged = {} /\ networkQueue = <<>> /\ hasRequest
    BY <1>2, <1>3, <1>4, <1>8 DEF FlagHasOneOwner
  <1> QED BY <1>1, <1>5, <1>6, <1>7, <1>8 DEF OneOwner
-----------------------------------------------------------------------------
(* Type correctness.                                                       *)

\* The variables of the radio, and all the others.
RadioType ==
    /\ hubCommProfile \in Profiles /\ policy \in Policies
    /\ hubApEnabled \in BOOLEAN /\ homeBeaconAllowed \in BOOLEAN
    /\ associated \in BOOLEAN /\ clearOfflineSessions \in BOOLEAN
TaskType ==
    /\ net \in {"boot", "sample", "receive", "apply", "tick", "publish"}
    /\ netNow \in Clock /\ clock \in Clock
    /\ hasRequest \in BOOLEAN /\ pending \in Requests
    /\ networkQueue \in {<<>>} \union {<<q>> : q \in Requests}
    /\ modeChangePending \in BOOLEAN
    /\ caller \in [Requesters -> CallerStates]
    /\ staConnected \in BOOLEAN

LEMMA TypeParts == /\ TypeOK => RadioType /\ TaskType
                   /\ RadioType' /\ TaskType' => TypeOK'
  BY DEF TypeOK, RadioType, TaskType

LEMMA RequesterTypes ==
    ASSUME IInv, NEW r \in Requesters, RequesterStep(r)
    PROVE  TypeOK'
  <1>1. TypeOK /\ caller[r] \in CallerStates /\ IdleCaller \in CallerStates
    BY DEF IInv, TypeOK, IdleCaller, CallerStates, Profiles
  <1>2. CASE \E profile \in Profiles, confirmed \in BOOLEAN : RequestCheck(r, profile, confirmed)
    BY <1>1, <1>2 DEF RequestCheck, TypeOK, CallerStates
  <1>3. CASE RequestFlag(r)
    <2>1. [caller[r] EXCEPT !.at = "flagged"] \in CallerStates
      BY <1>1 DEF CallerStates
    <2>2. caller' \in [Requesters -> CallerStates]
      BY <1>1, <1>3, <2>1 DEF RequestFlag, TypeOK
    <2> QED BY <1>1, <1>3, <2>2 DEF RequestFlag, TypeOK
  <1>4. CASE RequestSend(r)
    <2>1. [profile |-> caller[r].profile, confirmed |-> caller[r].confirmed,
           requestedAt |-> clock] \in Requests
      BY <1>1 DEF CallerStates, Requests, TypeOK
    <2>2. networkQueue' \in {<<>>} \union {<<q>> : q \in Requests}
      BY <1>1, <1>4, <2>1 DEF RequestSend, TypeOK
    <2>3. caller' \in [Requesters -> CallerStates]
      BY <1>1, <1>4 DEF RequestSend, TypeOK
    <2> QED BY <1>1, <1>4, <2>2, <2>3 DEF RequestSend, TypeOK
  <1> QED BY <1>2, <1>3, <1>4 DEF RequesterStep

LEMMA PerformTypes ==
    ASSUME TypeOK, NEW do \in Actions, NEW requested \in Profiles, Perform(do, requested),
           policy' \in Policies
    PROVE  RadioType'
  BY Performed DEF RadioType

LEMMA TypeKept == ASSUME IInv, [Next]_netVars PROVE TypeOK'
  <1>1. TypeOK /\ RadioType /\ TaskType
    BY TypeParts DEF IInv
  <1>2. CASE NetBoot
    <2>1. PICK op : /\ op.policy \in Policies /\ Starts(op)
                    /\ policy' = op.policy /\ Perform(op.do, hubCommProfile)
      BY <1>1, <1>2, BootStarts
    <2>2. op.do \in Actions
      BY <2>1 DEF Starts, Actions
    <2>3. RadioType'
      BY <1>1, <2>1, <2>2, PerformTypes DEF RadioType
    <2>4. TaskType'
      BY <1>1, <1>2 DEF NetBoot, TaskType
    <2> QED BY <2>3, <2>4, TypeParts
  <1>3. CASE NetSample
    BY <1>1, <1>3 DEF NetSample, TypeOK
  <1>4. CASE NetReceive
    <2>1. pending' \in Requests /\ networkQueue' \in {<<>>} \union {<<q>> : q \in Requests}
          /\ hasRequest' \in BOOLEAN
      BY <1>1, <1>4, QueueOfOne DEF NetReceive, TypeOK
    <2> QED BY <1>1, <1>4, <2>1 DEF NetReceive, TypeOK
  <1>5. CASE NetApply
    <2>1. RadioType'
      <3>1. CASE MayApply(pending)
        <4>1. PICK op : /\ op.policy \in Policies /\ Starts(op)
                        /\ policy' = op.policy /\ Perform(op.do, pending.profile)
          BY <1>1, <1>5, <3>1, ApplyStarts
        <4>2. op.do \in Actions /\ pending.profile \in Profiles
          BY <1>1, <4>1 DEF Starts, Actions, TaskType, Requests
        <4> QED BY <1>1, <4>1, <4>2, PerformTypes
      <3>2. CASE ~MayApply(pending)
        BY <1>1, <1>5, <3>2 DEF NetApply, RadioType
      <3> QED BY <3>1, <3>2
    <2>2. NoRequest \in Requests
      BY FailoverAssumption DEF NoRequest, Requests, Profiles, Clock
    <2>3. TaskType'
      BY <1>1, <1>5, <2>2 DEF NetApply, ReleaseFlag, TaskType
    <2> QED BY <2>1, <2>3, TypeParts
  <1>6. CASE NetNothingDue
    BY <1>1, <1>6 DEF NetNothingDue, TypeOK
  <1>7. CASE NetTick
    <2> DEFINE op == Tick(policy, netNow, associated)
    <2>1. op.policy \in Policies /\ Ticks(op, policy)
      BY <1>1, TickTicks DEF TypeOK
    <2>2. policy' = op.policy /\ Perform(op.do, hubCommProfile)
      BY <1>7 DEF NetTick
    <2> HIDE DEF op
    <2>3. op.do \in Actions
      BY <2>1 DEF Ticks, Starts, Actions
    <2>4. RadioType'
      BY <1>1, <2>1, <2>2, <2>3, PerformTypes DEF RadioType
    <2>5. TaskType'
      BY <1>1, <1>7 DEF NetTick, TaskType
    <2> QED BY <2>4, <2>5, TypeParts
  <1>8. CASE NetPublish
    <2>1. hubApEnabled' \in BOOLEAN
      BY <1>1, <1>8 DEF NetPublish, RetryAp, ApplyWifiRole, TypeOK
    <2> QED BY <1>1, <1>8, <2>1 DEF NetPublish, TypeOK
  <1>9. CASE \E r \in Requesters : RequesterStep(r)
    BY <1>9, RequesterTypes
  <1>10. CASE LinkUp \/ LinkDown \/ WebClearSessions \/ UNCHANGED netVars
    BY <1>1, <1>10 DEF LinkUp, LinkDown, WebClearSessions, netVars, TypeOK
  <1>11. CASE TimePasses
    <2>1. clock' \in Clock
      BY <1>1, <1>11, ClockArithmetic DEF TimePasses, TypeOK
    <2> QED BY <1>1, <1>11, <2>1 DEF TimePasses, TypeOK
  <1> QED BY <1>2, <1>3, <1>4, <1>5, <1>6, <1>7, <1>8, <1>9, <1>10, <1>11 DEF Next, NetStep
-----------------------------------------------------------------------------
(* The theorems.                                                           *)

LEMMA Start == ASSUME Init PROVE IInv
  <1>1. 0 \in Clock /\ NoRequest \in Requests /\ IdlePolicy \in Policies
    BY FailoverAssumption
      DEF Clock, NoRequest, Requests, Profiles, IdlePolicy, Policies, Phases
  <1>2. IdleCaller \in CallerStates /\ IdleCaller.at # "flagged"
    BY DEF IdleCaller, CallerStates, Profiles
  <1>3. caller \in [Requesters -> CallerStates] /\ Flagged = {}
    BY <1>2 DEF Init, Flagged
  <1>4. TypeOK
    BY <1>1, <1>3 DEF Init, TypeOK
  <1>5. LatchAgrees /\ BeaconMeansHome /\ RecoveryBounded
    BY DEF Init, LatchAgrees, BeaconMeansHome, RecoveryBounded
  <1>6. Configured
    BY DEF Init, IdlePolicy, Configured, Searching, Online
  <1>7. OneOwner
    BY <1>3 DEF Init, OneOwner
  <1> QED BY <1>4, <1>5, <1>6, <1>7 DEF IInv

\* The inductive invariant holds in every reachable state.
THEOREM Invariance == Spec => []IInv
  <1>1. Init => IInv
    BY Start
  <1>2. IInv /\ [Next]_netVars => IInv'
    BY TypeKept, ModeKept, OwnerKept DEF IInv, ModeInv
  <1> QED BY <1>1, <1>2, PTL DEF Spec

\* Queue, flag and clock of the network task keep their types.
THEOREM TypeCorrect == Spec => []TypeOK
  <1>1. IInv => TypeOK
    BY DEF IInv
  <1> QED BY <1>1, Invariance, PTL

\* Profile and phase, which networkTask writes in different places, agree on
\* being Off-Grid, and the Home beacon is allowed at home only.
THEOREM ModesAgree == Spec => [](LatchAgrees /\ BeaconMeansHome)
  <1>1. IInv => LatchAgrees /\ BeaconMeansHome
    BY DEF IInv
  <1> QED BY <1>1, Invariance, PTL

\* A tick of the policy never leaves a search running with its budget spent.
THEOREM RecoveryEnds == Spec => []RecoveryBounded
  <1>1. IInv => RecoveryBounded
    BY DEF IInv
  <1> QED BY <1>1, Invariance, PTL

\* modeChangePending has one owner, however many tasks request modes at once.
THEOREM OneRequest == Spec => []FlagHasOneOwner
  <1> QED BY OwnersCounted, Invariance, PTL

LEMMA LeavesConfirmed ==
    ASSUME IInv, [Next]_netVars, hubCommProfile = "off_grid", hubCommProfile' # "off_grid"
    PROVE  NetApply /\ MayApply(pending) /\ hasRequest /\ pending.confirmed
  <1>1. CASE QuietStep
    BY <1>1, QuietSteps DEF Quiet
  <1>2. CASE NetBoot
    <2>1. PICK op : /\ op.policy \in Policies /\ Starts(op)
                    /\ op.do = "Connect" => hubCommProfile # "off_grid"
                    /\ policy' = op.policy /\ Perform(op.do, hubCommProfile)
      BY <1>2, BootStarts DEF IInv
    <2>2. op.do = "StartOffGrid"
      BY <2>1 DEF Starts
    <2>3. hubCommProfile' = "off_grid"
      BY <2>1, <2>2 DEF Perform, SetProfile, Selected
    <2> QED BY <2>3
  <1>3. CASE NetTick
    <2>1. policy.phase = "OffGrid"
      BY <1>3 DEF IInv, LatchAgrees, NetTick
    <2> QED BY <1>3, <2>1, TickModes
  <1>4. CASE NetApply /\ MayApply(pending)
    <2>1. PICK op : /\ op.policy \in Policies /\ Starts(op)
                    /\ op.do = "Connect" => pending.profile # "off_grid"
                    /\ policy' = op.policy /\ Perform(op.do, pending.profile)
      BY <1>4, ApplyStarts DEF IInv
    <2>2. op.do = "Connect"
      BY <2>1 DEF Starts, Perform, SetProfile, Selected
    <2>3. pending.confirmed
      BY <1>4, <2>1, <2>2 DEF MayApply
    <2> QED BY <1>4, <2>3 DEF NetApply, RequestDue
  <1> QED BY <1>1, <1>2, <1>3, <1>4, StepCases

\* Off-Grid is left only by a request that carries a confirmation.
THEOREM Latched == Spec => OffGridLatched
  <1>1. IInv /\ [Next]_netVars =>
          [hubCommProfile = "off_grid" /\ hubCommProfile' # "off_grid"
             => hasRequest /\ pending.confirmed]_netVars
    BY LeavesConfirmed
  <1> QED BY <1>1, Invariance, PTL DEF Spec, OffGridLatched

\* One outage has one deadline: trying the other candidate does not restart it.
THEOREM Deadline == Spec => OneDeadline
  <1>1. IInv /\ [Next]_netVars =>
          [net = "tick" /\ {policy.phase, policy'.phase} \subseteq Searching
             => policy'.started = policy.started]_netVars
    <2> SUFFICES ASSUME IInv, [Next]_netVars, net = "tick",
                        {policy.phase, policy'.phase} \subseteq Searching
                 PROVE  policy'.started = policy.started
      OBVIOUS
    <2>1. CASE QuietStep
      BY <2>1, QuietSteps DEF Quiet
    <2>2. CASE NetTick
      BY <2>2, TickTicks DEF NetTick, IInv, TypeOK
    <2>3. ~NetBoot /\ ~NetApply
      BY DEF NetBoot, NetApply
    <2> QED BY <2>1, <2>2, <2>3, StepCases
  <1> QED BY <1>1, Invariance, PTL DEF Spec, OneDeadline
-----------------------------------------------------------------------------
(* The network task implements the latch.                                  *)

\* What the abstract mode is, before and after a step.
ModeReads ==
    /\ net = "boot" =>
         LatchMode = IF hubCommProfile = "off_grid" THEN "off_grid" ELSE "searching"
    /\ net # "boot" =>
         /\ policy.phase = "OffGrid" => LatchMode = "off_grid"
         /\ policy.phase \in Online => LatchMode = "online"
         /\ policy.phase \notin Online \union {"OffGrid"} => LatchMode = "searching"

LEMMA ModeOf == (IInv => ModeReads) /\ (IInv' => ModeReads')
  BY DEF ModeReads, IInv, LatchAgrees, LatchMode, OffGridMode, Online

LEMMA QuietMode == ASSUME Quiet PROVE LatchMode' = LatchMode
  BY DEF Quiet, LatchMode, OffGridMode

\* Who has consent to give, by owner.
RequesterConsents == \E r \in Requesters : caller[r].at = "flagged" /\ caller[r].confirmed
QueueConsents == networkQueue # <<>> /\ Head(networkQueue).confirmed

LEMMA ConsentParts ==
    /\ TypeOK => (Consented <=> RequesterConsents \/ QueueConsents \/ (hasRequest /\ pending.confirmed))
    /\ TypeOK' => (Consented' <=> \/ RequesterConsents' \/ QueueConsents'
                                  \/ (hasRequest /\ pending.confirmed)')
  <1>1. ASSUME NEW q \in {<<>>} \union {<<x>> : x \in Requests}
        PROVE  (\E i \in DOMAIN q : q[i].confirmed) <=> (q # <<>> /\ Head(q).confirmed)
    <2>1. CASE q = <<>>
      BY <2>1
    <2>2. CASE q # <<>>
      <3>1. PICK x \in Requests : q = <<x>>
        BY <1>1, <2>2
      <3>2. DOMAIN q = {1} /\ Head(q) = q[1]
        BY <3>1
      <3> QED BY <2>2, <3>2
    <2> QED BY <2>1, <2>2
  <1>2. TypeOK => ((\E i \in DOMAIN networkQueue : networkQueue[i].confirmed) <=> QueueConsents)
    BY <1>1 DEF TypeOK, QueueConsents
  <1>3. TypeOK' =>
          ((\E i \in DOMAIN networkQueue' : networkQueue'[i].confirmed) <=> QueueConsents')
    BY <1>1 DEF TypeOK, QueueConsents
  <1> QED BY <1>2, <1>3 DEF Consented, RequesterConsents

LEMMA SpentConsent ==
    ASSUME IInv, IInv', NetApply PROVE ~Consented'
  <1>1. hasRequest /\ ~hasRequest' /\ UNCHANGED <<caller, networkQueue>>
    BY DEF NetApply, RequestDue
  <1>2. Flagged = {} /\ networkQueue = <<>>
    BY <1>1 DEF IInv, OneOwner
  <1>3. ~RequesterConsents' /\ ~QueueConsents'
    BY <1>1, <1>2 DEF RequesterConsents, QueueConsents, Flagged
  <1> QED BY <1>1, <1>3, ConsentParts DEF IInv

\* Nobody but a requester gives consent, and nobody but networkTask spends it.
LEMMA RequesterConsent ==
    ASSUME IInv, IInv', NEW r \in Requesters, RequesterStep(r)
    PROVE  Consented => Consented'
  <1>1. TypeOK /\ TypeOK' /\ UNCHANGED <<hasRequest, pending>>
    BY DEF IInv, RequesterStep, RequestCheck, RequestFlag, RequestSend
  <1>2. CASE \E profile \in Profiles, confirmed \in BOOLEAN : RequestCheck(r, profile, confirmed)
    <2>1. UNCHANGED networkQueue /\ caller[r].at # "flagged"
          /\ \A x \in Requesters : x # r => caller'[x] = caller[x]
      BY <1>1, <1>2 DEF RequestCheck, TypeOK
    <2>2. (RequesterConsents => RequesterConsents') /\ QueueConsents' = QueueConsents
      BY <2>1 DEF RequesterConsents, QueueConsents
    <2> QED BY <1>1, <2>2, ConsentParts
  <1>3. CASE RequestFlag(r)
    <2>1. UNCHANGED networkQueue /\ caller[r].at # "flagged"
          /\ \A x \in Requesters : x # r => caller'[x] = caller[x]
      BY <1>1, <1>3 DEF RequestFlag, TypeOK
    <2>2. (RequesterConsents => RequesterConsents') /\ QueueConsents' = QueueConsents
      BY <2>1 DEF RequesterConsents, QueueConsents
    <2> QED BY <1>1, <2>2, ConsentParts
  <1>4. CASE RequestSend(r)
    <2>1. r \in Flagged
      BY <1>4 DEF RequestSend, Flagged
    <2>2. Flagged = {r} /\ networkQueue = <<>>
      BY <2>1 DEF IInv, OneOwner
    <2>3. networkQueue' = <<[profile |-> caller[r].profile, confirmed |-> caller[r].confirmed,
                             requestedAt |-> clock]>>
      BY <1>4, <2>2 DEF RequestSend
    <2>4. networkQueue' # <<>> /\ Head(networkQueue').confirmed = caller[r].confirmed
      BY <2>3
    <2>5. RequesterConsents => QueueConsents'
      BY <2>2, <2>4 DEF RequesterConsents, QueueConsents, Flagged
    <2>6. ~QueueConsents
      BY <2>2 DEF QueueConsents
    <2> QED BY <1>1, <2>5, <2>6, ConsentParts
  <1> QED BY <1>2, <1>3, <1>4 DEF RequesterStep

\* Every step but applying a request keeps what consent there is.
LEMMA ConsentKept ==
    ASSUME IInv, IInv', [Next]_netVars, ~NetApply
    PROVE  /\ Consented => Consented'
           /\ (\A r \in Requesters : ~RequesterStep(r)) => Consented' = Consented
  <1>1. TypeOK /\ TypeOK'
    BY DEF IInv
  <1>2. CASE UNCHANGED <<caller, networkQueue, hasRequest, pending>>
    BY <1>2 DEF Consented
  <1>3. CASE NetReceive
    <2>1. CASE hasRequest \/ networkQueue = <<>>
      BY <1>2, <1>3, <2>1 DEF NetReceive
    <2>2. CASE ~hasRequest /\ networkQueue # <<>>
      <3>1. /\ caller' = caller /\ networkQueue' = <<>> /\ hasRequest'
            /\ pending' = Head(networkQueue)
        BY <1>1, <1>3, <2>2, QueueOfOne DEF NetReceive
      <3>2. /\ RequesterConsents' = RequesterConsents /\ ~QueueConsents'
            /\ (hasRequest /\ pending.confirmed)' <=> QueueConsents
        BY <2>2, <3>1 DEF RequesterConsents, QueueConsents
      <3>3. Consented' <=> Consented
        BY <1>1, <2>2, <3>2, ConsentParts
      <3> QED BY <3>3 DEF Consented
    <2> QED BY <2>1, <2>2
  <1>4. CASE \E r \in Requesters : RequesterStep(r)
    BY <1>4, RequesterConsent
  <1>5. CASE NetBoot \/ NetSample \/ NetNothingDue \/ NetTick \/ NetPublish
    BY <1>2, <1>5 DEF NetBoot, NetSample, NetNothingDue, NetTick, NetPublish
  <1>6. CASE LinkUp \/ LinkDown \/ WebClearSessions \/ TimePasses \/ UNCHANGED netVars
    BY <1>2, <1>6 DEF LinkUp, LinkDown, WebClearSessions, TimePasses, netVars
  <1> QED BY <1>3, <1>4, <1>5, <1>6 DEF Next, NetStep

\* What the steps that perform a radio operation are to the latch.
LEMMA BootMode ==
    ASSUME IInv, IInv', NetBoot
    PROVE  LatchMode' = LatchMode \/ (LatchMode = "searching" /\ LatchMode' = "off_grid")
  <1>1. PICK op : /\ op.policy \in Policies /\ Starts(op)
                  /\ op.do = "Connect" => hubCommProfile # "off_grid"
                  /\ policy' = op.policy
    BY BootStarts DEF IInv
  <1>2. net = "boot" /\ net' # "boot"
    BY DEF NetBoot
  <1>3. CASE op.do = "StartOffGrid"
    BY <1>1, <1>2, <1>3, ModeOf DEF ModeReads, Starts
  <1>4. CASE op.do = "Connect"
    BY <1>1, <1>2, <1>4, ModeOf DEF ModeReads, Starts, Searching, Online
  <1> QED BY <1>1, <1>3, <1>4 DEF Starts

LEMMA TickMode ==
    ASSUME IInv, IInv', NetTick
    PROVE  \/ LatchMode' = LatchMode
           \/ LatchMode = "searching" /\ LatchMode' = "off_grid"
           \/ LatchMode = "searching" /\ LatchMode' = "online"
           \/ LatchMode = "online" /\ LatchMode' = "searching"
  <1> DEFINE op == Tick(policy, netNow, associated)
  <1>1. net # "boot" /\ net' # "boot" /\ policy' = op.policy
    BY DEF NetTick
  <1>2. Ticks(op, policy)
    BY TickTicks DEF IInv, TypeOK
  <1>3. policy.phase \in Online => op.policy.phase # "OffGrid"
    <2>1. SUFFICES ASSUME policy.phase \in Online PROVE op.policy.phase # "OffGrid"
      OBVIOUS
    <2>2. (HasPrimary \/ HasSecondary) /\ HasPrimary \in BOOLEAN /\ HasSecondary \in BOOLEAN
      BY <2>1, FailoverAssumption DEF IInv, Configured
    <2>3. CASE associated
      BY <2>1, <2>3 DEF Tick, Stay, Online, Searching
    <2>4. CASE ~associated
      <3>1. op = Begin(policy, netNow, FALSE)
        BY <2>1, <2>4 DEF Tick, Online, Searching
      <3> QED BY <2>2, <3>1 DEF Begin
    <2> QED BY <2>3, <2>4
  <1> HIDE DEF op
  <1>4. CASE op.do = "None" /\ op.policy = policy
    BY <1>1, <1>4 DEF LatchMode, OffGridMode, IInv, LatchAgrees
  <1>5. CASE Starts(op) /\ policy.phase \in Searching \union Online
    BY <1>1, <1>3, <1>5, ModeOf DEF ModeReads, Starts, Searching, Online
  <1>6. CASE policy.phase \in Searching /\ op.policy.phase \in Online
    BY <1>1, <1>6, ModeOf DEF ModeReads, Searching, Online
  <1> QED BY <1>2, <1>4, <1>5, <1>6 DEF Ticks, Online

LEMMA ApplyMode ==
    ASSUME IInv, IInv', NetApply
    PROVE  /\ LatchMode' \in {"searching", "off_grid"} \union {LatchMode}
           /\ LatchMode = "off_grid" /\ LatchMode' # "off_grid" => Consented
  <1>1. net # "boot" /\ net' # "boot" /\ hasRequest
    BY DEF NetApply, RequestDue
  <1>2. CASE ~MayApply(pending)
    BY <1>2, QuietMode, QuietSteps DEF QuietStep
  <1>3. CASE MayApply(pending)
    <2>1. PICK op : Starts(op) /\ policy' = op.policy
      BY <1>3, ApplyStarts DEF IInv
    <2>2. LatchMode' \in {"searching", "off_grid"}
      BY <1>1, <2>1, ModeOf DEF ModeReads, Starts, Searching, Online
    <2>3. ASSUME LatchMode = "off_grid", LatchMode' # "off_grid" PROVE Consented
      <3>1. hubCommProfile = "off_grid"
        BY <2>3 DEF LatchMode, OffGridMode
      <3>2. policy'.phase # "OffGrid"
        BY <1>1, <2>3, ModeOf DEF ModeReads
      <3>3. hubCommProfile' # "off_grid"
        BY <1>1, <3>2 DEF IInv, LatchAgrees
      <3>4. [Next]_netVars
        BY DEF Next, NetStep
      <3>5. pending.confirmed
        BY <3>1, <3>3, <3>4, LeavesConfirmed
      <3> QED BY <1>1, <3>5 DEF Consented
    <2> QED BY <2>2, <2>3
  <1> QED BY <1>2, <1>3

LEMMA LatchStep ==
    ASSUME IInv, IInv', [Next]_netVars
    PROVE  Latch!LatchNext \/ UNCHANGED <<LatchMode, Consented>>
  <1> USE DEF Latch!LatchNext, Latch!Consent, Latch!Find, Latch!Lose, Latch!GiveUp, Latch!Spend
  <1>0. Consented \in BOOLEAN /\ Consented' \in BOOLEAN
    BY DEF Consented
  <1>1. CASE NetApply
    <2>1. Consented' = FALSE
      BY <1>0, <1>1, SpentConsent
    <2> QED BY <1>1, <2>1, ApplyMode
  <1>2. CASE \E r \in Requesters : RequesterStep(r)
    <2>1. LatchMode' = LatchMode
      BY <1>2, QuietMode, QuietSteps DEF QuietStep
    <2>2. ~NetApply
      BY <1>2 DEF RequesterStep, RequestCheck, RequestFlag, RequestSend, NetApply
    <2>3. Consented => Consented'
      BY <2>2, ConsentKept
    <2> QED BY <1>0, <2>1, <2>3
  <1>3. CASE ~NetApply /\ \A r \in Requesters : ~RequesterStep(r)
    <2>1. Consented' = Consented
      BY <1>3, ConsentKept
    <2>2. CASE QuietStep
      BY <2>1, <2>2, QuietMode, QuietSteps
    <2>3. CASE NetBoot
      BY <2>1, <2>3, BootMode
    <2>4. CASE NetTick
      BY <2>1, <2>4, TickMode
    <2> QED BY <1>3, <2>2, <2>3, <2>4, StepCases
  <1> QED BY <1>1, <1>2, <1>3

\* The network task implements the latch of the documentation: Off-Grid is left
\* by consent only, and a consent serves one change.
THEOREM ImplementsLatch == Spec => LatchSpec
  <1>1. Init => Latch!LatchInit
    <2> SUFFICES ASSUME Init PROVE Latch!LatchInit
      OBVIOUS
    <2>1. LatchMode \in {"searching", "off_grid"}
      BY DEF Init, LatchMode
    <2>2. Consented = FALSE
      BY DEF Init, Consented, IdleCaller
    <2> QED BY <2>1, <2>2 DEF Latch!LatchInit
  <1>2. IInv /\ IInv' /\ [Next]_netVars => [Latch!LatchNext]_(Latch!latchVars)
    BY LatchStep DEF Latch!latchVars
  <1> QED BY <1>1, <1>2, Invariance, PTL DEF Spec, LatchSpec, Latch!LatchSpec
-----------------------------------------------------------------------------
(* The BLE task beside the network task (HubBeacon).                       *)

\* A step of the BLE task, of its user or of a central leaves the network task
\* alone, and a step of the hub is one of the network's.
LEMMA BeaconSteps ==
    ASSUME [BeaconNext]_vars
    PROVE  /\ [Next]_netVars
           /\ \/ HubStep
              \/ UNCHANGED netVars
  <1>1. BleStep => UNCHANGED netVars
    BY DEF BleStep
  <1>2. BleCentralConnects => UNCHANGED netVars
    BY DEF BleCentralConnects
  <1>3. SetBeaconEnabled => UNCHANGED netVars
    BY DEF SetBeaconEnabled
  <1>4. HubStep => Next
    BY DEF HubStep
  <1>5. UNCHANGED vars => UNCHANGED netVars
    BY DEF vars
  <1> QED BY <1>1, <1>2, <1>3, <1>4, <1>5 DEF BeaconNext

\* What is proved of the network task holds of the hub with its BLE task.
THEOREM BeaconKeepsNetwork == BeaconSpec => Spec
  <1>1. [BeaconNext]_vars => [Next]_netVars
    BY BeaconSteps
  <1> QED BY <1>1, PTL DEF BeaconSpec, BeaconInit, Spec

BleTypeOK ==
    /\ ble \in {"compute", "apply"}
    /\ {role, previousRole} \subseteq Roles
    /\ hubBeaconEnabled \in BOOLEAN
    /\ hubBeaconAdvertising \in BOOLEAN
    /\ onAir \in BOOLEAN
    /\ bleLooped \in BOOLEAN

LEMMA BleTypesKept == ASSUME BleTypeOK, TypeOK, [BeaconNext]_vars PROVE BleTypeOK'
  <1> USE DEF BleTypeOK, bleVars
  <1>1. CASE BleCompute /\ UNCHANGED <<netVars, hubBeaconEnabled>>
    <2>1. CurrentRole \in Roles
      BY DEF CurrentRole, Roles
    <2> QED BY <1>1, <2>1 DEF BleCompute
  <1>2. CASE BleApply /\ UNCHANGED <<netVars, hubBeaconEnabled>>
    <2>1. MayAdvertise \in BOOLEAN
      BY DEF MayAdvertise, TypeOK
    <2> QED BY <1>2, <2>1 DEF BleApply
  <1>3. CASE BleCentralConnects
    BY <1>3 DEF BleCentralConnects
  <1>4. CASE SetBeaconEnabled
    BY <1>4 DEF SetBeaconEnabled
  <1>5. CASE HubStep
    BY <1>5 DEF HubStep
  <1>6. CASE UNCHANGED vars
    BY <1>6 DEF vars
  <1> QED BY <1>1, <1>2, <1>3, <1>4, <1>5, <1>6 DEF BeaconNext, BleStep

\* The BLE task's roles, flags and program counter keep their types.
THEOREM BeaconTypes == BeaconSpec => []BeaconTypeOK
  <1>1. BleInit => BleTypeOK
    BY DEF BleInit, BleTypeOK, Roles
  <1>2. BleTypeOK /\ TypeOK /\ [BeaconNext]_vars => BleTypeOK'
    BY BleTypesKept
  <1>3. BleTypeOK /\ TypeOK => BeaconTypeOK
    BY DEF BleTypeOK, BeaconTypeOK
  <1>4. BeaconSpec => []TypeOK
    BY BeaconKeepsNetwork, TypeCorrect
  <1> QED BY <1>1, <1>2, <1>3, <1>4, PTL DEF BeaconSpec, BeaconInit

\* Nothing was asked of the network task.
Unasked == ~hasRequest /\ networkQueue = <<>>

Later(t) == (t + 1) % ClockMod

\* The network task's reading of the clock is at most a tick old.
LagBounded == netNow = clock \/ clock = Later(netNow)

PrimaryConfigured == policy.phase \in {"Primary", "OnlinePrimary"} => HasPrimary

\* The scanning role was computed before the hub came home: it is a tick old at
\* most, and so is an outage that has begun since.
Overtaken == role = "scan" /\ hubCommProfile = "home"

JustHome ==
    /\ net # "boot"
    /\ \/ /\ policy.phase = "OnlinePrimary"
          /\ net \in {"publish", "sample"} \/ netNow = clock \/ ~bleLooped
       \/ policy.phase = "Primary" /\ policy.started = clock /\ netNow = clock
       \/ /\ policy.phase = "Primary" /\ ~bleLooped
          /\ clock = Later(policy.started) /\ netNow \in {policy.started, clock}

ScanInv ==
    /\ Unasked /\ LagBounded /\ PrimaryConfigured
    /\ Overtaken => JustHome
    /\ ble = "compute" => role = previousRole
    /\ ble = "compute" /\ onAir => role # "scan" \/ hubCommProfile = "home"

LEMMA LaterClock ==
    ASSUME NEW t \in Clock
    PROVE  Later(t) \in Clock /\ Later(t) # t /\ Since(Later(t), t) = 1
  <1>1. ClockMod \in Nat /\ ClockMod > 1 /\ t \in 0 .. ClockMod - 1
    BY FailoverAssumption DEF Clock
  <1>2. CASE t + 1 < ClockMod
    <2>1. Later(t) = t + 1
      BY <1>1, <1>2 DEF Later
    <2>2. (t + 1) - t = 1 /\ 1 % ClockMod = 1
      BY <1>1
    <2> QED BY <1>1, <1>2, <2>1, <2>2 DEF Since, Clock
  <1>3. CASE t + 1 = ClockMod
    <2>1. Later(t) = 0
      BY <1>1, <1>3 DEF Later
    <2>2. (0 - t) % ClockMod = 1
      BY <1>1, <1>3
    <2> QED BY <1>1, <1>3, <2>1, <2>2 DEF Since, Clock
  <1> QED BY <1>1, <1>2, <1>3

\* Where a search for the primary network comes from: it is configured.
LEMMA PrimarySearches ==
    ASSUME NEW p \in Policies, NEW t \in Clock, NEW flag \in BOOLEAN,
           p.phase \in {"Primary", "OnlinePrimary"} => HasPrimary
    PROVE  /\ OffGrid(p).policy.phase = "OffGrid"
           /\ Begin(p, t, flag).policy.phase \in {"Primary", "OnlinePrimary"} => HasPrimary
           /\ Tick(p, t, flag).policy.phase \in {"Primary", "OnlinePrimary"} => HasPrimary
  <1>1. OffGrid(p).policy.phase = "OffGrid"
    BY OffGridStarts
  <1>2. ASSUME NEW prefer \in BOOLEAN
        PROVE  Begin(p, t, prefer).policy.phase \in {"Primary", "OnlinePrimary"} => HasPrimary
    <2>1. CASE ~HasPrimary /\ ~HasSecondary
      BY <2>1 DEF Begin, OffGrid, Policies
    <2>2. CASE HasPrimary \/ HasSecondary
      BY <2>2 DEF Begin
    <2> QED BY <2>1, <2>2
  <1>3. Tick(p, t, flag).policy.phase \in {"Primary", "OnlinePrimary"} => HasPrimary
    <2>1. CASE p.phase \in Online /\ ~flag
      <3>1. Tick(p, t, flag) = Begin(p, t, FALSE)
        BY <2>1 DEF Tick, Online, Searching
      <3> QED BY <1>2, <3>1
    <2>2. CASE p.phase \in Searching /\ flag
      BY <2>2 DEF Tick, Associated, Searching, Online, Policies
    <2>3. CASE p.phase \in Searching /\ ~flag
      <3>1. Tick(p, t, flag) = SearchStep(p, t)
        BY <2>3 DEF Tick, Searching, Online
      <3> QED BY <1>1, <2>3, <3>1 DEF SearchStep, Switch, MaySwitch, Stay
    <2>4. CASE p.phase \in {"OffGrid", "Idle"} \/ (p.phase \in Online /\ flag)
      <3>1. Tick(p, t, flag) = Stay(p)
        BY <2>4 DEF Tick, Online, Searching
      <3> QED BY <3>1 DEF Stay
    <2> QED BY <2>1, <2>2, <2>3, <2>4 DEF Policies, Phases
  <1> QED BY <1>1, <1>2, <1>3

\* A look at the policy less than half of the budget after the hub came home
\* leaves the hub there.
LEMMA TickAtHome ==
    ASSUME TypeOK, LagBounded, PrimaryConfigured, RecoveryTicks > 2, JustHome,
           hubCommProfile = "home", NetTick, bleLooped' = bleLooped
    PROVE  hubCommProfile' = "home" /\ JustHome'
  <1> DEFINE op == Tick(policy, netNow, associated)
  <1>1. /\ policy' = op.policy /\ Perform(op.do, hubCommProfile)
        /\ net = "tick" /\ net' = "publish" /\ netNow' = netNow /\ clock' = clock
    BY DEF NetTick
  <1>2. /\ policy \in Policies /\ associated \in BOOLEAN
        /\ {netNow, clock, policy.started} \subseteq Clock
    BY DEF TypeOK, Policies
  <1>3. op.do \in {"None", "Connect"} => hubCommProfile' = "home"
    BY <1>1 DEF Perform, SetProfile, Selected
  <1>4. CASE policy.phase = "OnlinePrimary" /\ associated
    <2>1. op = Stay(policy)
      BY <1>4 DEF Tick, Online, Searching
    <2>2. op.policy = policy /\ op.do = "None"
      BY <2>1 DEF Stay
    <2> HIDE DEF op
    <2> QED BY <1>1, <1>3, <1>4, <2>2 DEF JustHome
  <1>5. CASE policy.phase = "OnlinePrimary" /\ ~associated
    <2>1. HasPrimary
      BY <1>5 DEF PrimaryConfigured
    <2>2. op = Begin(policy, netNow, FALSE)
      BY <1>5 DEF Tick, Online, Searching
    <2>3. op.do = "Connect" /\ op.policy.phase = "Primary" /\ op.policy.started = netNow
      BY <2>1, <2>2, FailoverAssumption DEF Begin
    <2>4. netNow = clock \/ (~bleLooped /\ clock = Later(netNow))
      BY <1>1, <1>5 DEF JustHome, LagBounded
    <2> HIDE DEF op
    <2> QED BY <1>1, <1>3, <2>3, <2>4 DEF JustHome, Later
  <1>6. CASE policy.phase = "Primary" /\ associated
    <2>1. op = Associated(policy)
      BY <1>6 DEF Tick, Online, Searching
    <2> HIDE DEF op
    <2>2. op.do = "ConnectedPrimary" /\ op.policy.phase = "OnlinePrimary"
      BY <1>2, <1>6, <2>1 DEF Associated, Policies
    <2>3. hubCommProfile' = "home"
      BY <1>1, <2>2 DEF Perform, SetProfile, Selected
    <2> QED BY <1>1, <2>2, <2>3 DEF JustHome
  <1>7. CASE policy.phase = "Primary" /\ ~associated
    <2>1. netNow = policy.started \/ netNow = Later(policy.started)
      BY <1>1, <1>7 DEF JustHome
    <2>2. Elapsed(policy, netNow) \in {0, 1}
      BY <1>2, <2>1, ClockArithmetic, LaterClock DEF Elapsed
    <2>3. ~Exhausted(policy, netNow) /\ ~MaySwitch(policy, netNow)
      BY <2>2, FailoverAssumption DEF Exhausted, MaySwitch
    <2>4. op = Stay(policy)
      BY <1>7, <2>3 DEF Tick, Online, Searching, SearchStep
    <2>5. op.policy = policy /\ op.do = "None"
      BY <2>4 DEF Stay
    <2> HIDE DEF op
    <2> QED BY <1>1, <1>3, <1>7, <2>5 DEF JustHome, Later
  <1> QED BY <1>1, <1>4, <1>5, <1>6, <1>7 DEF JustHome

\* The hub comes home in a tick that connects it to the primary network.
LEMMA ComesHome ==
    ASSUME TypeOK, NetTick, hubCommProfile # "home", hubCommProfile' = "home"
    PROVE  JustHome'
  <1> DEFINE op == Tick(policy, netNow, associated)
  <1>1. /\ policy' = op.policy /\ Perform(op.do, hubCommProfile) /\ net' = "publish"
    BY DEF NetTick
  <1>2. policy \in Policies /\ associated \in BOOLEAN /\ netNow \in Clock
    BY DEF TypeOK
  <1>3. Ticks(op, policy)
    BY <1>2, TickTicks
  <1> HIDE DEF op
  <1>4. hubCommProfile' = Selected(op.do, hubCommProfile)
    BY <1>1 DEF Perform, SetProfile
  <1>5. op.do \notin {"StartOffGrid", "Connect", "None", "ConnectedSecondary"}
    BY <1>4 DEF Selected
  <1>6. op.do = "ConnectedPrimary" /\ op.policy.phase = "OnlinePrimary"
    BY <1>3, <1>5 DEF Ticks, Starts
  <1> QED BY <1>1, <1>6 DEF JustHome

\* Who never asks is never heard: nothing reaches the network task.
LEMMA UnaskedKept ==
    ASSUME Requesters = {}, Unasked, [Next]_netVars
    PROVE  Unasked' /\ ~NetApply
  <1> USE DEF Unasked
  <1>1. ~NetApply
    BY DEF NetApply, RequestDue
  <1>2. CASE NetReceive
    BY <1>1, <1>2 DEF NetReceive
  <1>3. CASE NetBoot \/ NetTick
    BY <1>1, <1>3 DEF NetBoot, NetTick
  <1>4. CASE NetSample \/ NetNothingDue \/ NetPublish
    BY <1>1, <1>4 DEF NetSample, NetNothingDue, NetPublish
  <1>5. CASE LinkUp \/ LinkDown \/ WebClearSessions \/ TimePasses \/ UNCHANGED netVars
    BY <1>1, <1>5 DEF LinkUp, LinkDown, WebClearSessions, TimePasses, netVars
  <1> QED BY <1>1, <1>2, <1>3, <1>4, <1>5 DEF Next, NetStep

LEMMA LagKept ==
    ASSUME TypeOK, LagBounded, [Next]_netVars
    PROVE  LagBounded' /\ (clock' # clock => TimePasses /\ netNow = clock)
  <1> USE DEF LagBounded, Later
  <1>1. CASE TimePasses
    <2>1. netNow = clock
      <3>1. Since(clock, netNow) < 1 /\ netNow \in Clock
        BY <1>1 DEF TimePasses, MaxLag, TypeOK
      <3>2. clock = Later(netNow) => Since(clock, netNow) = 1
        BY <3>1, LaterClock
      <3> QED BY <3>1, <3>2
    <2> QED BY <1>1, <2>1 DEF TimePasses
  <1>2. CASE NetSample
    BY <1>2 DEF NetSample
  <1>3. CASE NetReceive \/ NetNothingDue \/ NetPublish
    BY <1>3 DEF NetReceive, NetNothingDue, NetPublish
  <1>4. CASE NetBoot \/ NetTick \/ NetApply
    BY <1>4 DEF NetBoot, NetTick, NetApply
  <1>5. CASE \E r \in Requesters : RequesterStep(r)
    BY <1>5 DEF RequesterStep, RequestCheck, RequestFlag, RequestSend
  <1>6. CASE LinkUp \/ LinkDown \/ WebClearSessions \/ UNCHANGED netVars
    BY <1>6 DEF LinkUp, LinkDown, WebClearSessions, netVars
  <1> QED BY <1>1, <1>2, <1>3, <1>4, <1>5, <1>6 DEF Next, NetStep

LEMMA PrimaryKept ==
    ASSUME TypeOK, PrimaryConfigured, [Next]_netVars PROVE PrimaryConfigured'
  <1> USE DEF PrimaryConfigured
  <1>1. CASE QuietStep
    BY <1>1, QuietSteps DEF Quiet
  <1>2. policy \in Policies /\ {clock, netNow} \subseteq Clock /\ associated \in BOOLEAN
        /\ OffGrid(policy).policy.phase = "OffGrid"
    BY OffGridStarts DEF TypeOK
  <1>3. CASE NetBoot
    BY <1>2, <1>3, PrimarySearches DEF NetBoot
  <1>4. CASE NetApply /\ MayApply(pending)
    BY <1>2, <1>4, PrimarySearches DEF NetApply
  <1>5. CASE NetTick
    BY <1>2, <1>5, PrimarySearches DEF NetTick
  <1> QED BY <1>1, <1>3, <1>4, <1>5, StepCases

\* A step of the hub that the BLE task has not looked at yet.
LEMMA HubScan ==
    ASSUME Requesters = {}, RecoveryTicks > 2, IInv, BleTypeOK, ScanInv, HubStep
    PROVE  ScanInv'
  <1>1. /\ Next /\ UNCHANGED <<ble, role, previousRole, onAir>>
        /\ clock' # clock => bleLooped
        /\ bleLooped' = (bleLooped /\ clock' = clock)
    BY DEF HubStep, bleVars
  <1>2. /\ TypeOK /\ Unasked /\ LagBounded /\ PrimaryConfigured
        /\ Overtaken => JustHome
    BY DEF IInv, ScanInv
  <1>3. Unasked' /\ LagBounded' /\ PrimaryConfigured' /\ ~NetApply
    BY <1>1, <1>2, UnaskedKept, LagKept, PrimaryKept
  <1>4. (Overtaken => Overtaken') /\ (Overtaken' => JustHome')
    <2>1. CASE NetTick
      <3>1. bleLooped' = bleLooped /\ role' = role
        BY <1>1, <2>1 DEF NetTick, BleTypeOK
      <3> QED BY <1>2, <2>1, <3>1, TickAtHome, ComesHome DEF Overtaken
    <2>2. CASE NetBoot
      <3>1. PICK op : Starts(op) /\ Perform(op.do, hubCommProfile)
        BY <1>2, <2>2, BootStarts
      <3>2. hubCommProfile' = "home" => hubCommProfile = "home"
        BY <3>1 DEF Starts, Perform, SetProfile, Selected
      <3> QED BY <1>1, <1>2, <2>2, <3>2 DEF NetBoot, Overtaken, JustHome
    <2>3. CASE QuietStep
      <3>1. UNCHANGED <<hubCommProfile, policy>> /\ (Overtaken' <=> Overtaken)
        BY <1>1, <2>3, QuietSteps DEF Quiet, Overtaken
      <3>2. ASSUME JustHome PROVE JustHome'
        <4>1. CASE TimePasses
          <5>1. clock' = Later(clock) /\ clock # clock' /\ net' = net /\ netNow' = netNow
            BY <1>2, <4>1, LaterClock DEF TimePasses, Later, TypeOK
          <5>2. netNow = clock /\ bleLooped /\ ~bleLooped'
            BY <1>1, <1>2, <5>1, LagKept
          <5> QED BY <3>1, <3>2, <5>1, <5>2 DEF JustHome, Later
        <4>2. CASE clock' = clock
          <5>1. bleLooped' = bleLooped
            BY <1>1, <4>2 DEF BleTypeOK
          <5>2. CASE NetSample
            BY <3>1, <3>2, <4>2, <5>1, <5>2 DEF JustHome, NetSample, Later
          <5>3. CASE NetReceive \/ NetNothingDue
            BY <3>1, <3>2, <4>2, <5>1, <5>3 DEF JustHome, NetReceive, NetNothingDue, Later
          <5>4. CASE NetPublish
            BY <3>1, <3>2, <4>2, <5>1, <5>4 DEF JustHome, NetPublish, Later
          <5>5. CASE LinkUp \/ LinkDown \/ WebClearSessions \/ UNCHANGED netVars
            <6>1. UNCHANGED <<net, netNow>>
              BY <5>5 DEF LinkUp, LinkDown, WebClearSessions, netVars
            <6> QED BY <3>1, <3>2, <4>2, <5>1, <6>1 DEF JustHome, Later
          <5> QED BY <1>3, <2>3, <4>1, <5>2, <5>3, <5>4, <5>5 DEF QuietStep
        <4>3. CASE clock' # clock
          BY <1>1, <1>2, <4>1, <4>3, LagKept
        <4> QED BY <4>2, <4>3
      <3> QED BY <1>2, <3>1, <3>2
    <2> QED BY <1>1, <1>3, <2>1, <2>2, <2>3, StepCases
  <1> QED BY <1>1, <1>3, <1>4 DEF ScanInv, Overtaken

LEMMA BleScan ==
    ASSUME TypeOK, BleTypeOK, ScanInv, UNCHANGED netVars, [BeaconNext]_vars, ~HubStep
    PROVE  ScanInv'
  <1>1. /\ UNCHANGED <<hubCommProfile, policy, net, netNow, clock, hasRequest, networkQueue>>
        /\ Unasked' /\ LagBounded' /\ PrimaryConfigured'
    BY DEF netVars, ScanInv, Unasked, LagBounded, Later, PrimaryConfigured
  <1>2. bleLooped' = bleLooped => JustHome' = JustHome
    BY <1>1 DEF JustHome, Later
  <1>3. UsesBleScanning <=> hubCommProfile # "home"
    BY DEF UsesBleScanning, TypeOK, Profiles
  <1>4. CASE BleCompute
    <2>1. ~Overtaken'
      BY <1>1, <1>3, <1>4 DEF BleCompute, CurrentRole, Overtaken
    <2>2. ble' = "compute" => role' = previousRole'
      BY <1>4 DEF BleCompute
    <2>3. ASSUME ble' = "compute", onAir', role' = "scan" PROVE FALSE
      <3>1. ble = "compute" /\ onAir /\ role = "scan"
        BY <1>4, <2>3 DEF BleCompute, ScanInv
      <3>2. hubCommProfile = "home" /\ CurrentRole = "scan"
        BY <1>4, <2>3, <3>1 DEF BleCompute, ScanInv
      <3> QED BY <1>3, <3>2 DEF CurrentRole
    <2> QED BY <1>1, <2>1, <2>2, <2>3 DEF ScanInv
  <1>5. CASE BleApply
    <2>1. UNCHANGED <<role, bleLooped>> /\ previousRole' = role
      BY <1>5 DEF BleApply
    <2>2. onAir' => hubCommProfile = "home"
      BY <1>3, <1>5 DEF BleApply
    <2> QED BY <1>1, <1>2, <2>1, <2>2 DEF ScanInv, Overtaken
  <1>6. CASE BleCentralConnects
    BY <1>1, <1>2, <1>6 DEF BleCentralConnects, ScanInv, Overtaken
  <1>7. CASE SetBeaconEnabled
    BY <1>1, <1>2, <1>7 DEF SetBeaconEnabled, bleVars, ScanInv, Overtaken
  <1>8. CASE UNCHANGED vars
    BY <1>1, <1>2, <1>8 DEF vars, bleVars, ScanInv, Overtaken
  <1> QED BY <1>4, <1>5, <1>6, <1>7, <1>8 DEF BeaconNext, BleStep

\* A hub nobody asks for another mode does not scan with its Home beacon still on
\* the air, though the BLE task applies what it did not compute: it looks again
\* before half of a recovery budget is gone.
THEOREM ScannersAreSilent ==
    ASSUME Requesters = {}, RecoveryTicks > 2
    PROVE  BeaconSpec => ScannerSilent
  <1>1. Init /\ BleInit => ScanInv
    BY DEF Init, BleInit, IdlePolicy, ScanInv, Unasked, LagBounded, PrimaryConfigured,
           Overtaken
  <1>2. IInv /\ BleTypeOK /\ ScanInv /\ [BeaconNext]_vars => ScanInv'
    BY BeaconSteps, HubScan, BleScan DEF IInv
  <1>3. IInv /\ BleTypeOK /\ ScanInv /\ [BeaconNext]_vars =>
          [BleCompute /\ role' = "scan" /\ ble' = "compute" => ~onAir]_vars
    <2> SUFFICES ASSUME IInv, ScanInv, BleCompute, role' = "scan", ble' = "compute", onAir
                 PROVE  FALSE
      OBVIOUS
    <2>1. role = "scan" /\ CurrentRole = "scan" /\ hubCommProfile = "home"
      BY DEF BleCompute, ScanInv
    <2> QED BY <2>1 DEF CurrentRole, UsesBleScanning
  <1>4. BeaconSpec => []IInv
    BY BeaconKeepsNetwork, Invariance
  <1>5. BeaconTypeOK => BleTypeOK
    BY DEF BeaconTypeOK, BleTypeOK
  <1> QED BY <1>1, <1>2, <1>3, <1>4, <1>5, BeaconTypes, PTL DEF BeaconSpec, BeaconInit, ScannerSilent
-----------------------------------------------------------------------------
(* The Home Hub.  Types, in the groups the actions change together.        *)

LocalTypes ==
    /\ pc \in Places /\ after \in {"top", "read"} /\ settings \in Settings /\ saved \in Settings
    /\ index \in Networks /\ offGrid \in BOOLEAN /\ tried \in BOOLEAN
SharedTypes ==
    /\ bits \subseteq Bits /\ asking \subseteq {"reconfigure", "scan"}
    /\ handling \in {"none", "lost", "ip"} /\ timer \subseteq {"armed", "firing"}
    /\ scan \in {"idle", "scanning", "done"} /\ effective \in Modes
    /\ allowed \in BOOLEAN /\ started \in BOOLEAN /\ range \subseteq Networks
RadioTypes == radio \in [on : BOOLEAN, ap : BOOLEAN, net : Networks, link : Links]
EventTypes == events \in Seq({"start", "lost", "ip"}) /\ Len(events) <= MaxQueue

LEMMA WifiTypeParts == WifiTypeOK <=> LocalTypes /\ SharedTypes /\ RadioTypes /\ EventTypes
  BY DEF WifiTypeOK, LocalTypes, SharedTypes, RadioTypes, EventTypes

LEMMA WifiSteps ==
    [WifiNext]_wifiVars =>
        \/ SyncStep \/ EventStep \/ TimerFires \/ TimerConnects \/ Associates \/ Drops
        \/ UiSignals \/ UiScans \/ (\E s \in Choices : UiWrites(s)) \/ (\E n \in Networks : Move(n))
        \/ UNCHANGED wifiVars
  BY DEF WifiNext

\* The network to begin with, and what the task is in with it.
LEMMA FirstNetwork ==
    ASSUME NEW s \in Settings
    PROVE  First(s) \in Networks /\ Usable(s) \subseteq Networks
  BY DEF Settings, Modes, Networks, First, Usable, Preferred, Other

LEMMA EffectiveType ==
    ASSUME NEW n \in Networks, NEW off \in BOOLEAN PROVE Effective(n, off) \in Modes
  BY DEF Effective, EffectiveModeFor, Modes

LEMMA Adopted ==
    ASSUME NEW s \in Settings, Adopt(s)
    PROVE  /\ settings' = s /\ index' \in Networks /\ offGrid' \in BOOLEAN /\ tried' \in BOOLEAN
  BY FirstNetwork DEF Adopt

LEMMA LocalStep == LocalTypes /\ [WifiNext]_wifiVars => LocalTypes'
  <1> SUFFICES ASSUME LocalTypes, [WifiNext]_wifiVars PROVE LocalTypes'
    OBVIOUS
  <1> USE DEF LocalTypes, Places
  <1>1. CASE StartsWifi
    BY <1>1, Adopted DEF StartsWifi, Go, SyncKeeps
  <1>2. CASE ReadsSettings
    BY <1>2, Adopted DEF ReadsSettings, Go, SyncKeeps
  <1>3. CASE WaitTimesOut
    <2>1. Other(index) \in Networks
      BY DEF Other, Networks
    <2>2. index' \in Networks /\ offGrid' \in BOOLEAN /\ tried' \in BOOLEAN
      BY <1>3, <2>1 DEF WaitTimesOut
    <2> QED BY <1>3, <2>2 DEF WaitTimesOut, Go, SyncKeeps
  <1>4. CASE Rejoins
    <2>1. (index # Preferred(settings)) \in BOOLEAN
      OBVIOUS
    <2> QED BY <1>4, <2>1 DEF Rejoins, Go, SyncKeeps
  <1>5. CASE SyncStep /\ LocalsKept
    BY <1>5 DEF SyncStep, StartsWifi, Top, HotspotWakes, WaitWakes, WaitTimesOut, Rejoins, Serves, PauseEnds,
                ScanBegins, ScanEnds, ClearsRequest, ReadsSettings, Prepares, Stops, Launches,
                ConfigureFails, Go, SyncKeeps, LocalsKept
  <1>6. CASE SyncStep
    BY <1>1, <1>2, <1>3, <1>4, <1>5, <1>6
    DEF SyncStep, Top, HotspotWakes, WaitWakes, Serves, PauseEnds, ScanBegins, ScanEnds, ClearsRequest,
        Prepares, Stops, Launches, ConfigureFails
  <1>7. CASE \E s \in Choices : UiWrites(s)
    BY <1>7, P4NetworkAssumption DEF UiWrites, sync
  <1>8. CASE ~SyncStep /\ ~\E s \in Choices : UiWrites(s)
    BY <1>8 DEF WifiNext, EventStep, StationStarted, Hears, Handles, HandlerEnds, TimerFires, TimerConnects,
                Associates, Drops, UiSignals, UiScans, Move, sync, wifiVars
  <1> QED BY <1>6, <1>7, <1>8

LEMMA RadioStep == RadioTypes /\ LocalTypes /\ [WifiNext]_wifiVars => RadioTypes'
  <1> SUFFICES ASSUME RadioTypes, LocalTypes, [WifiNext]_wifiVars PROVE RadioTypes'
    OBVIOUS
  <1> USE DEF RadioTypes, Links
  <1>1. CASE UNCHANGED radio
    BY <1>1
  <1>2. CASE radio' = Connected(radio)
    BY <1>2 DEF Connected
  <1>3. CASE Associates \/ Drops
    BY <1>3 DEF Associates, Drops
  <1>4. CASE Rejoins
    BY <1>4 DEF Rejoins
  <1>5. CASE Stops
    BY <1>5 DEF Stops
  <1>6. CASE Launches
    <2>1. PICK n \in Networks : n = IF Station THEN index ELSE radio.net
      BY DEF LocalTypes
    <2>2. radio' = [[radio EXCEPT !.ap = offGrid, !.net = n] EXCEPT !.on = TRUE] /\ offGrid \in BOOLEAN
      BY <1>6, <2>1 DEF Launches, Reconfigured, LocalTypes
    <2> QED BY <2>2
  <1>7. CASE SyncStep
    BY <1>1, <1>4, <1>5, <1>6, <1>7
    DEF SyncStep, StartsWifi, Top, HotspotWakes, WaitWakes, WaitTimesOut, Serves, PauseEnds, ScanBegins,
        ScanEnds, ClearsRequest, ReadsSettings, Prepares, ConfigureFails, driver
  <1>8. CASE ~SyncStep
    BY <1>1, <1>2, <1>3, <1>8
    DEF WifiNext, EventStep, StationStarted, Hears, HandlerEnds, TimerFires, TimerConnects, UiWrites,
        UiSignals, UiScans, Move, driver, wifiVars
  <1> QED BY <1>7, <1>8

LEMMA EventsStep == EventTypes /\ [WifiNext]_wifiVars => EventTypes'
  <1> SUFFICES ASSUME EventTypes, [WifiNext]_wifiVars PROVE EventTypes'
    OBVIOUS
  <1> USE DEF EventTypes
  <1>0. MaxQueue \in Nat
    BY P4NetworkAssumption
  <1>1. CASE UNCHANGED events
    BY <1>1
  <1>2. ASSUME NEW e \in {"start", "lost", "ip"}, Post(e) PROVE EventTypes'
    BY <1>0, <1>2 DEF Post
  <1>3. ASSUME NEW e, NEW to, Handles(e, to) PROVE EventTypes'
    BY <1>0, <1>3 DEF Handles
  <1>4. CASE SyncStep
    BY <1>1, <1>2, <1>4
    DEF SyncStep, StartsWifi, Top, HotspotWakes, WaitWakes, WaitTimesOut, Rejoins, Serves, PauseEnds,
        ScanBegins, ScanEnds, ClearsRequest, ReadsSettings, Prepares, Stops, Launches, ConfigureFails,
        driver
  <1>5. CASE ~SyncStep
    BY <1>1, <1>2, <1>3, <1>5
    DEF WifiNext, EventStep, StationStarted, Hears, HandlerEnds, TimerFires, TimerConnects, Associates,
        Drops, UiWrites, UiSignals, UiScans, Move, driver, wifiVars
  <1> QED BY <1>4, <1>5

LEMMA SharedStep == SharedTypes /\ LocalTypes /\ [WifiNext]_wifiVars => SharedTypes'
  <1> SUFFICES ASSUME SharedTypes, LocalTypes, [WifiNext]_wifiVars PROVE SharedTypes'
    OBVIOUS
  <1> USE DEF SharedTypes, Bits
  <1>1. CASE EventStep
    BY <1>1 DEF EventStep, StationStarted, Hears, Handles, HandlerEnds, Update
  <1>2. CASE TimerFires \/ TimerConnects \/ Associates \/ Drops
    BY <1>2 DEF TimerFires, TimerConnects, Associates, Drops
  <1>3. CASE UiSignals \/ UiScans \/ \E s \in Choices : UiWrites(s)
    BY <1>3 DEF UiSignals, UiScans, UiWrites
  <1>4. CASE \E n \in Networks : Move(n)
    BY <1>4 DEF Move, driver
  <1>5. CASE UNCHANGED wifiVars
    BY <1>5 DEF wifiVars
  <1>6. CASE SyncStep
    <2>1. UNCHANGED <<asking, handling, range>> /\ (scan' = scan \/ scan' = "done")
      BY <1>6 DEF SyncStep, StartsWifi, Top, HotspotWakes, WaitWakes, WaitTimesOut, Rejoins, Serves,
                  PauseEnds, ScanBegins, ScanEnds, ClearsRequest, ReadsSettings, Prepares, Stops,
                  Launches, ConfigureFails, SyncKeeps
    <2>2. bits' \subseteq bits /\ timer' \subseteq timer
      BY <1>6 DEF SyncStep, StartsWifi, Top, HotspotWakes, WaitWakes, WaitTimesOut, Rejoins, Serves,
                  PauseEnds, ScanBegins, ScanEnds, ClearsRequest, ReadsSettings, Prepares, Stops,
                  Launches, ConfigureFails
    <2>3. allowed' \in BOOLEAN /\ started' \in BOOLEAN
      BY <1>6 DEF SyncStep, StartsWifi, Top, HotspotWakes, WaitWakes, WaitTimesOut, Rejoins, Serves,
                  PauseEnds, ScanBegins, ScanEnds, ClearsRequest, ReadsSettings, Prepares, Stops,
                  Launches, ConfigureFails, Station
    <2>4. effective' \in Modes
      <3>1. \A n \in Networks : Effective(n, TRUE) \in Modes /\ Effective(n, FALSE) \in Modes
        BY EffectiveType
      <3>2. CASE StartsWifi
        <4>1. index' \in Networks /\ offGrid' \in BOOLEAN
          BY <3>2, Adopted DEF StartsWifi, LocalTypes
        <4> QED BY <3>2, <4>1, EffectiveType DEF StartsWifi
      <3>3. CASE WaitTimesOut
        <4>1. Other(index) \in Networks /\ index \in Networks
          BY DEF Other, Networks, LocalTypes
        <4> QED BY <3>1, <3>3, <4>1 DEF WaitTimesOut
      <3>4. CASE Prepares
        BY <3>4, EffectiveType DEF Prepares, LocalTypes
      <3> QED BY <1>6, <3>1, <3>2, <3>3, <3>4
              DEF SyncStep, Top, HotspotWakes, WaitWakes, Rejoins, Serves, PauseEnds, ScanBegins, ScanEnds,
                  ClearsRequest, ReadsSettings, Stops, Launches, ConfigureFails, LocalTypes
    <2> QED BY <2>1, <2>2, <2>3, <2>4
  <1> QED BY <1>1, <1>2, <1>3, <1>4, <1>5, <1>6, WifiSteps

\* The Home Hub's variables keep their types.
THEOREM WifiTypeCorrect == WifiSpec => []WifiTypeOK
  <1>1. WifiInit => WifiTypeOK
    <2> SUFFICES ASSUME WifiInit PROVE WifiTypeOK
      OBVIOUS
    <2>1. saved \in Settings /\ MaxQueue \in Nat
      BY P4NetworkAssumption DEF WifiInit
    <2>2. LocalTypes
      BY <2>1, FirstNetwork DEF WifiInit, LocalTypes, Places
    <2>3. SharedTypes
      BY DEF WifiInit, SharedTypes, Modes
    <2>4. RadioTypes /\ EventTypes
      BY <2>1 DEF WifiInit, RadioTypes, EventTypes, Links, Networks
    <2> QED BY <2>2, <2>3, <2>4, WifiTypeParts
  <1>2. WifiTypeOK /\ [WifiNext]_wifiVars => WifiTypeOK'
    <2>1. WifiTypeOK /\ [WifiNext]_wifiVars => LocalTypes' /\ SharedTypes' /\ RadioTypes' /\ EventTypes'
      BY WifiTypeParts, LocalStep, SharedStep, RadioStep, EventsStep
    <2> QED BY <2>1, WifiTypeParts, PTL
  <1> QED BY <1>1, <1>2, PTL DEF WifiSpec
-----------------------------------------------------------------------------
(* No request of the Home Hub's user is lost.                              *)

OnTheWay(request) == request \in bits \cup asking

\* The task works on what was saved last, or is told of it, or is about to read it.
Remembered ==
    settings = saved \/ OnTheWay("reconfigure") \/ pc = "read" \/ (pc = "scan" /\ after = "read")

\* A scan somebody waits for is asked of the task, or under way.
Awaited == scan = "scanning" => OnTheWay("scan") \/ pc = "scan"

LEMMA RequestsStep ==
    SharedTypes /\ Remembered /\ Awaited /\ [WifiNext]_wifiVars => Remembered' /\ Awaited'
  <1> SUFFICES ASSUME SharedTypes, Remembered, Awaited, [WifiNext]_wifiVars PROVE Remembered' /\ Awaited'
    OBVIOUS
  <1> USE DEF Remembered, Awaited, OnTheWay
  <1>1. CASE UNCHANGED <<settings, saved, pc, after, scan>> /\ bits \cup asking \subseteq bits' \cup asking'
    BY <1>1
  <1>2. CASE ~SyncStep
    <2>1. CASE \E s \in Choices : UiWrites(s)
      BY <2>1 DEF UiWrites, sync
    <2>2. CASE UiScans
      BY <2>2 DEF UiScans, sync
    <2>3. CASE UiSignals
      BY <1>1, <2>3 DEF UiSignals, sync
    <2>4. CASE EventStep
      <3>1. /\ UNCHANGED <<sync, saved, scan, asking>> /\ bits \ {"connected", "disconnected"} \subseteq bits'
        BY <2>4 DEF EventStep, StationStarted, Hears, Handles, HandlerEnds, Update, SharedTypes
      <3> QED BY <3>1 DEF sync
    <2>5. CASE TimerFires \/ TimerConnects \/ Associates \/ Drops \/ \E n \in Networks : Move(n)
      BY <1>1, <2>5 DEF TimerFires, TimerConnects, Associates, Drops, Move, sync
    <2>6. CASE UNCHANGED wifiVars
      BY <1>1, <2>6 DEF wifiVars, sync
    <2> QED BY <1>2, <2>1, <2>2, <2>3, <2>4, <2>5, <2>6, WifiSteps
  <1>3. CASE HotspotWakes
    BY <1>3 DEF HotspotWakes, Go, LocalsKept, SyncKeeps
  <1>4. CASE ScanBegins \/ ScanEnds
    BY <1>4 DEF ScanBegins, ScanEnds, Go, LocalsKept, SyncKeeps
  <1>5. CASE ClearsRequest
    BY <1>5 DEF ClearsRequest, Go, LocalsKept, SyncKeeps
  <1>6. CASE StartsWifi \/ ReadsSettings
    BY <1>6 DEF StartsWifi, ReadsSettings, Adopt, Go, SyncKeeps
  <1>7. CASE \/ Top \/ WaitWakes \/ WaitTimesOut \/ Rejoins \/ Serves \/ PauseEnds \/ Prepares \/ Stops
             \/ Launches \/ ConfigureFails
    <2>1. /\ UNCHANGED <<settings, saved, scan, asking>> /\ bits \ LinkBits \subseteq bits'
          /\ pc \notin {"read", "scan"}
      BY <1>7 DEF Top, WaitWakes, WaitTimesOut, Rejoins, Serves, PauseEnds, Prepares, Stops, Launches,
                  ConfigureFails, Go, LocalsKept, SyncKeeps, LinkBits
    <2> QED BY <2>1 DEF LinkBits
  <1> QED BY <1>2, <1>3, <1>4, <1>5, <1>6, <1>7 DEF SyncStep

\* The Home Hub's network task forgets no request of its user, whenever it is made: while
\* it waits, it works on what was saved last and no one waits for a scan, or it will be
\* told (applyNetworkSettings, requestWifiScan, sync_task).
THEOREM RequestsKept == WifiSpec => []NoLostRequest
  <1>1. WifiInit => Remembered /\ Awaited
    BY DEF WifiInit, Remembered, Awaited
  <1>2. Remembered /\ Awaited => NoLostRequest
    BY DEF Remembered, Awaited, OnTheWay, NoLostRequest
  <1>3. WifiTypeOK => SharedTypes
    BY WifiTypeParts
  <1> QED BY <1>1, <1>2, <1>3, RequestsStep, WifiTypeCorrect, PTL DEF WifiSpec
=============================================================================
