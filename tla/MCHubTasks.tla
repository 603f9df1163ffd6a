----------------------------- MODULE MCHubTasks -----------------------------
(* The hub's network task and its command delivery, which share no state,    *)
(* side by side: a behaviour picks one and takes its steps, the other stays  *)
(* as it begins.  The bound is that their product is left out.               *)
EXTENDS HubNetwork, HubCommands, TLC

CONSTANTS c1, c2, web, page, console

VARIABLE part  \* which of the two moves

TasksInit ==
    /\ part \in {"network", "delivery"}
    /\ Init /\ CommandsInit
    /\ part # "network" => hubCommProfile = "home"

NetworkMoves == part = "network" /\ UNCHANGED <<part, vars>> /\ Next
DeliveryMoves == part = "delivery" /\ UNCHANGED <<part, netVars>> /\ CommandsNext

TasksSpec == TasksInit /\ [][NetworkMoves \/ DeliveryMoves]_<<part, netVars, vars>>
-----------------------------------------------------------------------------
\* Collars are alike, and so are the page and the console, who ask for modes.
TasksSymmetry == Permutations(Collars) \union Permutations(Requesters)

\* What the part that moves depends on.  What the network task only tells the others
\* (staConnected, clearOfflineSessions) decides no step and no property of this run.
NetworkView == <<hubCommProfile, policy, net, netNow, hasRequest, pending, networkQueue,
                 modeChangePending, caller, associated, hubApEnabled, homeBeaconAllowed, clock>>
TasksView == IF part = "network" THEN NetworkView ELSE vars
=============================================================================
