---------------------------- MODULE WifiFailover ----------------------------
(***************************************************************************)
(* The pure uplink policy of the Home Hub                                  *)
(* (hub/platformio/include/wifi_failover.h): which configured network to   *)
(* try, when to switch to the other one, and when one outage has used its  *)
(* single recovery budget and the hub falls back to Off-Grid.              *)
(*                                                                         *)
(* The class keeps phase_, switched_ and started_; here they are one       *)
(* record.  begin, offGrid and tick mutate them and return the radio       *)
(* operation the network task must perform; here each returns the pair     *)
(* [policy, do].  The clock is millis(): it counts modulo ClockMod, and so *)
(* does every difference.                                                  *)
(***************************************************************************)
EXTENDS Integers

CONSTANTS
    HasPrimary,     \* a primary SSID is configured
    HasSecondary,   \* a secondary SSID, distinct from the primary, is configured
    RecoveryTicks,  \* RecoveryMs, in ticks of the model's clock
    ClockMod        \* the clock wraps around here (2^32 ms in the program)

ASSUME FailoverAssumption ==
    /\ HasPrimary \in BOOLEAN
    /\ HasSecondary \in BOOLEAN
    /\ RecoveryTicks \in Nat \ {0}
    /\ ClockMod \in Nat
    /\ ClockMod > RecoveryTicks

Clock == 0 .. ClockMod - 1
Searching == {"Primary", "Secondary"}
Online == {"OnlinePrimary", "OnlineSecondary"}
Phases == {"Idle", "OffGrid"} \union Searching \union Online
Actions == {"None", "Connect", "ConnectedPrimary", "ConnectedSecondary", "StartOffGrid"}

Policies == [phase : Phases, switched : BOOLEAN, started : Clock]

IdlePolicy == [phase |-> "Idle", switched |-> FALSE, started |-> 0]

\* Unsigned subtraction of two clock readings.
Since(t, start) == (t - start) % ClockMod
Elapsed(p, t) == Since(t, p.started)

OffGrid(p) == [policy |-> [p EXCEPT !.phase = "OffGrid"], do |-> "StartOffGrid"]

\* Start one search, and with it one recovery budget.
Begin(p, t, preferSecondary) ==
    IF ~HasPrimary /\ ~HasSecondary
    THEN OffGrid([p EXCEPT !.started = t])
    ELSE [policy |-> [phase    |-> IF HasSecondary /\ (preferSecondary \/ ~HasPrimary)
                                   THEN "Secondary" ELSE "Primary",
                      switched |-> FALSE,
                      started  |-> t],
          do |-> "Connect"]

\* Half of the budget is gone and the other candidate has not been tried.
MaySwitch(p, t) ==
    /\ HasPrimary /\ HasSecondary /\ ~p.switched
    /\ 2 * Elapsed(p, t) >= RecoveryTicks

Switch(p) ==
    [policy |-> [p EXCEPT !.switched = TRUE,
                          !.phase = IF @ = "Primary" THEN "Secondary" ELSE "Primary"],
     do |-> "Connect"]

Associated(p) ==
    IF p.phase = "Primary"
    THEN [policy |-> [p EXCEPT !.phase = "OnlinePrimary"], do |-> "ConnectedPrimary"]
    ELSE [policy |-> [p EXCEPT !.phase = "OnlineSecondary"], do |-> "ConnectedSecondary"]

Stay(p) == [policy |-> p, do |-> "None"]

\* The outage has used its budget.
Exhausted(p, t) == Elapsed(p, t) >= RecoveryTicks

\* One look at a search that has not succeeded.
\* (_FreshBudget: the other candidate is tried as a new search.)
SearchStep_FreshBudget(p, t) ==
    IF Exhausted(p, t) THEN OffGrid(p)
    ELSE IF MaySwitch(p, t) THEN Begin(p, t, p.phase = "Primary") ELSE Stay(p)
SearchStep(p, t) ==
    IF Exhausted(p, t) THEN OffGrid(p)
    ELSE IF MaySwitch(p, t) THEN Switch(p) ELSE Stay(p)

Tick(p, t, connected) ==
    CASE p.phase \in {"OffGrid", "Idle"}    -> Stay(p)
      [] p.phase \in Online /\ connected    -> Stay(p)
      [] p.phase \in Online /\ ~connected   -> Begin(p, t, FALSE)
      [] p.phase \in Searching /\ connected -> Associated(p)
      [] p.phase \in Searching /\ ~connected -> SearchStep(p, t)

\* What is left of the budget, reported as wifiRecoveryRemainingMs.
Remaining(p, t) ==
    IF p.phase \in Searching /\ ~Exhausted(p, t)
    THEN RecoveryTicks - Elapsed(p, t) ELSE 0
=============================================================================
