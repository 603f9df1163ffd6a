---------------------------- MODULE CollarModes ----------------------------
(***************************************************************************)
(* The operating profile of the nRF52840 collar (collar/src/main.cpp):     *)
(* who changes it, Lost mode with its two-hour timer, the state record in  *)
(* flash, and resets.                                                      *)
(*                                                                         *)
(* cycleTask has the highest priority and is interrupted only where it     *)
(* blocks: its applyProfile is one step up to the flash operations of      *)
(* collarStateSave.  The Arduino loop (button, testbed console) runs while *)
(* cycleTask blocks and is preempted anywhere, so every write of its       *)
(* applyProfile is a step.  PowerSave and Debug differ from Normal in      *)
(* periods only.  A tick is longer than a turn of cycleTask, sleeping      *)
(* included.  Times are ages, which stop growing where no comparison tells *)
(* them apart.                                                             *)
(***************************************************************************)
EXTENDS Naturals

CONSTANTS
    LostMax,      \* LOST_MODE_MAX_DURATION_S, in ticks
    MaxReboots,   \* bound: resets
    MaxFailures   \* bound: failures of the file system

ASSUME CollarModesAssumption ==
    /\ LostMax \in Nat \ {0}
    /\ MaxReboots \in Nat
    /\ MaxFailures \in Nat

Profiles == {"normal", "active", "lost"}
LOST_MODE_FALLBACK == "active"
Tasks == {"cycle", "loop"}

VARIABLES
    uptime,          \* millis()
    elapsed,         \* millis() - lostModeStartMs
    currentProfile, currentConfig, bleAdvertising, inLostMode,
    bootReport, userReport,   \* bootReportPending, forceUserReportRequested
    collarStateReady,
    persisted,       \* persistedState: profile, lost_active, checksum matches
    flash,           \* what loads from the state file, or Missing
    saved,           \* history: the last save left the record "whole", "lost" the
                     \* file, or "kept" the earlier one, which it could not remove
    fresh,           \* the loop has a checksum, and what it was computed over is unchanged
    cycle,           \* cycleTask's program counter
    at,              \* where each task is in applyProfile and collarStateSave
    target,          \* the profile the loop applies, while it does
    reports,         \* the loop reports once that is done
    lostFor, raced,  \* history: ticks in Lost mode; the tasks have overlapped
    moved,           \* no tick yet in this turn of cycleTask
    reboots, failures  \* so far

modeVars == <<currentProfile, currentConfig, bleAdvertising, inLostMode, elapsed, lostFor>>
fileVars == <<flash, saved, failures>>
saveVars == <<persisted, fresh, fileVars>>
loopVars == <<target, reports>>
timeVars == <<uptime, reboots, collarStateReady>>
vars == <<modeVars, saveVars, loopVars, timeVars, bootReport, userReport, cycle,
          at, raced, moved>>

Records == [profile : Profiles, lost : BOOLEAN, valid : BOOLEAN]
Missing == [profile |-> "normal", lost |-> FALSE, valid |-> FALSE]

Applying == {"profile", "config", "beacon", "flag", "start"}
Saving == {"fields", "copy", "sum", "remove", "write"}
Quiet(t) == at[t] = "idle"
Quiescent == \A t \in Tasks : Quiet(t)
-----------------------------------------------------------------------------
\* collarStateLoad and setup: a record that fails validation is replaced by
\* the factory defaults; Lost mode is restored with a new two hours.
Restored(p, isLost) ==
    /\ currentProfile' = p
    /\ currentConfig' = p
    /\ inLostMode' = isLost
    /\ bleAdvertising' = isLost
    /\ elapsed' = 0
    /\ lostFor' = 0
    /\ persisted' = [profile |-> p, lost |-> isLost, valid |-> TRUE]
Boot ==
    IF collarStateReady' /\ flash.valid
        THEN Restored(flash.profile, flash.lost) ELSE Restored("normal", FALSE)

\* setup() saves before any task runs, if the file system is there.
Setup(ready) ==
    [t \in Tasks |-> IF t = "cycle" /\ ready THEN "remove" ELSE "idle"]

Init ==
    /\ uptime = 0 /\ reboots = 0
    /\ currentProfile = "normal" /\ currentConfig = "normal"
    /\ bleAdvertising = FALSE /\ inLostMode = FALSE /\ elapsed = 0
    /\ bootReport = TRUE /\ userReport = FALSE
    /\ persisted = [profile |-> "normal", lost |-> FALSE, valid |-> TRUE]
    /\ flash = Missing /\ saved = "lost" /\ fresh = FALSE
    /\ cycle = "setup"
    /\ failures \in {0, 1} /\ failures <= MaxFailures
    /\ collarStateReady = (failures = 0)
    /\ at = Setup(collarStateReady)
    /\ target = "normal" /\ reports = FALSE
    /\ lostFor = 0 /\ raced = FALSE /\ moved = TRUE

\* The file system fails.  (Bound: once the tasks have overlapped nothing is
\* said of flash, and no failure is looked at.)
Fails ==
    /\ ~raced
    /\ failures < MaxFailures
    /\ failures' = failures + 1

\* The loop is done with applyProfile.
Returned == target' = "normal" /\ reports' = FALSE

\* A reset at any moment; InternalFS.begin may fail, whenever it is called.
Reboot ==
    /\ reboots < MaxReboots
    /\ reboots' = reboots + 1
    /\ uptime' = 0
    /\ \/ collarStateReady' = TRUE /\ UNCHANGED failures
       \/ collarStateReady' = FALSE /\ Fails
    /\ Boot
    /\ bootReport' = TRUE
    /\ userReport' = FALSE
    /\ fresh' = FALSE
    /\ cycle' = "setup"
    /\ at' = Setup(collarStateReady')
    /\ moved' = TRUE
    /\ Returned
    /\ UNCHANGED <<flash, saved, raced>>

-----------------------------------------------------------------------------
(* collarStateSave                                                          *)

Held == [profile |-> currentProfile, lost |-> inLostMode, valid |-> TRUE]

\* cycleTask writes the fields and their checksum without interruption.
\* What it writes differs from what the loop may be summing: the message
\* number has gone on.
CycleSaves ==
    /\ collarStateReady
    /\ persisted' = Held
    /\ fresh' = FALSE
    /\ at' = [at EXCEPT !["cycle"] = "remove"]
    /\ raced' = (raced \/ ~Quiet("loop"))

\* InternalFS.remove, and after it open, write and close.  Each holds the file
\* system's lock; the shared record is written as it is at that moment.  What
\* remove returns is not looked at.  An open that fails, or a write that stops
\* short, leaves no file that loads; where the earlier file is still there, it
\* may be what loads.
\* (_NoRewrite: the record is removed only.)
Remove(t) ==
    /\ at[t] = "remove"
    /\ \/ flash' = Missing /\ saved' = "lost" /\ UNCHANGED failures
       \/ flash # Missing /\ flash' = flash /\ saved' = "kept" /\ Fails
    /\ at' = [at EXCEPT ![t] = "write"]
Write_NoRewrite(t) ==
    /\ at[t] = "write"
    /\ flash' = flash
    /\ saved' = "whole" /\ UNCHANGED failures
    /\ at' = [at EXCEPT ![t] = "idle"]
Write(t) ==
    /\ at[t] = "write"
    /\ \/ /\ flash' = persisted
          /\ saved' = IF saved = "kept" THEN "kept" ELSE "whole"
          /\ UNCHANGED failures
       \/ saved = "kept" /\ UNCHANGED fileVars
       \/ Fails /\ UNCHANGED <<flash, saved>>
    /\ at' = [at EXCEPT ![t] = "idle"]

\* The loop copies the fields, sums a copy of the record and stores the sum.
LoopFields ==
    /\ at["loop"] = "fields"
    /\ collarStateReady
    /\ persisted' = [Held EXCEPT !.valid = FALSE]
    /\ at' = [at EXCEPT !["loop"] = "copy"]
    /\ UNCHANGED fresh
LoopCopies ==
    /\ at["loop"] = "copy"
    /\ fresh' = TRUE
    /\ at' = [at EXCEPT !["loop"] = "sum"]
    /\ UNCHANGED persisted
LoopSums ==
    /\ at["loop"] = "sum"
    /\ persisted' = [persisted EXCEPT !.valid = fresh]
    /\ fresh' = FALSE
    /\ at' = [at EXCEPT !["loop"] = "remove"]
-----------------------------------------------------------------------------
(* applyProfile                                                             *)

Flagged(p) ==
    /\ inLostMode' = (p = "lost")
    /\ lostFor' = IF p = "lost" /\ inLostMode THEN lostFor ELSE 0

\* lostModeStartMs is now for a new Lost mode and 0 for none; a collar that is
\* in Lost mode already keeps the start it has.
\* (_Restarts: a repeated request starts the two hours again.)
ElapsedAfter_Restarts(p) == IF p = "lost" THEN 0 ELSE uptime
ElapsedAfter(p) == IF p # "lost" THEN uptime ELSE IF inLostMode THEN elapsed ELSE 0

CycleApplies(p) ==
    /\ currentProfile' = p
    /\ currentConfig' = p
    /\ bleAdvertising' = (p = "lost")
    /\ Flagged(p)
    /\ elapsed' = ElapsedAfter(p)
    /\ \/ /\ collarStateReady
          /\ persisted' = [profile |-> p, lost |-> p = "lost", valid |-> TRUE]
          /\ fresh' = FALSE
          /\ at' = [at EXCEPT !["cycle"] = "remove"]
       \/ ~collarStateReady /\ UNCHANGED <<persisted, fresh, at>>
    /\ raced' = (raced \/ ~Quiet("loop"))

LoopBegins(p, report) ==
    /\ Quiet("loop")
    /\ cycle # "setup"
    /\ target' = p
    /\ reports' = report
    /\ at' = [at EXCEPT !["loop"] = "profile"]
    /\ raced' = (raced \/ ~Quiet("cycle"))
    /\ UNCHANGED <<modeVars, saveVars, timeVars, bootReport, userReport, cycle,
                   moved>>

LoopAdvances(from, to) ==
    /\ at["loop"] = from
    /\ at' = [at EXCEPT !["loop"] = to]

\* (_NoBeaconStop: leaving Lost mode leaves the find beacon on.)
LoopBeacon_NoBeaconStop ==
    /\ LoopAdvances("beacon", "flag")
    /\ bleAdvertising' = (target = "lost" \/ bleAdvertising)
    /\ UNCHANGED <<currentProfile, currentConfig, inLostMode, elapsed, lostFor>>
LoopBeacon ==
    /\ LoopAdvances("beacon", "flag")
    /\ bleAdvertising' = (target = "lost")
    /\ UNCHANGED <<currentProfile, currentConfig, inLostMode, elapsed, lostFor>>

\* The flag is set before the start of the two hours.
LoopFlag ==
    /\ LoopAdvances("flag", IF target = "lost" /\ inLostMode THEN "fields" ELSE "start")
    /\ Flagged(target)
    /\ UNCHANGED <<currentProfile, currentConfig, bleAdvertising, elapsed>>

LoopApplies ==
    \/ /\ LoopAdvances("profile", "config")
       /\ currentProfile' = target
       /\ UNCHANGED <<currentConfig, bleAdvertising, inLostMode, elapsed, lostFor>>
    \/ /\ LoopAdvances("config", "beacon")
       /\ currentConfig' = target
       /\ UNCHANGED <<currentProfile, bleAdvertising, inLostMode, elapsed, lostFor>>
    \/ LoopBeacon
    \/ LoopFlag
    \/ /\ LoopAdvances("start", "fields")
       /\ elapsed' = (IF target = "lost" THEN 0 ELSE uptime)
       /\ UNCHANGED <<currentProfile, currentConfig, bleAdvertising, inLostMode, lostFor>>
-----------------------------------------------------------------------------
(* The Arduino loop: buttonPoll and, in a testbed build, the console        *)

\* A long press toggles Lost mode and asks for a report afterwards.
LongPress == LoopBegins(IF inLostMode THEN LOST_MODE_FALLBACK ELSE "lost", TRUE)
ConsoleProfile == \E p \in Profiles : LoopBegins(p, FALSE)

RequestReport ==
    /\ userReport' = TRUE
    /\ UNCHANGED <<modeVars, saveVars, loopVars, timeVars, bootReport, cycle, at,
                   raced, moved>>
ShortPress == Quiet("loop") /\ cycle # "setup" /\ RequestReport

\* The task goes on with applyProfile and collarStateSave; after a long press
\* the report is requested when that returns.
LoopSaved ==
    \/ Write("loop")
    \/ /\ ~collarStateReady
       /\ LoopAdvances("fields", "idle")
       /\ UNCHANGED fileVars

LoopProceeds ==
    /\ \/ /\ \/ LoopApplies /\ UNCHANGED saveVars
             \/ /\ LoopFields \/ LoopCopies \/ LoopSums
                /\ UNCHANGED <<modeVars, fileVars>>
             \/ Remove("loop") /\ UNCHANGED <<modeVars, persisted, fresh>>
          /\ UNCHANGED <<loopVars, userReport>>
       \/ /\ LoopSaved
          /\ Returned
          /\ userReport' = (userReport \/ reports)
          /\ UNCHANGED <<modeVars, persisted, fresh>>
    /\ UNCHANGED <<timeVars, bootReport, cycle, raced, moved>>
-----------------------------------------------------------------------------
(* cycleTask                                                                *)

Proceed(from, to) ==
    /\ cycle = from
    /\ Quiet("cycle")
    /\ cycle' = to
    /\ moved' = (moved \/ from \in {"top", "lost"})

CycleKeeps == UNCHANGED <<modeVars, loopVars, timeVars>>

\* The writes of a save cycleTask is waiting for.
CycleFlash ==
    /\ Remove("cycle") \/ Write("cycle")
    /\ UNCHANGED <<modeVars, persisted, fresh, loopVars, timeVars, bootReport, userReport,
                   cycle, raced, moved>>

SetupEnds ==
    /\ Proceed("setup", "top")
    /\ CycleKeeps
    /\ UNCHANGED <<saveVars, bootReport, userReport, at, raced>>

\* The top of the loop: the boot report, a report the user asked for, Lost
\* mode, and otherwise the cycle of the profile.
TakeTurn ==
    /\ \/ /\ Proceed("top", "report")
          /\ bootReport
          /\ bootReport' = FALSE
          /\ UNCHANGED userReport
       \/ /\ Proceed("top", "report")
          /\ ~bootReport /\ userReport
          /\ userReport' = FALSE
          /\ UNCHANGED bootReport
       \/ /\ Proceed("top", IF inLostMode THEN "lost" ELSE "report")
          /\ ~bootReport /\ ~userReport
          /\ UNCHANGED <<bootReport, userReport>>
    /\ CycleKeeps
    /\ UNCHANGED <<saveVars, at, raced>>

\* A scan, perhaps a GNSS fix, and the report.  collarStateRememberFix writes
\* a position into the record, which matters to a save the loop is at; that and
\* the packet may be a checkpoint.
Report ==
    /\ Proceed("report", "window")
    /\ \/ CycleSaves
       \/ UNCHANGED <<persisted, fresh, at, raced>>
       \/ /\ at["loop"] \in Saving
          /\ persisted' = [persisted EXCEPT !.valid = FALSE]
          /\ fresh' = FALSE
          /\ raced' = TRUE
          /\ UNCHANGED at
    /\ CycleKeeps
    /\ UNCHANGED <<fileVars, bootReport, userReport>>

Windows == {"window", "lostWindow", "alertWindow"}

\* handleReceivedCommand: a profile command that is not a duplicate.
Command(p) ==
    /\ cycle \in Windows
    /\ Quiet("cycle")
    /\ CycleApplies(p)
    /\ UNCHANGED <<fileVars, loopVars, timeVars, bootReport, userReport, cycle, moved>>

\* noteUplinkAckResult saves unless a packet was acknowledged after no failure.
WindowEnds ==
    /\ \/ Proceed("window", "asleep")
       \/ Proceed("lostWindow", "lost")
    /\ CycleSaves \/ UNCHANGED <<persisted, fresh, at, raced>>
    /\ CycleKeeps
    /\ UNCHANGED <<fileVars, bootReport, userReport>>

Wake ==
    /\ Proceed("asleep", "top")
    /\ CycleKeeps
    /\ UNCHANGED <<saveVars, bootReport, userReport, at, raced>>

\* runLostMode: look at the flag, then at the time, then transmit.
\* (_NeverEnds: the timer is not looked at.)
LostLoop_NeverEnds ==
    /\ \/ Proceed("lost", "top") /\ ~inLostMode
       \/ Proceed("lost", "lostWindow") /\ inLostMode
    /\ CycleKeeps
    /\ UNCHANGED <<saveVars, bootReport, userReport, at, raced>>
LostLoop ==
    /\ \/ Proceed("lost", "top") /\ ~inLostMode
       \/ Proceed("lost", "alertWindow") /\ inLostMode /\ elapsed >= LostMax
       \/ Proceed("lost", "lostWindow") /\ inLostMode /\ elapsed < LostMax
    /\ CycleKeeps
    /\ UNCHANGED <<saveVars, bootReport, userReport, at, raced>>

\* The window of the timeout alert ends (the save of its result is overtaken
\* by that of the profile) and the collar falls back.
LostTimeout ==
    /\ Proceed("alertWindow", "top")
    /\ CycleApplies(LOST_MODE_FALLBACK)
    /\ UNCHANGED <<fileVars, loopVars, timeVars, bootReport, userReport>>
-----------------------------------------------------------------------------
Aged(age, bound) == IF age < bound THEN age + 1 ELSE bound

Tick ==
    /\ moved
    /\ Quiet("loop")
    /\ uptime' = Aged(uptime, LostMax)
    /\ elapsed' = Aged(elapsed, LostMax)
    /\ lostFor' = IF inLostMode THEN Aged(lostFor, LostMax + 1) ELSE lostFor
    /\ moved' = FALSE
    /\ UNCHANGED <<currentProfile, currentConfig, bleAdvertising, inLostMode, saveVars,
                   loopVars, reboots, collarStateReady, bootReport, userReport, cycle, at, raced>>

CycleStep ==
    SetupEnds \/ TakeTurn \/ Report \/ WindowEnds \/ Wake \/ LostLoop \/ LostTimeout
        \/ CycleFlash

Next ==
    \/ CycleStep
    \/ \E p \in Profiles : Command(p)
    \/ LongPress \/ ConsoleProfile \/ ShortPress
    \/ LoopProceeds
    \/ Tick
    \/ Reboot

Spec == Init /\ [][Next]_vars

\* FreeRTOS runs both tasks and time passes, however often profiles are applied
\* meanwhile; a window ends at its deadline, however many commands arrive.
\* Users, hub and resets owe nothing.
FairSpec ==
    /\ Spec
    /\ WF_vars(CycleStep)
    /\ SF_vars(WindowEnds \/ LostTimeout)
    /\ WF_vars(LoopProceeds)
    /\ SF_vars(Tick)
-----------------------------------------------------------------------------
TypeOK ==
    /\ {uptime, elapsed} \subseteq 0..LostMax
    /\ lostFor \in 0..LostMax + 1
    /\ reboots \in 0..MaxReboots
    /\ failures \in 0..MaxFailures
    /\ {currentProfile, currentConfig, target} \subseteq Profiles
    /\ {bleAdvertising, inLostMode, bootReport, userReport, fresh, reports, raced, moved,
        collarStateReady} \subseteq BOOLEAN
    /\ saved \in {"whole", "lost", "kept"}
    /\ {persisted, flash} \subseteq Records
    /\ cycle \in Windows \cup {"setup", "top", "report", "asleep", "lost"}
    /\ at["cycle"] \in {"idle", "remove", "write"}
    /\ at \in [Tasks -> {"idle"} \cup Applying \cup Saving]

\* Without a reset no packet is sent in Lost mode after its two hours, in spite
\* of repeated requests, and of a start that the loop writes late, or erases,
\* while cycleTask reads it.
LostBounded == cycle = "lostWindow" /\ inLostMode => lostFor <= LostMax

\* Two tasks apply profiles.  Unless they overlapped, profile, parameters, the
\* Lost flag and the find beacon agree when nobody is applying one.
ModesAgree ==
    Quiescent /\ ~raced =>
        /\ currentConfig = currentProfile
        /\ inLostMode = (currentProfile = "lost")
        /\ bleAdvertising = inLostMode

\* A profile is persisted immediately: a reset while nobody is saving restores
\* profile and Lost mode, although the record in RAM is shared by both tasks.
\* After a save whose open or write failed there is no file, and the collar
\* restarts with the defaults.  A profile it has left comes back only where the
\* file could not be removed, or the file system was not there.
FlashCurrent ==
    Quiescent /\ ~raced /\ collarStateReady =>
        /\ saved = "whole" => flash = Held
        /\ saved = "lost" => flash = Missing

\* Lost mode ends, whatever the tasks do to its flag and start at once, unless
\* the user asks for reports for ever.
LostEnds == []<>(~inLostMode \/ userReport)
=============================================================================
