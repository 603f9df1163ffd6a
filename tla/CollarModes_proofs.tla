-------------------------- MODULE CollarModes_proofs --------------------------
(***************************************************************************)
(* Theorems about the profiles of the nRF52840 collar (CollarModes), for   *)
(* every length of Lost mode and any number of resets: its time runs out   *)
(* before a packet is sent in it, its modes agree, and flash holds them.   *)
(***************************************************************************)
EXTENDS CollarModes, TLAPS

\* The steps of the loop, of cycleTask, and of time, apart.
LoopTask == LongPress \/ ConsoleProfile \/ ShortPress \/ LoopProceeds
CycleTask == CycleStep \/ \E p \in Profiles : Command(p)

LEMMA Steps == [Next]_vars => CycleTask \/ LoopTask \/ Tick \/ Reboot \/ UNCHANGED vars
  BY DEF Next, CycleTask, LoopTask

LEMMA Names == Tasks = {"cycle", "loop"} /\ LOST_MODE_FALLBACK \in Profiles
  BY DEF Tasks, LOST_MODE_FALLBACK, Profiles

\* What the button and the console begin.
LEMMA LoopStarts ==
    ASSUME LongPress \/ ConsoleProfile
    PROVE  \E p \in Profiles, report \in BOOLEAN : LoopBegins(p, report)
  <1>1. (IF inLostMode THEN LOST_MODE_FALLBACK ELSE "lost") \in Profiles
    BY Names DEF Profiles
  <1> QED BY <1>1 DEF LongPress, ConsoleProfile

\* What the loop does to the record, to the profile, and to neither.
LEMMA LoopKinds ==
    ASSUME LoopProceeds
    PROVE  /\ UNCHANGED <<uptime, reboots, collarStateReady, bootReport, cycle, raced, moved>>
           /\ \/ LoopApplies /\ UNCHANGED <<persisted, fresh, flash, saved, failures>>
              \/ /\ LoopFields \/ LoopCopies \/ LoopSums
                 /\ UNCHANGED <<modeVars, flash, saved, failures>>
              \/ Remove("loop") /\ UNCHANGED <<modeVars, persisted, fresh>>
              \/ Write("loop") /\ UNCHANGED <<modeVars, persisted, fresh>>
              \/ /\ LoopAdvances("fields", "idle") /\ ~collarStateReady
                 /\ UNCHANGED <<modeVars, persisted, fresh, flash, saved, failures>>
           /\ UNCHANGED loopVars \/ (target' = "normal" /\ reports' = FALSE)
           /\ UNCHANGED loopVars \/ at["loop"] = "write" \/ (at["loop"] = "fields" /\ ~collarStateReady)
           /\ userReport' = userReport \/ userReport' = (userReport \/ reports)
  <1> USE DEF loopVars, timeVars, saveVars, fileVars
  <1>1. CASE /\ LoopSaved /\ Returned /\ userReport' = (userReport \/ reports)
             /\ UNCHANGED <<modeVars, persisted, fresh>>
    BY <1>1 DEF LoopProceeds, LoopSaved, LoopAdvances, Write, Returned
  <1>2. CASE /\ \/ LoopApplies /\ UNCHANGED saveVars
                \/ /\ LoopFields \/ LoopCopies \/ LoopSums
                   /\ UNCHANGED <<modeVars, fileVars>>
                \/ Remove("loop") /\ UNCHANGED <<modeVars, persisted, fresh>>
             /\ UNCHANGED <<loopVars, userReport>>
    BY <1>2 DEF LoopProceeds
  <1> QED BY <1>1, <1>2, Zenon DEF LoopProceeds

\* What stays when cycleTask does not save.
LEMMA FileStays ==
    ASSUME CycleTask, ~CycleFlash
    PROVE  UNCHANGED <<flash, saved, failures>>
  BY DEF CycleTask, CycleStep, SetupEnds, TakeTurn, Report, WindowEnds, Wake, LostLoop, LostTimeout,
         Command, saveVars, fileVars
-----------------------------------------------------------------------------
(* Types, in the groups the actions change together.                       *)

ModeTypes ==
    /\ currentProfile \in Profiles /\ currentConfig \in Profiles /\ target \in Profiles
    /\ bleAdvertising \in BOOLEAN /\ inLostMode \in BOOLEAN
TimeTypes ==
    /\ uptime \in 0 .. LostMax /\ elapsed \in 0 .. LostMax /\ lostFor \in 0 .. LostMax + 1
    /\ reboots \in 0 .. MaxReboots
FlagTypes ==
    /\ bootReport \in BOOLEAN /\ userReport \in BOOLEAN /\ fresh \in BOOLEAN
    /\ reports \in BOOLEAN /\ raced \in BOOLEAN /\ moved \in BOOLEAN
    /\ collarStateReady \in BOOLEAN
RecordTypes ==
    /\ persisted \in Records /\ flash \in Records
    /\ saved \in {"whole", "lost", "kept"} /\ failures \in 0 .. MaxFailures
CycleTypes == cycle \in Windows \cup {"setup", "top", "report", "asleep", "lost"}
PlaceTypes ==
    /\ at \in [Tasks -> {"idle"} \cup Applying \cup Saving]
    /\ at["cycle"] \in {"idle", "remove", "write"}

LEMMA TypeParts ==
    TypeOK <=> /\ ModeTypes /\ TimeTypes /\ FlagTypes /\ RecordTypes /\ CycleTypes /\ PlaceTypes
  BY DEF TypeOK, ModeTypes, TimeTypes, FlagTypes, RecordTypes, CycleTypes, PlaceTypes

LEMMA HeldIsRecord ==
    ASSUME ModeTypes
    PROVE  /\ Held \in Records /\ [Held EXCEPT !.valid = FALSE] \in Records
           /\ Held.valid = TRUE /\ Held.profile = currentProfile /\ Held.lost = inLostMode
  BY DEF ModeTypes, Held, Records

LEMMA MissingIsRecord == Missing \in Records /\ Missing.valid = FALSE
  BY DEF Missing, Records, Profiles

LEMMA ModeStep == ModeTypes /\ RecordTypes /\ [Next]_vars => ModeTypes'
  <1> SUFFICES ASSUME ModeTypes, RecordTypes, [Next]_vars PROVE ModeTypes'
    OBVIOUS
  <1> USE DEF ModeTypes
  <1>1. CASE CycleStep
    <2>1. CASE LostTimeout
      BY <2>1, Names DEF LostTimeout, CycleApplies, Flagged, loopVars
    <2>2. CASE ~LostTimeout
      <3>1. UNCHANGED modeVars /\ UNCHANGED loopVars
        BY <1>1, <2>2 DEF CycleStep, SetupEnds, TakeTurn, Report, WindowEnds, Wake, LostLoop,
                          CycleFlash, CycleKeeps
      <3> QED BY <3>1 DEF modeVars, loopVars
    <2> QED BY <2>1, <2>2
  <1>2. ASSUME NEW p \in Profiles, Command(p) PROVE ModeTypes'
    BY <1>2 DEF Command, CycleApplies, Flagged, loopVars
  <1>3. CASE LongPress \/ ConsoleProfile
    <2>1. PICK p \in Profiles, report \in BOOLEAN : LoopBegins(p, report)
      BY <1>3, LoopStarts
    <2> QED BY <2>1 DEF LoopBegins, modeVars
  <1>4. CASE ShortPress
    BY <1>4 DEF ShortPress, RequestReport, modeVars, loopVars
  <1>5. CASE LoopProceeds
    <2>1. target' \in Profiles
      BY <1>5, LoopKinds DEF loopVars, Profiles
    <2>2. CASE UNCHANGED modeVars
      BY <2>1, <2>2 DEF modeVars
    <2>3. CASE LoopApplies
      BY <2>1, <2>3 DEF LoopApplies, LoopBeacon, LoopFlag, Flagged
    <2> QED BY <1>5, <2>2, <2>3, LoopKinds
  <1>6. CASE Tick
    BY <1>6 DEF Tick, loopVars
  <1>7. CASE Reboot
    <2>1. PICK p \in Profiles, l \in BOOLEAN : Restored(p, l)
      BY <1>7 DEF Reboot, Boot, RecordTypes, Records, Profiles
    <2> QED BY <1>7, <2>1 DEF Reboot, Restored, Returned, Profiles
  <1>8. CASE UNCHANGED vars
    BY <1>8 DEF vars, modeVars, loopVars
  <1> QED BY <1>1, <1>2, <1>3, <1>4, <1>5, <1>6, <1>7, <1>8, Steps DEF CycleTask, LoopTask

LEMMA TimeStep == TimeTypes /\ ModeTypes /\ [Next]_vars => TimeTypes'
  <1> SUFFICES ASSUME TimeTypes, ModeTypes, [Next]_vars PROVE TimeTypes'
    OBVIOUS
  <1> USE CollarModesAssumption DEF TimeTypes
  <1>1. CASE UNCHANGED <<modeVars, timeVars>>
    BY <1>1 DEF modeVars, timeVars
  <1>2. ASSUME NEW p \in Profiles, CycleApplies(p), UNCHANGED timeVars PROVE TimeTypes'
    BY <1>2 DEF CycleApplies, Flagged, ElapsedAfter, timeVars
  <1>3. CASE LoopApplies /\ UNCHANGED timeVars
    BY <1>3 DEF LoopApplies, LoopBeacon, LoopFlag, Flagged, timeVars
  <1>4. CASE Tick
    BY <1>4 DEF Tick, Aged
  <1>5. CASE Reboot
    <2>1. elapsed' = 0 /\ lostFor' = 0
      BY <1>5 DEF Reboot, Boot, Restored
    <2> QED BY <1>5, <2>1 DEF Reboot
  <1>6. CASE UNCHANGED vars
    BY <1>1, <1>6 DEF vars
  <1>7. CASE CycleTask
    BY <1>1, <1>2, <1>7, Names
    DEF CycleTask, CycleStep, SetupEnds, TakeTurn, Report, WindowEnds, Wake, LostLoop, LostTimeout,
        CycleFlash, Command, CycleKeeps
  <1>8. CASE LoopTask
    <2>1. CASE LoopProceeds
      BY <1>1, <1>3, <2>1, LoopKinds DEF timeVars
    <2> QED BY <1>1, <1>8, <2>1
            DEF LoopTask, LongPress, ConsoleProfile, LoopBegins, ShortPress, RequestReport
  <1> QED BY <1>4, <1>5, <1>6, <1>7, <1>8, Steps

LEMMA FlagStep == FlagTypes /\ [Next]_vars => FlagTypes'
  <1> SUFFICES ASSUME FlagTypes, [Next]_vars PROVE FlagTypes'
    OBVIOUS
  <1> USE DEF FlagTypes, loopVars, timeVars
  <1>1. CASE SetupEnds \/ TakeTurn \/ Wake \/ LostLoop
    BY <1>1 DEF SetupEnds, TakeTurn, Wake, LostLoop, Proceed, CycleKeeps, saveVars
  <1>2. CASE Report \/ WindowEnds
    BY <1>2 DEF Report, WindowEnds, Proceed, CycleKeeps, CycleSaves
  <1>3. CASE LostTimeout \/ \E p \in Profiles : Command(p)
    BY <1>3 DEF LostTimeout, Command, Proceed, CycleApplies
  <1>4. CASE CycleFlash
    BY <1>4 DEF CycleFlash
  <1>5. CASE LongPress \/ ConsoleProfile
    <2>1. PICK p \in Profiles, report \in BOOLEAN : LoopBegins(p, report)
      BY <1>5, LoopStarts
    <2> QED BY <2>1 DEF LoopBegins, saveVars
  <1>6. CASE ShortPress
    BY <1>6 DEF ShortPress, RequestReport, saveVars
  <1>7. CASE LoopProceeds
    <2>1. fresh' \in BOOLEAN
      BY <1>7, LoopKinds DEF LoopFields, LoopCopies, LoopSums
    <2> QED BY <1>7, <2>1, LoopKinds
  <1>8. CASE Tick
    BY <1>8 DEF Tick, saveVars
  <1>9. CASE Reboot
    BY <1>9 DEF Reboot, Returned
  <1>10. CASE UNCHANGED vars
    BY <1>10 DEF vars, saveVars
  <1> QED BY <1>1, <1>2, <1>3, <1>4, <1>5, <1>6, <1>7, <1>8, <1>9, <1>10, Steps
          DEF CycleTask, CycleStep, LoopTask
LEMMA RecordStep == RecordTypes /\ ModeTypes /\ FlagTypes /\ [Next]_vars => RecordTypes'
  <1> SUFFICES ASSUME RecordTypes, ModeTypes, FlagTypes, [Next]_vars PROVE RecordTypes'
    OBVIOUS
  <1>0. ModeTypes'
    BY ModeStep
  <1>1. CASE UNCHANGED saveVars
    BY <1>1 DEF RecordTypes, saveVars, fileVars
  <1>2. ASSUME NEW t \in Tasks, Remove(t) \/ Write(t), UNCHANGED persisted PROVE RecordTypes'
    BY <1>2, MissingIsRecord, CollarModesAssumption
    DEF Remove, Write, Fails, fileVars, RecordTypes
  <1>3. CASE CycleSaves /\ UNCHANGED fileVars
    BY <1>3, HeldIsRecord DEF CycleSaves, RecordTypes, fileVars
  <1>4. ASSUME NEW p \in Profiles, CycleApplies(p), UNCHANGED fileVars PROVE RecordTypes'
    <2>1. PICK l \in BOOLEAN : l = (p = "lost")
      OBVIOUS
    <2>2. persisted' = [profile |-> p, lost |-> l, valid |-> TRUE] \/ UNCHANGED persisted
      BY <1>4, <2>1 DEF CycleApplies
    <2>3. persisted' \in Records
      <3>1. [profile |-> p, lost |-> l, valid |-> TRUE] \in Records
        BY DEF Records
      <3> QED BY <2>2, <3>1, Zenon DEF RecordTypes
    <2> QED BY <1>4, <2>3 DEF RecordTypes, fileVars
  <1>5. CASE (LoopFields \/ LoopCopies \/ LoopSums) /\ UNCHANGED fileVars
    <2>1. PICK b \in BOOLEAN : b = fresh
      BY DEF FlagTypes
    <2>2. [persisted EXCEPT !.valid = b] \in Records
      BY DEF RecordTypes, Records
    <2> QED BY <1>5, <2>1, <2>2, HeldIsRecord
        DEF LoopFields, LoopCopies, LoopSums, RecordTypes, fileVars
  <1>6. CASE CycleStep
    <2>1. CASE Report
      <3>1. [persisted EXCEPT !.valid = FALSE] \in Records
        BY DEF RecordTypes, Records
      <3> QED BY <1>3, <2>1, <3>1 DEF Report, RecordTypes, fileVars
    <2>2. CASE ~Report
      BY <1>1, <1>2, <1>3, <1>4, <1>6, <2>2, Names
      DEF CycleStep, SetupEnds, TakeTurn, WindowEnds, Wake, LostLoop, LostTimeout, CycleFlash, saveVars,
          fileVars, RecordTypes
    <2> QED BY <2>1, <2>2
  <1>7. ASSUME NEW p \in Profiles, Command(p) PROVE RecordTypes'
    BY <1>4, <1>7 DEF Command
  <1>8. CASE LoopTask
    <2>1. CASE LoopProceeds
      BY <1>1, <1>2, <1>5, <2>1, LoopKinds, Names DEF saveVars, fileVars
    <2> QED BY <1>1, <1>8, <2>1
            DEF LoopTask, LongPress, ConsoleProfile, LoopBegins, ShortPress, RequestReport
  <1>9. CASE Tick \/ UNCHANGED vars
    BY <1>1, <1>9 DEF Tick, vars
  <1>10. CASE Reboot
    <2>1. PICK p \in Profiles, l \in BOOLEAN : persisted' = [profile |-> p, lost |-> l, valid |-> TRUE]
      BY <1>10 DEF Reboot, Boot, Restored, RecordTypes, Records, Profiles
    <2> QED BY <1>10, <2>1, CollarModesAssumption DEF Reboot, Fails, RecordTypes, Records
  <1> QED BY <1>6, <1>7, <1>8, <1>9, <1>10, Steps DEF CycleTask

LEMMA CycleTypesStep == CycleTypes /\ [Next]_vars => CycleTypes'
  <1> SUFFICES ASSUME CycleTypes, [Next]_vars PROVE CycleTypes'
    OBVIOUS
  <1> USE DEF CycleTypes, Windows
  <1>1. CASE CycleStep
    BY <1>1 DEF CycleStep, SetupEnds, TakeTurn, Report, WindowEnds, Wake, LostLoop, LostTimeout,
                CycleFlash, Proceed
  <1>2. CASE ~CycleStep
    BY <1>2 DEF Next, Command, LongPress, ConsoleProfile, LoopBegins, ShortPress, RequestReport,
                LoopProceeds, Tick, Reboot, vars
  <1> QED BY <1>1, <1>2

\* Where a task goes while the other stays.
LEMMA OneMoves ==
    ASSUME PlaceTypes, NEW t \in Tasks,
           NEW to \in {"idle"} \cup Applying \cup Saving, at' = [at EXCEPT ![t] = to],
           t = "cycle" => to \in {"idle", "remove", "write"}
    PROVE  PlaceTypes' /\ at'[t] = to /\ \A u \in Tasks \ {t} : at'[u] = at[u]
  BY DEF PlaceTypes, Tasks

LEMMA PlaceStep == PlaceTypes /\ [Next]_vars => PlaceTypes'
  <1> SUFFICES ASSUME PlaceTypes, [Next]_vars PROVE PlaceTypes'
    OBVIOUS
  <1>0. /\ {"idle", "profile", "config", "beacon", "flag", "start", "fields", "copy", "sum", "remove",
            "write"} = {"idle"} \cup Applying \cup Saving
        /\ "cycle" \in Tasks /\ "loop" \in Tasks
    BY DEF Applying, Saving, Tasks
  <1>1. CASE UNCHANGED at
    BY <1>1 DEF PlaceTypes
  <1>2. CASE at' = [at EXCEPT !["cycle"] = "remove"]
    BY <1>0, <1>2, OneMoves
  <1>3. CASE CycleFlash
    BY <1>0, <1>3, OneMoves DEF CycleFlash, Remove, Write
  <1>4. CASE CycleTask
    BY <1>1, <1>2, <1>3, <1>4
    DEF CycleTask, CycleStep, SetupEnds, TakeTurn, Report, WindowEnds, Wake, LostLoop, LostTimeout,
        Command, CycleSaves, CycleApplies
  <1>5. CASE LoopTask
    <2>1. \/ UNCHANGED at
          \/ \E to \in {"idle"} \cup Applying \cup Saving : at' = [at EXCEPT !["loop"] = to]
      BY <1>0, <1>5
      DEF LoopTask, LongPress, ConsoleProfile, LoopBegins, ShortPress, RequestReport, LoopProceeds,
          LoopSaved, LoopApplies, LoopAdvances, LoopBeacon, LoopFlag, LoopFields, LoopCopies,
          LoopSums, Remove, Write
    <2> QED BY <1>0, <1>1, <2>1, OneMoves
  <1>6. CASE Tick \/ UNCHANGED vars
    BY <1>1, <1>6 DEF Tick, vars
  <1>7. CASE Reboot
    BY <1>0, <1>7 DEF Reboot, Setup, PlaceTypes
  <1> QED BY <1>4, <1>5, <1>6, <1>7, Steps

LEMMA InitTypes == Init => TypeOK
  <1> SUFFICES ASSUME Init PROVE TypeOK
    OBVIOUS
  <1>1. ModeTypes /\ FlagTypes /\ CycleTypes
    BY DEF Init, ModeTypes, FlagTypes, CycleTypes, Profiles
  <1>2. TimeTypes
    BY CollarModesAssumption DEF Init, TimeTypes
  <1>3. RecordTypes
    BY MissingIsRecord, CollarModesAssumption DEF Init, RecordTypes, Records, Profiles
  <1>4. PlaceTypes
    BY DEF Init, Setup, PlaceTypes, Tasks, Applying, Saving
  <1> QED BY <1>1, <1>2, <1>3, <1>4, TypeParts

LEMMA TypeStep == TypeOK /\ [Next]_vars => TypeOK'
  <1>1. TypeOK /\ [Next]_vars => /\ ModeTypes' /\ TimeTypes' /\ FlagTypes' /\ RecordTypes'
                                 /\ CycleTypes' /\ PlaceTypes'
    BY TypeParts, ModeStep, TimeStep, FlagStep, RecordStep, CycleTypesStep, PlaceStep
  <1> QED BY <1>1, TypeParts, PTL

\* Every variable keeps its type, for any length of Lost mode and any number of resets.
THEOREM TypeCorrect == Spec => []TypeOK
  <1> QED BY InitTypes, TypeStep, PTL DEF Spec
-----------------------------------------------------------------------------
(* The two hours of Lost mode.                                             *)

\* The time since the start covers the time in Lost mode, or is up; no time passes while
\* the loop is between flag and start.  A window of Lost mode opened before the time was
\* up, and lasts no longer than one tick.
TimerCovers ==
    /\ ~inLostMode => lostFor = 0
    /\ inLostMode => lostFor <= elapsed \/ elapsed >= LostMax
    /\ at["loop"] = "start" => lostFor = 0
    /\ cycle = "lostWindow" => lostFor + (IF moved THEN 1 ELSE 0) <= LostMax

TimerInv == TypeOK /\ TimerCovers

\* Someone applies a profile: Lost mode goes on with the start it has, or begins, or ends.
LEMMA TimerFlagged ==
    ASSUME TimerInv, TypeOK', NEW p \in Profiles, Flagged(p), UNCHANGED <<cycle, moved>>,
           elapsed' = ElapsedAfter(p) \/ elapsed' = elapsed,
           at'["loop"] = "start" => lostFor' = 0
    PROVE  TimerCovers'
  <1>1. /\ LostMax \in Nat \ {0} /\ elapsed \in 0 .. LostMax /\ lostFor \in 0 .. LostMax + 1
        /\ elapsed' \in 0 .. LostMax /\ moved \in BOOLEAN
    BY CollarModesAssumption, TypeParts DEF TimerInv, TypeOK
  <1>2. CASE p = "lost" /\ inLostMode
    <2>1. inLostMode' /\ lostFor' = lostFor /\ elapsed' = elapsed
      BY <1>2 DEF Flagged, ElapsedAfter
    <2> QED BY <1>1, <1>2, <2>1 DEF TimerInv, TimerCovers
  <1>3. CASE ~(p = "lost" /\ inLostMode)
    <2>1. lostFor' = 0
      BY <1>3 DEF Flagged
    <2> QED BY <1>1, <2>1 DEF TimerInv, TimerCovers
  <1> QED BY <1>2, <1>3

LEMMA TimerStep == TimerInv /\ [Next]_vars => TimerInv'
  <1> SUFFICES ASSUME TimerInv, [Next]_vars PROVE TimerCovers'
    BY TypeStep DEF TimerInv
  <1>0. /\ LostMax \in Nat \ {0} /\ elapsed \in 0 .. LostMax /\ lostFor \in 0 .. LostMax + 1
        /\ TypeOK' /\ moved \in BOOLEAN /\ inLostMode \in BOOLEAN /\ PlaceTypes
    BY TypeStep, CollarModesAssumption, TypeParts DEF TimerInv, TypeOK
  <1> USE DEF TimerInv, TimerCovers
  <1>1. ASSUME NEW p \in Profiles, CycleApplies(p) PROVE at'["loop"] = at["loop"] /\ Flagged(p)
    BY <1>0, <1>1 DEF CycleApplies, PlaceTypes, Tasks
  <1>2. ASSUME NEW p \in Profiles, Command(p) PROVE TimerCovers'
    <2>1. at["loop"] = "start" => lostFor' = 0
      BY <1>2 DEF Command, CycleApplies, Flagged
    <2> QED BY <1>0, <1>1, <1>2, <2>1, TimerFlagged DEF Command, CycleApplies
  <1>3. CASE LostTimeout
    <2>1. /\ cycle' = "top" /\ inLostMode' = FALSE /\ lostFor' = 0
      BY <1>3 DEF LostTimeout, Proceed, CycleApplies, Flagged, LOST_MODE_FALLBACK
    <2> QED BY <2>1
  <1>4. CASE LostLoop
    BY <1>0, <1>4 DEF LostLoop, Proceed, CycleKeeps, modeVars
  <1>5. CASE SetupEnds \/ TakeTurn \/ Report \/ WindowEnds \/ Wake
    <2>1. /\ UNCHANGED modeVars /\ cycle' # "lostWindow" /\ at'["loop"] = at["loop"]
      BY <1>0, <1>5 DEF SetupEnds, TakeTurn, Report, WindowEnds, Wake, Proceed, CycleKeeps, CycleSaves,
                        PlaceTypes, Tasks
    <2> QED BY <2>1 DEF modeVars
  <1>6. CASE CycleFlash
    <2>1. /\ UNCHANGED <<modeVars, cycle, moved>> /\ at'["loop"] = at["loop"]
      BY <1>0, <1>6 DEF CycleFlash, Remove, Write, PlaceTypes, Tasks
    <2> QED BY <2>1 DEF modeVars
  <1>7. CASE LongPress \/ ConsoleProfile
    <2>1. PICK p \in Profiles, report \in BOOLEAN : LoopBegins(p, report)
      BY <1>7, LoopStarts
    <2>2. /\ UNCHANGED <<modeVars, cycle, moved>> /\ at'["loop"] = "profile"
      BY <1>0, <2>1 DEF LoopBegins, PlaceTypes, Tasks
    <2> QED BY <2>2 DEF modeVars
  <1>8. CASE ShortPress
    BY <1>8 DEF ShortPress, RequestReport, modeVars
  <1>9. CASE LoopProceeds
    <2>1. UNCHANGED <<cycle, moved>>
      BY <1>9 DEF LoopProceeds
    <2>2. CASE UNCHANGED modeVars /\ at'["loop"] # "start"
      BY <2>1, <2>2 DEF modeVars
    <2>3. CASE LoopFlag
      <3>1. target \in Profiles /\ Flagged(target) /\ elapsed' = elapsed
        BY <1>0, <2>3, TypeParts DEF LoopFlag, TypeOK
      <3>2. at'["loop"] = "start" => lostFor' = 0
        BY <1>0, <2>3 DEF LoopFlag, LoopAdvances, Flagged, PlaceTypes, Tasks
      <3> QED BY <1>0, <2>1, <3>1, <3>2, TimerFlagged
    <2>4. CASE LoopBeacon
      BY <1>0, <2>1, <2>4 DEF LoopBeacon, LoopAdvances, PlaceTypes, Tasks
    <2>5. CASE LoopApplies /\ ~LoopFlag /\ ~LoopBeacon
      <3>1. /\ UNCHANGED <<inLostMode, lostFor>> /\ at'["loop"] # "start"
            /\ elapsed' = elapsed \/ at["loop"] = "start"
        BY <1>0, <2>5 DEF LoopApplies, LoopAdvances, PlaceTypes, Tasks
      <3>2. elapsed' \in Nat
        BY <1>0 DEF TypeOK
      <3> QED BY <1>0, <2>1, <3>1, <3>2
    <2>6. CASE \/ LoopFields \/ LoopCopies \/ LoopSums \/ Remove("loop") \/ Write("loop")
               \/ LoopAdvances("fields", "idle")
      <3>1. at'["loop"] # "start"
        BY <1>0, <2>6
        DEF LoopFields, LoopCopies, LoopSums, Remove, Write, LoopAdvances, PlaceTypes, Tasks
      <3>2. UNCHANGED modeVars
        BY <1>0, <1>9, <2>6, LoopKinds
        DEF LoopApplies, LoopAdvances, LoopBeacon, LoopFlag, LoopFields, LoopCopies,
            LoopSums, Remove, Write
      <3> QED BY <2>2, <3>1, <3>2
    <2> QED BY <1>9, <2>3, <2>4, <2>5, <2>6, LoopKinds
  <1>10. CASE Tick
    <2>1. at["loop"] = "idle"
      BY <1>10 DEF Tick, Quiet, Tasks
    <2> QED BY <1>0, <1>10, <2>1 DEF Tick, Aged
  <1>11. CASE Reboot
    <2>1. lostFor' = 0 /\ cycle' = "setup"
      BY <1>11 DEF Reboot, Boot, Restored
    <2>2. elapsed' \in Nat
      BY <1>0 DEF TypeOK
    <2> QED BY <2>1, <2>2
  <1>12. CASE UNCHANGED vars
    BY <1>12 DEF vars, modeVars
  <1> QED BY <1>2, <1>3, <1>4, <1>5, <1>6, <1>7, <1>8, <1>9, <1>10, <1>11, <1>12, Steps
          DEF CycleTask, CycleStep, LoopTask

\* No packet is sent in Lost mode after its time, for any length of it, however often
\* the mode is requested again and wherever the tasks preempt one another
\* (runLostMode, applyProfile).
THEOREM LostIsBounded == Spec => []LostBounded
  <1>1. Init => TimerInv
    BY InitTypes DEF Init, TimerInv, TimerCovers, Tasks
  <1>2. TimerInv => LostBounded
    <2> SUFFICES ASSUME TimerInv, cycle = "lostWindow" PROVE lostFor <= LostMax
      BY DEF LostBounded
    <2>1. lostFor \in Nat /\ LostMax \in Nat
      BY CollarModesAssumption DEF TimerInv, TypeOK
    <2> QED BY <2>1 DEF TimerInv, TimerCovers
  <1> QED BY <1>1, <1>2, TimerStep, PTL DEF Spec
-----------------------------------------------------------------------------
(* Profile, parameters, flag and beacon; RAM and flash.                    *)

Agree ==
    /\ currentConfig = currentProfile
    /\ inLostMode = (currentProfile = "lost")
    /\ bleAdvertising = inLostMode

\* How far the loop has come, by what it has written of the profile it applies.
Stages ==
    /\ at["loop"] \notin {"config", "beacon", "flag"} => Agree
    /\ at["loop"] \notin {"idle", "profile"} => currentProfile = target
    /\ at["loop"] \in {"beacon", "flag"} => currentConfig = target
    /\ at["loop"] = "flag" => bleAdvertising = (target = "lost")

\* The record in RAM: half-written while the loop sums it, whole while either task
\* writes it to flash; and flash, where a whole record is consistent.
Record ==
    /\ at["loop"] \in {"copy", "sum"} => persisted = [Held EXCEPT !.valid = FALSE]
    /\ at["loop"] = "sum" => fresh
    /\ at["loop"] \in {"remove", "write"} \/ ~Quiet("cycle") => persisted = Held
    /\ at["loop"] \in {"copy", "sum", "remove", "write"} \/ ~Quiet("cycle") => collarStateReady
    /\ Quiescent /\ collarStateReady /\ saved = "whole" => flash = Held
    /\ saved = "lost" => flash = Missing
    /\ at["loop"] = "write" \/ at["cycle"] = "write" => saved # "whole"
    /\ flash.valid => flash.lost = (flash.profile = "lost")

InTurn == ~raced => (Quiet("cycle") \/ Quiet("loop")) /\ Stages /\ Record

TurnInv == TypeOK /\ InTurn

\* A step in which nothing but time and requests for reports changes.
LEMMA TurnKept ==
    ASSUME TurnInv, ~raced, Quiet("cycle") \/ Quiet("loop"), at' = at,
           UNCHANGED <<flash, saved, collarStateReady, target>>,
           UNCHANGED <<currentProfile, currentConfig, bleAdvertising, inLostMode>>,
           Quiescent \/ UNCHANGED <<persisted, fresh>>
    PROVE  (Quiet("cycle") \/ Quiet("loop"))' /\ Stages' /\ Record'
  <1>1. Stages' /\ (Quiet("cycle") \/ Quiet("loop"))'
    BY DEF TurnInv, InTurn, Stages, Agree, Quiet
  <1>2. Record
    BY DEF TurnInv, InTurn
  <1>3. Held' = Held /\ (Quiescent' <=> Quiescent)
    BY DEF Held, Quiescent, Quiet
  <1>4. CASE UNCHANGED <<persisted, fresh>>
    BY <1>1, <1>2, <1>3, <1>4 DEF Record, Quiet
  <1>5. CASE Quiescent
    <2>1. at["loop"] = "idle" /\ at["cycle"] = "idle"
      BY <1>5 DEF Quiescent, Quiet, Tasks
    <2> QED BY <1>1, <1>2, <1>3, <1>5, <2>1 DEF Record, Quiet
  <1> QED BY <1>4, <1>5

\* cycleTask saves what it has applied, or what is in force.
LEMMA TurnSaves ==
    ASSUME TurnInv, ~raced, Quiet("loop"), at' = [at EXCEPT !["cycle"] = "remove"], Agree',
           persisted' = Held', collarStateReady, UNCHANGED <<flash, saved, collarStateReady>>
    PROVE  (Quiet("cycle") \/ Quiet("loop"))' /\ Stages' /\ Record'
  <1>1. at'["cycle"] = "remove" /\ at'["loop"] = "idle"
    BY TypeParts DEF TurnInv, PlaceTypes, Quiet, Tasks
  <1> QED BY <1>1 DEF TurnInv, InTurn, Stages, Record, Quiet, Quiescent, Tasks

\* Where there is no file system it applies a profile and saves nothing.
LEMMA TurnUnsaved ==
    ASSUME TurnInv, ~raced, Quiescent, ~collarStateReady, Agree',
           UNCHANGED <<at, flash, saved, collarStateReady>>
    PROVE  (Quiet("cycle") \/ Quiet("loop"))' /\ Stages' /\ Record'
  <1>1. at["cycle"] = "idle" /\ at["loop"] = "idle"
    BY DEF Quiescent, Quiet, Tasks
  <1> QED BY <1>1 DEF TurnInv, InTurn, Stages, Record, Quiet, Quiescent, Tasks

LEMMA AgreesAlready == TurnInv /\ ~raced /\ Quiet("loop") => Agree
  BY DEF TurnInv, InTurn, Stages, Quiet

LEMMA TurnCycle ==
    ASSUME TurnInv, TypeOK', CycleTask, ~raced'
    PROVE  (Quiet("cycle") \/ Quiet("loop"))' /\ Stages' /\ Record'
  <1>0. raced \in BOOLEAN /\ PlaceTypes /\ ModeTypes
    BY TypeParts DEF TurnInv, TypeOK
  <1>1. ~raced
    BY <1>0 DEF CycleTask, CycleStep, SetupEnds, TakeTurn, Report, WindowEnds, Wake, LostLoop,
                LostTimeout, CycleFlash, Command, CycleSaves, CycleApplies
  <1>2. Quiet("cycle") \/ Quiet("loop")
    BY <1>1 DEF TurnInv, InTurn
  <1>3. ASSUME CycleSaves, UNCHANGED <<flash, saved, collarStateReady>>, UNCHANGED modeVars
        PROVE  (Quiet("cycle") \/ Quiet("loop"))' /\ Stages' /\ Record'
    <2>1. Quiet("loop")
      BY <1>0, <1>1, <1>3 DEF CycleSaves
    <2>2. /\ Agree' /\ persisted' = Held' /\ at' = [at EXCEPT !["cycle"] = "remove"]
          /\ collarStateReady
      BY <1>1, <1>3, <2>1, AgreesAlready DEF CycleSaves, Held, Agree, modeVars
    <2> QED BY <1>1, <1>3, <2>1, <2>2, TurnSaves
  <1>4. ASSUME NEW p \in Profiles, CycleApplies(p), Quiet("cycle"),
               UNCHANGED <<flash, saved, collarStateReady>>
        PROVE  (Quiet("cycle") \/ Quiet("loop"))' /\ Stages' /\ Record'
    <2>1. Quiet("loop")
      BY <1>0, <1>1, <1>4 DEF CycleApplies
    <2>2. Agree'
      BY <1>4 DEF CycleApplies, Flagged, Agree
    <2>3. CASE collarStateReady
      <3>1. persisted' = Held' /\ at' = [at EXCEPT !["cycle"] = "remove"]
        BY <1>4, <2>3 DEF CycleApplies, Flagged, Held
      <3> QED BY <1>1, <1>4, <2>1, <2>2, <2>3, <3>1, TurnSaves
    <2>4. CASE ~collarStateReady
      <3>1. UNCHANGED at /\ Quiescent
        BY <1>4, <2>1, <2>4 DEF CycleApplies, Quiescent, Tasks
      <3> QED BY <1>1, <1>4, <2>2, <2>4, <3>1, TurnUnsaved
    <2> QED BY <2>3, <2>4
  <1>5. CASE SetupEnds \/ TakeTurn \/ Wake \/ LostLoop
    <2>1. UNCHANGED <<modeVars, loopVars, saveVars, timeVars, at>>
      BY <1>5 DEF SetupEnds, TakeTurn, Wake, LostLoop, CycleKeeps
    <2> QED BY <1>1, <1>2, <2>1, TurnKept DEF modeVars, loopVars, saveVars, fileVars, timeVars
  <1>6. CASE Report
    <2>1. UNCHANGED <<modeVars, loopVars, flash, saved, collarStateReady>> /\ Quiet("cycle")
      BY <1>6 DEF Report, Proceed, CycleKeeps, fileVars, timeVars
    <2>2. CASE CycleSaves
      BY <1>3, <2>1, <2>2
    <2>3. CASE UNCHANGED <<persisted, fresh, at, raced>>
      BY <1>1, <1>2, <2>1, <2>3, TurnKept DEF modeVars, loopVars
    <2>4. CASE at["loop"] \in Saving
      BY <1>1, <1>6, <2>2, <2>3 DEF Report
    <2> QED BY <1>6, <2>2, <2>3, <2>4 DEF Report
  <1>7. CASE WindowEnds
    <2>1. UNCHANGED <<modeVars, loopVars, flash, saved, collarStateReady>>
      BY <1>7 DEF WindowEnds, CycleKeeps, fileVars, timeVars
    <2>2. CASE CycleSaves
      BY <1>3, <2>1, <2>2
    <2>3. CASE UNCHANGED <<persisted, fresh, at, raced>>
      BY <1>1, <1>2, <2>1, <2>3, TurnKept DEF modeVars, loopVars
    <2> QED BY <1>7, <2>2, <2>3 DEF WindowEnds
  <1>8. CASE LostTimeout
    BY <1>4, <1>8, Names DEF LostTimeout, Proceed, fileVars, timeVars
  <1>9. CASE CycleFlash
    <2>1. /\ UNCHANGED <<modeVars, persisted, fresh, loopVars, collarStateReady>>
          /\ Remove("cycle") \/ Write("cycle")
      BY <1>9 DEF CycleFlash, timeVars
    <2>2. /\ at["loop"] = "idle" /\ persisted = Held /\ Agree /\ collarStateReady /\ Record
      BY <1>1, <1>2, <2>1 DEF TurnInv, InTurn, Record, Stages, Quiet, Remove, Write
    <2>3. Agree' /\ Held' = Held /\ persisted' = Held'
      BY <2>1, <2>2 DEF Agree, Held, modeVars
    <2>4. persisted.valid => persisted.lost = (persisted.profile = "lost")
      BY <1>0, <2>2, HeldIsRecord DEF Agree
    <2>5. CASE Remove("cycle")
      <3>1. at'["cycle"] = "write" /\ at'["loop"] = "idle"
        BY <1>0, <2>2, <2>5 DEF Remove, PlaceTypes, Tasks
      <3>2. \/ saved' = "lost" /\ flash' = Missing
            \/ saved' = "kept" /\ flash' = flash
        BY <2>5 DEF Remove
      <3> QED BY <2>1, <2>2, <2>3, <3>1, <3>2, MissingIsRecord DEF Stages, Record, Quiet, Quiescent, Tasks
    <2>6. CASE Write("cycle")
      <3>1. at'["cycle"] = "idle" /\ at'["loop"] = "idle" /\ at["cycle"] = "write"
        BY <1>0, <2>2, <2>6 DEF Write, PlaceTypes, Tasks
      <3>2. \/ flash' = persisted /\ saved' \in {"kept", "whole"}
            \/ UNCHANGED <<flash, saved>>
        BY <2>6 DEF Write, fileVars
      <3> QED BY <2>1, <2>2, <2>3, <2>4, <3>1, <3>2 DEF Stages, Record, Quiet, Quiescent, Tasks
    <2> QED BY <2>1, <2>5, <2>6
  <1>10. ASSUME NEW p \in Profiles, Command(p)
         PROVE  (Quiet("cycle") \/ Quiet("loop"))' /\ Stages' /\ Record'
    BY <1>4, <1>10 DEF Command, fileVars, timeVars
  <1> QED BY <1>5, <1>6, <1>7, <1>8, <1>9, <1>10 DEF CycleTask, CycleStep

LEMMA TurnLoop ==
    ASSUME TurnInv, TypeOK', LoopTask, ~raced'
    PROVE  (Quiet("cycle") \/ Quiet("loop"))' /\ Stages' /\ Record'
  <1>0. raced \in BOOLEAN /\ PlaceTypes /\ ModeTypes /\ FlagTypes /\ "loop" \in Tasks
    BY TypeParts DEF TurnInv, TypeOK, Tasks
  <1>1. CASE LongPress \/ ConsoleProfile
    <2>1. PICK p \in Profiles, report \in BOOLEAN : LoopBegins(p, report)
      BY <1>1, LoopStarts
    <2>2. /\ ~raced /\ at["loop"] = "idle" /\ at["cycle"] = "idle"
          /\ UNCHANGED <<modeVars, saveVars, timeVars>>
          /\ at' = [at EXCEPT !["loop"] = "profile"]
      BY <1>0, <2>1 DEF LoopBegins, Quiet
    <2>3. at'["loop"] = "profile" /\ at'["cycle"] = "idle" /\ Agree
      BY <1>0, <2>2, AgreesAlready DEF PlaceTypes, Tasks, Quiet
    <2> QED BY <2>2, <2>3 DEF TurnInv, InTurn, Stages, Record, Held, Agree, Quiet, Quiescent, Tasks,
                              modeVars, saveVars, fileVars, timeVars
  <1>2. CASE ShortPress
    <2>1. UNCHANGED <<modeVars, saveVars, loopVars, timeVars, at, raced>>
      BY <1>2 DEF ShortPress, RequestReport
    <2> QED BY <2>1, TurnKept DEF TurnInv, InTurn, modeVars, saveVars, fileVars, loopVars, timeVars
  <1>3. CASE LoopProceeds
    <2>1. /\ ~raced /\ UNCHANGED collarStateReady
          /\ \/ UNCHANGED target \/ at["loop"] = "write"
             \/ at["loop"] = "fields" /\ ~collarStateReady
      BY <1>3, LoopKinds DEF loopVars
    <2>2. ~Quiet("loop")
      BY <1>3, LoopKinds
      DEF LoopApplies, LoopAdvances, LoopBeacon, LoopFlag, LoopFields, LoopCopies, LoopSums, Remove, Write,
          Quiet
    <2>3. at["cycle"] = "idle" /\ Stages /\ Record
      BY <2>1, <2>2 DEF TurnInv, InTurn, Quiet
    <2>4. ASSUME NEW to \in {"idle"} \cup Applying \cup Saving, at' = [at EXCEPT !["loop"] = to]
          PROVE  at'["loop"] = to /\ at'["cycle"] = "idle"
      BY <1>0, <2>3, <2>4 DEF PlaceTypes, Tasks
    <2> USE DEF Stages, Record, Agree, Quiet, Quiescent, Tasks
    <2>5. CASE LoopApplies /\ UNCHANGED <<persisted, fresh, flash, saved, failures>>
      <3>1. CASE at["loop"] = "profile"
        <4>1. at' = [at EXCEPT !["loop"] = "config"] /\ currentProfile' = target
          BY <2>5, <3>1 DEF LoopApplies, LoopAdvances, LoopBeacon, LoopFlag
        <4>2. at'["loop"] = "config" /\ at'["cycle"] = "idle"
          BY <2>4, <4>1 DEF Applying
        <4> QED BY <2>1, <2>3, <2>5, <3>1, <4>1, <4>2
      <3>2. CASE at["loop"] = "config"
        <4>1. /\ at' = [at EXCEPT !["loop"] = "beacon"] /\ currentConfig' = target
              /\ UNCHANGED currentProfile
          BY <2>5, <3>2 DEF LoopApplies, LoopAdvances, LoopBeacon, LoopFlag
        <4>2. at'["loop"] = "beacon" /\ at'["cycle"] = "idle"
          BY <2>4, <4>1 DEF Applying
        <4> QED BY <2>1, <2>3, <2>5, <3>2, <4>1, <4>2
      <3>3. CASE at["loop"] = "beacon"
        <4>1. /\ at' = [at EXCEPT !["loop"] = "flag"] /\ bleAdvertising' = (target = "lost")
              /\ UNCHANGED <<currentProfile, currentConfig>>
          BY <2>5, <3>3 DEF LoopApplies, LoopAdvances, LoopBeacon, LoopFlag
        <4>2. at'["loop"] = "flag" /\ at'["cycle"] = "idle"
          BY <2>4, <4>1 DEF Applying
        <4> QED BY <2>1, <2>3, <2>5, <3>3, <4>1, <4>2
      <3>4. CASE at["loop"] = "flag"
        <4>1. /\ at' = [at EXCEPT !["loop"] = IF target = "lost" /\ inLostMode THEN "fields" ELSE "start"]
              /\ inLostMode' = (target = "lost")
              /\ UNCHANGED <<currentProfile, currentConfig, bleAdvertising>>
          BY <2>5, <3>4 DEF LoopApplies, LoopAdvances, LoopBeacon, LoopFlag, Flagged
        <4>2. at'["loop"] \in {"fields", "start"} /\ at'["cycle"] = "idle"
          BY <2>4, <4>1 DEF Applying, Saving
        <4> QED BY <2>1, <2>3, <2>5, <3>4, <4>1, <4>2
      <3>5. CASE at["loop"] = "start"
        <4>1. /\ at' = [at EXCEPT !["loop"] = "fields"]
              /\ UNCHANGED <<currentProfile, currentConfig, bleAdvertising, inLostMode>>
          BY <2>5, <3>5 DEF LoopApplies, LoopAdvances, LoopBeacon, LoopFlag
        <4>2. at'["loop"] = "fields" /\ at'["cycle"] = "idle"
          BY <2>4, <4>1 DEF Saving
        <4> QED BY <2>1, <2>3, <2>5, <3>5, <4>1, <4>2
      <3> QED BY <2>5, <3>1, <3>2, <3>3, <3>4, <3>5
              DEF LoopApplies, LoopAdvances, LoopBeacon, LoopFlag
    <2>6. CASE LoopFields /\ UNCHANGED <<modeVars, flash, saved, failures>>
      <3>1. at'["loop"] = "copy" /\ at'["cycle"] = "idle"
        BY <2>4, <2>6 DEF LoopFields, Saving
      <3> QED BY <2>1, <2>3, <2>6, <3>1 DEF LoopFields, modeVars, Held
    <2>7. CASE LoopCopies /\ UNCHANGED <<modeVars, flash, saved, failures>>
      <3>1. at'["loop"] = "sum" /\ at'["cycle"] = "idle"
        BY <2>4, <2>7 DEF LoopCopies, Saving
      <3> QED BY <2>1, <2>3, <2>7, <3>1 DEF LoopCopies, modeVars, Held
    <2>8. CASE LoopSums /\ UNCHANGED <<modeVars, flash, saved, failures>>
      <3>1. at'["loop"] = "remove" /\ at'["cycle"] = "idle"
        BY <2>4, <2>8 DEF LoopSums, Saving
      <3>2. fresh = TRUE
        BY <1>0, <2>3, <2>8 DEF LoopSums, FlagTypes
      <3>3. persisted' = Held
        <4>1. persisted' = [persisted EXCEPT !.valid = TRUE] /\ persisted = [Held EXCEPT !.valid = FALSE]
          BY <2>3, <2>8, <3>2 DEF LoopSums
        <4> QED BY <4>1 DEF Held
      <3> QED BY <2>1, <2>3, <2>8, <3>1, <3>3 DEF LoopSums, modeVars, Held
    <2>9. CASE Remove("loop") /\ UNCHANGED <<modeVars, persisted, fresh>>
      <3>1. at'["loop"] = "write" /\ at'["cycle"] = "idle"
        BY <2>4, <2>9 DEF Remove, Saving
      <3>2. \/ saved' = "lost" /\ flash' = Missing
            \/ saved' = "kept" /\ flash' = flash
        BY <2>9 DEF Remove
      <3>3. at["loop"] = "remove"
        BY <2>9 DEF Remove
      <3> QED BY <2>1, <2>3, <2>9, <3>1, <3>2, <3>3, MissingIsRecord DEF modeVars, Held
    <2>10. CASE Write("loop") /\ UNCHANGED <<modeVars, persisted, fresh>>
      <3>1. at'["loop"] = "idle" /\ at'["cycle"] = "idle" /\ at["loop"] = "write"
        BY <2>4, <2>10 DEF Write
      <3>2. persisted = Held /\ Held' = Held
        BY <2>3, <2>10, <3>1 DEF modeVars, Held
      <3>3. persisted.lost = (persisted.profile = "lost")
        BY <1>0, <2>3, <3>1, <3>2, HeldIsRecord
      <3>4. \/ flash' = persisted /\ saved' \in {"kept", "whole"}
            \/ UNCHANGED <<flash, saved>>
        BY <2>10 DEF Write, fileVars
      <3> QED BY <2>1, <2>3, <2>10, <3>1, <3>2, <3>3, <3>4 DEF modeVars
    <2>11. CASE /\ LoopAdvances("fields", "idle") /\ ~collarStateReady
                /\ UNCHANGED <<modeVars, persisted, fresh, flash, saved, failures>>
      <3>1. at'["loop"] = "idle" /\ at'["cycle"] = "idle" /\ at["loop"] = "fields"
        BY <2>4, <2>11 DEF LoopAdvances
      <3> QED BY <2>1, <2>3, <2>11, <3>1 DEF modeVars
    <2> QED BY <1>3, <2>5, <2>6, <2>7, <2>8, <2>9, <2>10, <2>11, LoopKinds
  <1> QED BY <1>1, <1>2, <1>3 DEF LoopTask

LEMMA TurnReboot ==
    ASSUME TurnInv, Reboot, ~raced'
    PROVE  (Quiet("cycle") \/ Quiet("loop"))' /\ Stages' /\ Record'
  <1>1. /\ ~raced /\ UNCHANGED <<flash, saved>> /\ at'["loop"] = "idle"
        /\ at'["cycle"] = IF collarStateReady' THEN "remove" ELSE "idle"
    BY DEF Reboot, Setup, Tasks
  <1>2. Record
    BY <1>1 DEF TurnInv, InTurn
  <1>3. PICK p \in Profiles, l \in BOOLEAN : Restored(p, l) /\ l = (p = "lost")
    <2>1. flash \in Records /\ (flash.valid => flash.lost = (flash.profile = "lost"))
      BY <1>2, TypeParts DEF TurnInv, RecordTypes, Record
    <2> QED BY <2>1 DEF Reboot, Boot, Records, Profiles
  <1>4. Agree' /\ persisted' = Held'
    BY <1>3 DEF Restored, Agree, Held
  <1> QED BY <1>1, <1>2, <1>4 DEF Stages, Record, Quiet, Quiescent, Tasks

LEMMA TurnStep == TurnInv /\ [Next]_vars => TurnInv'
  <1> SUFFICES ASSUME TurnInv, [Next]_vars, ~raced'
               PROVE  (Quiet("cycle") \/ Quiet("loop"))' /\ Stages' /\ Record'
    BY TypeStep DEF TurnInv, InTurn
  <1>1. TypeOK'
    BY TypeStep DEF TurnInv
  <1>2. CASE Tick \/ UNCHANGED vars
    <2>1. /\ UNCHANGED <<at, raced, flash, saved, collarStateReady, target, persisted, fresh>>
          /\ UNCHANGED <<currentProfile, currentConfig, bleAdvertising, inLostMode>>
      BY <1>2 DEF Tick, vars, saveVars, fileVars, loopVars, modeVars, timeVars
    <2> QED BY <2>1, TurnKept DEF TurnInv, InTurn
  <1> QED BY <1>1, <1>2, TurnCycle, TurnLoop, TurnReboot, Steps

LEMMA InitTurn == Init => TurnInv
  <1> SUFFICES ASSUME Init PROVE Stages /\ Record /\ Quiet("loop")
    BY InitTypes DEF TurnInv, InTurn
  <1>1. /\ at["loop"] = "idle"
        /\ at["cycle"] = IF collarStateReady THEN "remove" ELSE "idle"
    BY DEF Init, Setup, Tasks
  <1> QED BY <1>1, MissingIsRecord DEF Init, Stages, Agree, Record, Held, Quiet, Quiescent, Tasks

\* Unless the two tasks overlapped, profile, parameters, Lost flag and find beacon agree
\* when no one is applying a profile, through every reset (applyProfile).
THEOREM ModesInStep == Spec => []ModesAgree
  <1>1. TurnInv => ModesAgree
    BY DEF TurnInv, InTurn, Stages, Agree, ModesAgree, Quiescent, Quiet, Tasks
  <1> QED BY <1>1, InitTurn, TurnStep, PTL DEF Spec

\* Unless the two tasks overlapped, when no one is saving flash holds the profile and the
\* Lost flag in force where the last save succeeded, and no record at all where it lost
\* the file: a reset brings back no profile the collar has left, unless the file could not
\* be removed or the file system was not there (collarStateSave, collarStateLoad).
THEOREM FlashFollows == Spec => []FlashCurrent
  <1>1. TurnInv => FlashCurrent
    BY DEF TurnInv, InTurn, Record, FlashCurrent
  <1> QED BY <1>1, InitTurn, TurnStep, PTL DEF Spec
=============================================================================
