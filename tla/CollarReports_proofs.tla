------------------------- MODULE CollarReports_proofs -------------------------
(***************************************************************************)
(* Theorems about the reports of the nRF52840 collar (CollarReports), for  *)
(* every set of profiles and thresholds, every interval of checkpoints and *)
(* any number of packets, commands and resets.                             *)
(***************************************************************************)
EXTENDS CollarReports, TLAPS

\* While a window is open, and what happens in it is answered and saved.
Open == phase \in {"listen", "answer", "remove", "write"}

\* The window waits for the receipt of the report in the buffer, which has a number.
Awaited == Open => expected # 0 /\ buffer = expected

\* The count of windows never exceeds those that went unanswered, in RAM and in flash,
\* and is 0 while a receipt is saved.
Counted ==
    /\ failed <= misses /\ flash.failed <= misses
    /\ phase \in {"remove", "write"} /\ resume = "acked" => failed = 0

\* A save knows where the task goes on.
Going == phase \in {"remove", "write"} => resume # "none"

ReportsInv == TypeOK /\ Going /\ Awaited /\ Counted
-----------------------------------------------------------------------------
(* Types, in the groups the actions change together.                       *)

PlaceTypes ==
    /\ phase \in Phases /\ resume \in {"none", "open", "acked", "answer", "after"}
    /\ kind \in Kinds
FlagTypes == boot \in BOOLEAN /\ home \in BOOLEAN /\ acked \in BOOLEAN
RestTypes ==
    /\ profile \in Profiles /\ attempts \in 0 .. 2 /\ reboots \in 0 .. MaxReboots
    /\ failures \in 0 .. MaxFailures
NumberTypes == seq \in 0 .. MaxSeq /\ buffer \in 0 .. MaxSeq /\ expected \in 0 .. MaxSeq
CountTypes == failed \in Nat /\ misses \in Nat /\ flash \in [failed : Nat, seq : 0 .. MaxSeq]
AirTypes ==
    /\ receipts \subseteq 1 .. MaxSeq /\ commands \subseteq 1 .. MaxCommands
    /\ lastCmd \in 0 .. MaxCommands /\ issued \in 0 .. MaxCommands
CellTypes ==
    /\ cellPending \in BOOLEAN /\ notified \in BOOLEAN /\ owed \in BOOLEAN
    /\ modem \in {"idle", "sending", "sent"}

LEMMA TypeParts ==
    TypeOK <=> /\ PlaceTypes /\ FlagTypes /\ RestTypes /\ NumberTypes /\ CountTypes /\ AirTypes
               /\ CellTypes
  BY DEF TypeOK, PlaceTypes, FlagTypes, RestTypes, NumberTypes, CountTypes, AirTypes, CellTypes

LEMMA Bounds ==
    /\ MaxSeq \in Nat /\ MaxCommands \in Nat /\ MaxReboots \in Nat /\ MaxFailures \in Nat
    /\ \A p \in Profiles : Threshold[p] \in Nat
  BY CollarReportsAssumption

\* What is not a step of cycleTask's own.
Outside == Hub \/ ModemStep \/ \E p \in Profiles : UserChanges(p)

LEMMA Steps ==
    [Next]_vars => \/ CycleStep \/ Refreshes \/ Outside \/ Reboot \/ UNCHANGED vars
                   \/ \E n \in receipts : Receipt(n)
                   \/ \E c \in commands, p \in Profiles, b \in BOOLEAN : Command(c, p, b)
  BY DEF Next, Outside

LEMMA PlaceStep == PlaceTypes /\ Going /\ [Next]_vars => PlaceTypes' /\ Going'
  <1> SUFFICES ASSUME PlaceTypes, Going, [Next]_vars PROVE PlaceTypes' /\ Going'
    OBVIOUS
  <1> USE DEF PlaceTypes, Going, Phases, Kinds, window, Saves, GoesOn
  <1>1. CASE CycleStep \/ Refreshes
    BY <1>1 DEF CycleStep, Wakes, Scans, Fixes, Reports, Retries, Missed, Removes, Writes, Answers,
                WindowEnds,
                Sleeps, Refreshes
  <1>2. CASE Outside
    BY <1>2 DEF Outside, Hub, Loses, HubSends, ModemStep, ModemWakes, ModemSends, ModemDone, UserChanges
  <1>3. CASE \E n \in receipts : Receipt(n)
    BY <1>3 DEF Receipt
  <1>4. CASE \E c \in commands, p \in Profiles, b \in BOOLEAN : Command(c, p, b)
    BY <1>4 DEF Command
  <1>5. CASE Reboot
    BY <1>5 DEF Reboot
  <1>6. CASE UNCHANGED vars
    BY <1>6 DEF vars
  <1> QED BY <1>1, <1>2, <1>3, <1>4, <1>5, <1>6, Steps

LEMMA FlagStep == FlagTypes /\ [Next]_vars => FlagTypes'
  <1> SUFFICES ASSUME FlagTypes, [Next]_vars PROVE FlagTypes'
    OBVIOUS
  <1> USE DEF FlagTypes, window
  <1>1. CASE CycleStep \/ Refreshes
    BY <1>1 DEF CycleStep, Wakes, Scans, Fixes, Reports, Retries, Missed, Removes, Writes, Answers,
                WindowEnds,
                Sleeps, Refreshes
  <1>2. CASE Outside
    BY <1>2 DEF Outside, Hub, Loses, HubSends, ModemStep, ModemWakes, ModemSends, ModemDone, UserChanges
  <1>3. CASE \E n \in receipts : Receipt(n)
    BY <1>3 DEF Receipt
  <1>4. CASE \E c \in commands, p \in Profiles, b \in BOOLEAN : Command(c, p, b)
    BY <1>4 DEF Command
  <1>5. CASE Reboot
    BY <1>5 DEF Reboot
  <1>6. CASE UNCHANGED vars
    BY <1>6 DEF vars
  <1> QED BY <1>1, <1>2, <1>3, <1>4, <1>5, <1>6, Steps

LEMMA RestStep == RestTypes /\ [Next]_vars => RestTypes'
  <1> SUFFICES ASSUME RestTypes, [Next]_vars PROVE RestTypes'
    OBVIOUS
  <1> USE Bounds DEF RestTypes, window, kept, file, Fails
  <1>1. CASE CycleStep \/ Refreshes
    BY <1>1 DEF CycleStep, Wakes, Scans, Fixes, Reports, Retries, Missed, Removes, Writes, Answers,
                WindowEnds,
                Sleeps, Refreshes
  <1>2. CASE Outside
    BY <1>2 DEF Outside, Hub, Loses, HubSends, ModemStep, ModemWakes, ModemSends, ModemDone, UserChanges
  <1>3. CASE \E n \in receipts : Receipt(n)
    BY <1>3 DEF Receipt
  <1>4. CASE \E c \in commands, p \in Profiles, b \in BOOLEAN : Command(c, p, b)
    BY <1>4 DEF Command
  <1>5. CASE Reboot
    BY <1>5 DEF Reboot
  <1>6. CASE UNCHANGED vars
    BY <1>6 DEF vars
  <1> QED BY <1>1, <1>2, <1>3, <1>4, <1>5, <1>6, Steps

LEMMA CountStep == CountTypes /\ NumberTypes /\ [Next]_vars => CountTypes' /\ NumberTypes'
  <1> SUFFICES ASSUME CountTypes, NumberTypes, [Next]_vars PROVE CountTypes' /\ NumberTypes'
    OBVIOUS
  <1>1. CASE UNCHANGED <<kept, packet, expected>>
    BY <1>1 DEF CountTypes, NumberTypes, kept, file, packet
  <1>2. CASE \E b \in BOOLEAN : Reports(b)
    BY <1>2, Bounds DEF Reports, CountTypes, NumberTypes, kept, file
  <1>3. CASE Missed
    BY <1>3 DEF Missed, CountTypes, NumberTypes, packet, file
  <1>4. CASE \E n \in receipts : Receipt(n)
    BY <1>4 DEF Receipt, CountTypes, NumberTypes, packet, file
  <1>5. CASE Removes \/ Writes
    <2>1. Missing \in [failed : Nat, seq : 0 .. MaxSeq] /\ Kept \in [failed : Nat, seq : 0 .. MaxSeq]
      BY Bounds DEF Missing, Kept, CountTypes, NumberTypes
    <2> QED BY <1>5, <2>1 DEF Removes, Writes, CountTypes, NumberTypes, packet, window, file
  <1>6. CASE \E c \in commands, p \in Profiles, b \in BOOLEAN : Command(c, p, b)
    BY <1>6, <1>1 DEF Command
  <1>7. CASE Reboot
    BY <1>7, Bounds DEF Reboot, CountTypes, NumberTypes, file
  <1>10. CASE Answers
    BY <1>10, Bounds DEF Answers, AfterAnswer, CountTypes, NumberTypes, kept, file, window
  <1>8. CASE CycleStep
    BY <1>1, <1>2, <1>3, <1>5, <1>8, <1>10
    DEF CycleStep, Wakes, Scans, Fixes, Retries, WindowEnds, Sleeps, window
  <1>9. CASE Refreshes \/ Outside \/ UNCHANGED vars
    BY <1>1, <1>9 DEF Refreshes, Outside, Hub, Loses, HubSends, ModemStep, ModemWakes, ModemSends,
                      ModemDone, UserChanges, vars, window
  <1> QED BY <1>4, <1>6, <1>7, <1>8, <1>9, Steps

\* A transmission that has a number leaves receipts that have one.
LEMMA Transmitted ==
    ASSUME receipts \subseteq 1 .. MaxSeq, NEW n \in 1 .. MaxSeq, NEW b \in BOOLEAN, Transmits(n, b)
    PROVE  receipts' \subseteq 1 .. MaxSeq
  BY DEF Transmits

LEMMA AirStep == AirTypes /\ NumberTypes /\ Awaited /\ [Next]_vars => AirTypes'
  <1> SUFFICES ASSUME AirTypes, NumberTypes, Awaited, [Next]_vars PROVE AirTypes'
    OBVIOUS
  <1>1. CASE UNCHANGED air
    BY <1>1 DEF AirTypes, air
  <1>2. ASSUME NEW b \in BOOLEAN, Reports(b) \/ Retries(b) PROVE AirTypes'
    <2>1. PICK n \in 1 .. MaxSeq : Transmits(n, b)
      <3>1. CASE Reports(b)
        BY <3>1, Bounds DEF Reports, NumberTypes
      <3>2. CASE Retries(b)
        BY <3>2, Bounds DEF Retries, Listening, Awaited, Open, NumberTypes
      <3> QED BY <1>2, <3>1, <3>2
    <2>2. UNCHANGED <<commands, lastCmd, issued>>
      BY <1>2 DEF Reports, Retries
    <2> QED BY <2>1, <2>2, Transmitted DEF AirTypes
  <1>3. ASSUME NEW n \in receipts, Receipt(n) PROVE AirTypes'
    BY <1>3 DEF Receipt, AirTypes
  <1>4. ASSUME NEW c \in commands, NEW p \in Profiles, NEW b \in BOOLEAN,
               Command(c, p, b)
        PROVE  AirTypes'
    BY <1>4, Bounds DEF Command, AirTypes
  <1>5. ASSUME NEW c \in 1 .. MaxCommands, HubSends(c) PROVE AirTypes'
    BY <1>5, Bounds DEF HubSends, AirTypes
  <1>6. CASE Loses
    BY <1>6 DEF Loses, AirTypes
  <1>7. CASE Reboot
    BY <1>7, Bounds DEF Reboot, AirTypes
  <1>8. CASE CycleStep
    BY <1>1, <1>2, <1>8
    DEF CycleStep, Wakes, Scans, Fixes, Missed, Removes, Writes, Answers, WindowEnds, Sleeps
  <1>9. CASE Refreshes \/ Outside \/ UNCHANGED vars
    BY <1>1, <1>5, <1>6, <1>9
    DEF Refreshes, Outside, Hub, ModemStep, ModemWakes, ModemSends, ModemDone, UserChanges, vars
  <1> QED BY <1>3, <1>4, <1>7, <1>8, <1>9, Steps

LEMMA CellStep == CellTypes /\ [Next]_vars => CellTypes'
  <1> SUFFICES ASSUME CellTypes, [Next]_vars PROVE CellTypes'
    OBVIOUS
  <1>1. CASE UNCHANGED lte
    BY <1>1 DEF CellTypes, lte, cell
  <1>2. CASE (Requests \/ NoRequest) /\ UNCHANGED modem
    BY <1>2 DEF CellTypes, Requests, NoRequest, Idle, cell
  <1>3. CASE ModemStep
    BY <1>3 DEF CellTypes, ModemStep, ModemWakes, ModemSends, ModemDone
  <1>4. CASE Reboot
    BY <1>4 DEF CellTypes, Reboot
  <1>5. CASE CycleStep
    BY <1>1, <1>2, <1>5 DEF CycleStep, Wakes, Scans, Fixes, Reports, Retries, Missed, Removes, Writes,
                            Answers, WindowEnds, Sleeps
  <1>6. CASE ~CycleStep /\ ~ModemStep /\ ~Reboot
    BY <1>1, <1>6 DEF Next, Refreshes, Hub, Loses, HubSends, Receipt, Command, UserChanges, vars
  <1> QED BY <1>3, <1>4, <1>5, <1>6
-----------------------------------------------------------------------------
(* The report the window waits for, and the count of windows.              *)

LEMMA AwaitedStep == Awaited /\ NumberTypes /\ [Next]_vars => Awaited'
  <1> SUFFICES ASSUME Awaited, NumberTypes, [Next]_vars PROVE Awaited'
    OBVIOUS
  <1> USE DEF Awaited, Open
  <1>1. CASE \E b \in BOOLEAN : Reports(b)
    BY <1>1, Bounds DEF Reports, NumberTypes
  <1>2. CASE UNCHANGED <<buffer, expected>> /\ (Open' => Open)
    BY <1>2
  <1>8. CASE Missed \/ Removes \/ Writes \/ Answers
    BY <1>2, <1>8 DEF Missed, Removes, Writes, Answers, AfterAnswer, Listening, packet, window
  <1>3. CASE CycleStep \/ Refreshes
    BY <1>1, <1>2, <1>3, <1>8
    DEF CycleStep, Wakes, Scans, Fixes, Retries, WindowEnds, Sleeps, Refreshes, Listening, packet, window
  <1>4. CASE Outside \/ UNCHANGED vars
    BY <1>2, <1>4 DEF Outside, Hub, Loses, HubSends, ModemStep, ModemWakes, ModemSends, ModemDone, UserChanges,
                      vars, packet, window
  <1>5. CASE \E n \in receipts : Receipt(n)
    BY <1>5 DEF Receipt, Listening, packet
  <1>6. CASE \E c \in commands, p \in Profiles, b \in BOOLEAN : Command(c, p, b)
    BY <1>6 DEF Command, Listening, packet
  <1>7. CASE Reboot
    BY <1>7 DEF Reboot
  <1> QED BY <1>3, <1>4, <1>5, <1>6, <1>7, Steps

LEMMA CountedStep == Counted /\ PlaceTypes /\ CountTypes /\ NumberTypes /\ [Next]_vars => Counted'
  <1> SUFFICES ASSUME Counted, PlaceTypes, CountTypes, NumberTypes, [Next]_vars PROVE Counted'
    OBVIOUS
  <1>0. /\ failed \in Nat /\ misses \in Nat /\ flash.failed \in Nat /\ CountTypes'
        /\ Missing.failed = 0 /\ Kept.failed = failed
    BY CountStep DEF CountTypes, Missing, Kept
  <1> USE DEF Counted
  <1>1. CASE UNCHANGED kept /\ (phase' \in {"remove", "write"} => resume' # "acked")
    BY <1>0, <1>1 DEF kept, file
  <1>2. CASE UNCHANGED <<kept, resume, phase>>
    BY <1>0, <1>2 DEF kept, file
  <1>3. CASE \E b \in BOOLEAN : Reports(b)
    BY <1>1, <1>3 DEF Reports, Saves, GoesOn
  <1>4. CASE Missed
    BY <1>0, <1>4 DEF Missed, Saves, file
  <1>5. CASE \E n \in receipts : Receipt(n)
    <2>1. PICK n \in receipts : Receipt(n)
      BY <1>5
    <2>2. CASE n = expected /\ ~acked
      BY <1>0, <2>1, <2>2 DEF Receipt, file
    <2>3. CASE ~(n = expected /\ ~acked)
      BY <1>2, <2>1, <2>3 DEF Receipt, kept
    <2> QED BY <2>2, <2>3
  <1>6. CASE Removes
    BY <1>0, <1>6 DEF Removes, window
  <1>7. CASE Writes
    <2>1. flash'.failed \in {failed, flash.failed} /\ UNCHANGED failed
      BY <1>0, <1>7 DEF Writes, file
    <2>2. phase' \notin {"remove", "write"}
      BY <1>7 DEF Writes, GoesOn, PlaceTypes
    <2>3. misses' = misses \/ (misses' = 0 /\ failed = 0 /\ flash' = Kept)
      BY <1>7 DEF Writes
    <2> QED BY <1>0, <2>1, <2>2, <2>3
  <1>8. CASE Reboot
    BY <1>0, <1>8 DEF Reboot, file
  <1>12. CASE Answers
    BY <1>1, <1>12 DEF Answers
  <1>9. CASE CycleStep
    BY <1>1, <1>2, <1>3, <1>4, <1>6, <1>7, <1>9, <1>12
    DEF CycleStep, Wakes, Scans, Fixes, Retries, WindowEnds, Sleeps, Listening, window
  <1>10. CASE Refreshes \/ Outside \/ UNCHANGED vars
    BY <1>1, <1>2, <1>10
    DEF Refreshes, Outside, Hub, Loses, HubSends, ModemStep, ModemWakes, ModemSends, ModemDone, UserChanges,
        vars, window
  <1>11. CASE \E c \in commands, p \in Profiles, b \in BOOLEAN : Command(c, p, b)
    BY <1>1, <1>11 DEF Command, Saves, GoesOn
  <1> QED BY <1>5, <1>8, <1>9, <1>10, <1>11, Steps

LEMMA InitReports == Init => ReportsInv
  <1> SUFFICES ASSUME Init PROVE ReportsInv
    OBVIOUS
  <1>1. PlaceTypes /\ FlagTypes /\ CellTypes
    BY DEF Init, PlaceTypes, FlagTypes, CellTypes, Phases, Kinds
  <1>2. RestTypes /\ NumberTypes /\ AirTypes
    BY Bounds DEF Init, RestTypes, NumberTypes, AirTypes
  <1>3. CountTypes
    BY Bounds DEF Init, CountTypes, Missing
  <1>4. Going /\ Awaited /\ Counted
    BY DEF Init, Going, Awaited, Open, Counted, Missing
  <1> QED BY <1>1, <1>2, <1>3, <1>4, TypeParts DEF ReportsInv

LEMMA ReportsStep == ReportsInv /\ [Next]_vars => ReportsInv'
  <1> SUFFICES ASSUME ReportsInv, [Next]_vars PROVE ReportsInv'
    OBVIOUS
  <1>1. PlaceTypes /\ FlagTypes /\ RestTypes /\ NumberTypes /\ CountTypes /\ AirTypes /\ CellTypes
    BY TypeParts DEF ReportsInv
  <1>2. /\ PlaceTypes' /\ FlagTypes' /\ RestTypes' /\ NumberTypes' /\ CountTypes' /\ AirTypes'
        /\ CellTypes' /\ Going' /\ Awaited' /\ Counted'
    BY <1>1, PlaceStep, FlagStep, RestStep, CountStep, AirStep, CellStep, AwaitedStep, CountedStep
    DEF ReportsInv
  <1>3. TypeOK'
    BY <1>2, TypeParts, PTL
  <1> QED BY <1>2, <1>3 DEF ReportsInv

\* Every variable keeps its type, for any thresholds and any number of packets, commands
\* and resets.
THEOREM TypeCorrect == Spec => []TypeOK
  <1> QED BY InitReports, ReportsStep, PTL DEF Spec, ReportsInv

\* While a window is open and its result is saved, the buffer holds the report that a
\* retry would repeat and LTE would carry (listenForCommands, transmitPacket).
THEOREM ReportsKept == Spec => []WindowKeepsReport
  <1>1. ReportsInv => WindowKeepsReport
    BY DEF ReportsInv, Awaited, Open, WindowKeepsReport
  <1> QED BY <1>1, InitReports, ReportsStep, PTL DEF Spec

\* A window asks for LTE only when as many have gone unanswered as the profile in force
\* allows, since the last receipt or request that flash knows of, through every reset
\* (noteUplinkAckResult).
THEOREM EscalationPaced == Spec => FallbackPaced
  <1>1. ReportsInv /\ [Next]_vars => [Missed /\ cell' # cell => misses' >= Threshold[profile]]_vars
    <2> SUFFICES ASSUME ReportsInv, Missed, cell' # cell PROVE misses' >= Threshold[profile]
      OBVIOUS
    <2>1. Escalates(failed + 1) /\ misses' = misses + 1
      BY DEF Missed, NoRequest
    <2>2. failed \in Nat /\ misses \in Nat /\ Threshold[profile] \in Nat /\ failed <= misses
      BY Bounds, TypeParts DEF ReportsInv, CountTypes, RestTypes, Counted
    <2> QED BY <2>1, <2>2 DEF Escalates
  <1> QED BY <1>1, InitReports, ReportsStep, PTL DEF Spec, FallbackPaced
=============================================================================
