--------------------------- MODULE CollarReports ---------------------------
(***************************************************************************)
(* The reports of the nRF52840 collar (collar/src/main.cpp): the phases of *)
(* a cycle, the receive window with its receipt and one retry, commands    *)
(* and their answers, the count of unacknowledged windows that escalates   *)
(* to LTE, what of it is kept in flash, and the modem's task.              *)
(*                                                                         *)
(* cycleTask is preempted by the modem's task only where it blocks.  The   *)
(* hub is external: it receives a packet or does not, its receipts and     *)
(* commands arrive in any order, late or never.  Which profile is in force *)
(* is CollarModes' subject; here a command or the user may change it at    *)
(* any time, and with it the number of windows before LTE.                 *)
(***************************************************************************)
EXTENDS Naturals

CONSTANTS
    Profiles,          \* operating profiles
    Threshold,         \* lora_failed_cycles_before_cellular of each
    CheckpointEvery,   \* BLUEPAWS_STATE_SEQ_CHECKPOINT_EVERY
    MaxSeq,            \* bound: packets sent
    MaxCommands,       \* bound: commands of the hub
    MaxReboots,        \* bound: resets
    MaxFailures        \* bound: failures of the file system

ASSUME CollarReportsAssumption ==
    /\ Threshold \in [Profiles -> Nat] /\ "lost" \in Profiles
    /\ {MaxSeq, MaxCommands, MaxReboots, MaxFailures} \subseteq Nat
    /\ CheckpointEvery \in Nat \ {0}

VARIABLES
    phase,       \* where cycleTask is
    kind,        \* the branch of the cycle
    boot,        \* bootReportPending
    profile,     \* currentProfile, currentConfig, inLostMode
    home,        \* bleHomeFound
    seq,         \* messageSeq
    buffer,      \* lastTxPacket: the number of the packet it holds, 0 for none
    expected, attempts, acked,    \* locals of listenForCommands
    resume,      \* where cycleTask goes on after collarStateSave
    failed,      \* consecutiveLoRaFailedCycles
    misses,      \* history: windows without receipt since one, or an LTE request, that
                 \* flash knows of
    flash,       \* state file: failed count and message number
    failures,    \* of the file system so far
    receipts,    \* receipts and
    commands,    \* commands under way to the collar
    lastCmd, issued,              \* lastProcessedCmdSeq; commands the hub has issued
    cellPending, notified,        \* cellularPending; the modem task's notification
    modem,       \* where cellularTask is
    owed,        \* history: LTE was asked for while its task was idle, and not attempted
    reboots      \* resets so far

window == <<expected, attempts, acked, resume>>
air == <<receipts, commands, lastCmd, issued>>
cell == <<cellPending, notified, owed>>
lte == <<cell, modem>>
file == <<flash, failures>>
kept == <<failed, misses, file>>
packet == <<seq, buffer>>
vars == <<phase, kind, boot, profile, home, packet, window, kept, air, lte, reboots>>

Kinds == {"boot", "user", "home", "away", "lost"}
Phases == {"asleep", "scan", "fix", "report", "listen", "answer", "remove", "write", "after"}
Missing == [failed |-> 0, seq |-> 0]
Idle == modem = "idle"
IsLost == profile = "lost"

Init ==
    /\ phase = "asleep" /\ kind = "boot" /\ boot = TRUE
    /\ profile \in Profiles
    /\ home = FALSE
    /\ seq = 0 /\ buffer = 0
    /\ expected = 0 /\ attempts = 0 /\ acked = FALSE /\ resume = "none"
    /\ failed = 0 /\ misses = 0 /\ flash = Missing /\ failures = 0
    /\ receipts = {} /\ commands = {} /\ lastCmd = 0 /\ issued = 0
    /\ cellPending = FALSE /\ notified = FALSE
    /\ modem = "idle" /\ owed = FALSE
    /\ reboots = 0
-----------------------------------------------------------------------------
(* A cycle: scan, fix, report                                               *)

\* The branches of cycleTask.  Lost mode does not scan; it has its own loop.
Wakes(k) ==
    /\ phase = "asleep" /\ seq < MaxSeq
    /\ (k = "boot") = boot
    /\ k = "lost" => IsLost
    /\ k \in {"home", "away"} => ~IsLost
    /\ kind' = k /\ boot' = FALSE
    /\ phase' = IF k = "lost" THEN "report" ELSE "scan"
    /\ UNCHANGED <<profile, home, packet, window, kept, air, lte, reboots>>

\* bleScanForHome; a scheduled cycle goes the way of what it finds.
Scans(found) ==
    /\ phase = "scan"
    /\ home' = found
    /\ kind' = IF kind \notin {"home", "away"} THEN kind ELSE IF found THEN "home" ELSE "away"
    /\ phase' = IF kind' = "home" THEN "report" ELSE "fix"
    /\ UNCHANGED <<boot, profile, packet, window, kept, air, lte, reboots>>

\* gnssAcquireFixWithTimeout: with a fix or without one the report is sent.
Fixes ==
    /\ phase = "fix"
    /\ phase' = "report"
    /\ UNCHANGED <<kind, boot, profile, home, packet, window, kept, air, lte, reboots>>

\* transmitPacket: the hub may receive the packet, and its receipt comes later.
Transmits(n, received) == receipts' = IF received THEN receipts \cup {n} ELSE receipts

\* The task blocks in collarStateSave and goes on from there.
GoesOn(there) ==
    /\ phase' = IF there \in {"open", "acked"} THEN "listen" ELSE there
    /\ resume' = "none"
Saves(then) == phase' = "remove" /\ resume' = then

\* sendBootReport, sendWakeCheckin, sendTelemetry, sendLostModeAlert with the
\* checkpoint some numbers bring, and the opening of the window.
Reports(received) ==
    /\ phase = "report" /\ seq < MaxSeq
    /\ seq' = seq + 1 /\ buffer' = seq + 1
    /\ Transmits(seq + 1, received)
    /\ expected' = seq + 1 /\ attempts' = 1 /\ acked' = FALSE
    /\ IF (seq + 1) % CheckpointEvery = 0 THEN Saves("open") ELSE GoesOn("listen")
    /\ UNCHANGED <<kind, boot, profile, home, kept, commands, lastCmd, issued, lte, reboots>>
-----------------------------------------------------------------------------
(* listenForCommands                                                        *)

Listening == phase = "listen"

\* No receipt in two seconds: the same bytes once more.
Retries(received) ==
    /\ Listening /\ ~acked /\ attempts = 1
    /\ Transmits(buffer, received)
    /\ attempts' = 2
    /\ UNCHANGED <<phase, kind, boot, profile, home, packet, expected, acked, resume, kept,
                   commands, lastCmd, issued, lte, reboots>>

\* requesting LTE: the flag, and the notification of the modem's task.  Two
\* requests before the task runs are one.
\* (_OnlyFlag: the task is not notified.)
Requests_OnlyFlag ==
    /\ cellPending' = TRUE /\ notified' = notified
    /\ owed' = (owed \/ Idle)
Requests ==
    /\ cellPending' = TRUE /\ notified' = TRUE
    /\ owed' = (owed \/ Idle)
NoRequest == UNCHANGED cell

\* noteUplinkAckResult.  The count is kept by collarStateSave, where the task
\* blocks.
Receipt(n) ==
    /\ Listening /\ n \in receipts
    /\ receipts' = receipts \ {n}
    /\ IF n = expected /\ ~acked
         THEN /\ acked' = TRUE
              /\ failed' = 0
              /\ IF failed > 0 THEN Saves("acked") ELSE GoesOn("listen")
              /\ misses' = IF failed > 0 \/ flash.failed > 0 THEN misses ELSE 0
         ELSE UNCHANGED <<acked, failed, phase, misses, resume>>
    /\ UNCHANGED <<kind, boot, profile, home, packet, expected, attempts, file,
                   commands, lastCmd, issued, lte, reboots>>

\* (_EveryMiss: LTE is asked for after every window without a receipt.)
Escalates_EveryMiss(count) == TRUE
Escalates(count) == Threshold[profile] > 0 /\ count >= Threshold[profile]

\* The window ends without a receipt, after the retry or at its deadline.
Missed ==
    /\ Listening /\ ~acked
    /\ misses' = misses + 1
    /\ IF Escalates(failed + 1)
         THEN failed' = 0 /\ Requests
         ELSE failed' = failed + 1 /\ NoRequest
    /\ Saves("after")
    /\ UNCHANGED <<kind, boot, profile, home, packet, expected, attempts, acked, file,
                   air, modem, reboots>>

\* collarStateSave: the file is removed, then written, and cycleTask goes on
\* whether or not that works.
Kept == [failed |-> failed, seq |-> seq]

\* (Bound: a failure is looked at while a reset, which reads the file, is to come.)
Fails ==
    /\ failures < MaxFailures /\ reboots < MaxReboots
    /\ failures' = failures + 1

Removes ==
    /\ phase = "remove"
    /\ \/ flash' = Missing /\ UNCHANGED failures
       \/ UNCHANGED flash /\ Fails
    /\ phase' = "write"
    /\ UNCHANGED <<kind, boot, profile, home, packet, window, failed, misses, air, lte,
                   reboots>>

\* (A record that could not be removed may be what loads after the write, too.)
Writes ==
    /\ phase = "write"
    /\ \/ flash' = Kept /\ UNCHANGED failures
       \/ flash # Missing /\ UNCHANGED file
       \/ UNCHANGED flash /\ Fails
    /\ misses' = IF /\ flash' = Kept
                    /\ resume = "acked" \/ (resume = "after" /\ failed = 0)
                   THEN 0 ELSE misses
    /\ GoesOn(resume)
    /\ UNCHANGED <<kind, boot, profile, home, packet, expected, attempts, acked, failed,
                   air, lte, reboots>>

WindowEnds ==
    /\ Listening /\ acked
    /\ phase' = "after"
    /\ UNCHANGED <<kind, boot, profile, home, packet, window, kept, air, lte, reboots>>
-----------------------------------------------------------------------------
(* handleReceivedCommand                                                    *)

\* A mode command is applied, and with it the state saved, before it is
\* answered; a number that was just processed is answered again only.
Command(c, p, isMode) ==
    /\ Listening /\ c \in commands /\ seq < MaxSeq
    /\ commands' = commands \ {c}
    /\ ~isMode \/ c = lastCmd => p = profile
    /\ profile' = p
    /\ lastCmd' = c
    /\ IF isMode /\ c # lastCmd THEN Saves("answer") ELSE GoesOn("answer")
    /\ UNCHANGED <<kind, boot, home, packet, expected, attempts, acked, kept, receipts,
                   issued, lte, reboots>>

\* sendModeAck, sendStatusResponse, sendFindAck: the answer takes a message
\* number and is not kept for a retry.
\* (_Kept: it is kept like a report.)
AfterAnswer_Kept(n) == n
AfterAnswer(n) == buffer

Answers ==
    /\ phase = "answer" /\ seq < MaxSeq
    /\ seq' = seq + 1 /\ buffer' = AfterAnswer(seq + 1)
    /\ phase' = "listen"
    /\ UNCHANGED <<kind, boot, profile, home, window, kept, air, lte, reboots>>

\* A new command, or one that was sent before.
HubSends(c) ==
    /\ c \in 1 .. issued + 1 /\ c <= MaxCommands
    /\ issued' = IF c > issued THEN c ELSE issued
    /\ commands' = commands \cup {c}
    /\ UNCHANGED <<phase, kind, boot, profile, home, packet, window, kept, receipts,
                   lastCmd, lte, reboots>>

\* A command or a receipt is lost.
Loses ==
    /\ \/ \E n \in receipts : receipts' = receipts \ {n} /\ UNCHANGED commands
       \/ \E c \in commands : commands' = commands \ {c} /\ UNCHANGED receipts
    /\ UNCHANGED <<phase, kind, boot, profile, home, packet, window, kept, lastCmd,
                   issued, lte, reboots>>
-----------------------------------------------------------------------------
(* The rest of the cycle                                                    *)

\* After the window: the GNSS sanity refresh at home sends a report of its own;
\* LTE is due after a boot report, by the ratio of cycles or by the heartbeat.
Refreshes ==
    /\ phase = "after" /\ kind = "home"
    /\ phase' = "fix"
    /\ kind' = "user"
    /\ UNCHANGED <<boot, profile, home, packet, window, kept, air, lte, reboots>>

Sleeps(due) ==
    /\ phase = "after"
    /\ kind = "boot" => due
    /\ IF due THEN Requests ELSE NoRequest
    /\ phase' = "asleep"
    /\ UNCHANGED <<kind, boot, profile, home, packet, window, kept, air, modem,
                   reboots>>

\* The button or the console changes the profile while cycleTask blocks.
UserChanges(p) ==
    /\ phase = "asleep" /\ p # profile
    /\ profile' = p
    /\ UNCHANGED <<phase, kind, boot, home, packet, window, kept, air, lte, reboots>>
-----------------------------------------------------------------------------
(* cellularTask                                                             *)

ModemWakes ==
    /\ Idle /\ notified
    /\ notified' = FALSE
    /\ modem' = IF cellPending /\ buffer # 0 THEN "sending" ELSE "idle"
    /\ UNCHANGED <<phase, kind, boot, profile, home, packet, window, kept, air,
                   cellPending, owed, reboots>>

\* cellularSendTlv posts what the buffer holds by then, or gives up on a modem
\* that is mute.
ModemSends ==
    /\ modem = "sending"
    /\ modem' = "sent"
    /\ owed' = FALSE
    /\ UNCHANGED <<phase, kind, boot, profile, home, packet, window, kept, air,
                   cellPending, notified, reboots>>

ModemDone ==
    /\ modem = "sent"
    /\ cellPending' = FALSE
    /\ modem' = "idle"
    /\ UNCHANGED <<phase, kind, boot, profile, home, packet, window, kept, air,
                   notified, owed, reboots>>
-----------------------------------------------------------------------------
Reboot ==
    /\ reboots < MaxReboots
    /\ reboots' = reboots + 1
    /\ phase' = "asleep" /\ kind' = "boot" /\ boot' = TRUE
    /\ home' = FALSE
    /\ seq' = flash.seq /\ buffer' = 0
    /\ failed' = flash.failed
    /\ expected' = 0 /\ attempts' = 0 /\ acked' = FALSE /\ resume' = "none"
    /\ lastCmd' = 0
    /\ cellPending' = FALSE /\ notified' = FALSE /\ modem' = "idle" /\ owed' = FALSE
    /\ UNCHANGED <<profile, misses, file, receipts, commands, issued>>

CycleStep ==
    \/ \E k \in Kinds : Wakes(k)
    \/ \E b \in BOOLEAN : Scans(b) \/ Reports(b) \/ Retries(b) \/ Sleeps(b)
    \/ Fixes \/ Missed \/ Removes \/ Writes \/ Answers \/ WindowEnds

Hub == Loses \/ \E c \in 1 .. MaxCommands : HubSends(c)
ModemStep == ModemWakes \/ ModemSends \/ ModemDone

Next ==
    \/ CycleStep \/ Refreshes
    \/ \E n \in receipts : Receipt(n)
    \/ \E c \in commands, p \in Profiles, b \in BOOLEAN : Command(c, p, b)
    \/ \E p \in Profiles : UserChanges(p)
    \/ Hub \/ ModemStep \/ Reboot

Spec == Init /\ [][Next]_vars
FairSpec == Spec /\ WF_vars(CycleStep) /\ WF_vars(ModemStep)
-----------------------------------------------------------------------------
\* Every variable has its type.
TypeOK ==
    /\ phase \in Phases /\ resume \in {"none", "open", "acked", "answer", "after"} /\ kind \in Kinds
    /\ profile \in Profiles
    /\ {boot, home, acked, cellPending, notified, owed} \subseteq BOOLEAN
    /\ failures \in 0 .. MaxFailures
    /\ {seq, buffer, expected} \subseteq 0 .. MaxSeq
    /\ attempts \in 0 .. 2
    /\ failed \in Nat /\ misses \in Nat
    /\ flash \in [failed : Nat, seq : 0 .. MaxSeq]
    /\ receipts \subseteq 1 .. MaxSeq
    /\ {lastCmd, issued} \subseteq 0 .. MaxCommands /\ commands \subseteq 1 .. MaxCommands
    /\ modem \in {"idle", "sending", "sent"}
    /\ reboots \in 0 .. MaxReboots

\* As long as a report may be retried, and until LTE is asked to carry it, the
\* buffer holds that report, whatever is answered and saved meanwhile
\* (listenForCommands: "retries the exact same uplink bytes once").
WindowKeepsReport == phase \in {"listen", "answer", "remove", "write"} => buffer = expected

\* LTE is asked for only after as many windows without a receipt as the profile in
\* force allows, counted since the last receipt or request that flash knows of and
\* across resets and saves that fail (noteUplinkAckResult: failures are counted "in
\* bounded groups").
FallbackPaced ==
    [][Missed /\ cell' # cell => misses' >= Threshold[profile]]_vars

\* What is asked of LTE while the modem's task is idle is attempted
\* (cellularTask; a request made while it sends is cleared with the one it serves).
RequestServed == owed ~> ~owed
============================================================================
