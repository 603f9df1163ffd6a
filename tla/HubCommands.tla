----------------------------- MODULE HubCommands -----------------------------
(***************************************************************************)
(* Delivery of commands from the Home Hub to collars                       *)
(* (hub/platformio/src/main.cpp: sendCommandFind, queueCloudCommandResponse,*)
(* loraTask, handleAck, noteCommandSent, commandStillPending,              *)
(* queuePendingCommandForDevice, checkPendingAcks).                        *)
(*                                                                         *)
(* Web server, console and cloud task register a command in a small table  *)
(* (pendingCmds, under pendingMutex) and then put a copy of it in a queue. *)
(* The LoRa task takes copies from the queue, transmits those whose table  *)
(* entry is still pending, matches the acknowledgements, and re-queues     *)
(* what was not acknowledged: blindly a few times, then whenever the       *)
(* collar is heard.  A command that nobody acknowledges expires.           *)
(*                                                                         *)
(* A step is a stretch of one task between two points where another task   *)
(* can act: it holds the mutex once, uses the queue once, or transmits.    *)
(***************************************************************************)
EXTENDS Integers, Sequences

CONSTANTS
    Collars,      \* target devices
    Locals,       \* tasks that send local commands (web server, console)
    Cloud,        \* the cloud task
    CloudSeqs,    \* sequence numbers the cloud gives to its commands
    Kinds,        \* the kinds of command that are sent
    MaxLocal,     \* bound: local commands in a run (the program's counter is 32 bits wide)
    NumSlots,     \* MAX_PENDING_CMDS
    QueueLen,     \* length of cmdQueue
    MaxRetries,   \* CMD_MAX_RETRIES
    Interval,     \* CMD_QUEUE_INTERVAL_MS, like all times in ticks
    AckTimeout,   \* CMD_ACK_TIMEOUT_MS
    Window,       \* CMD_LISTEN_WINDOW_MS - 500
    CommandTTL,   \* LOCAL_COMMAND_TTL_MS
    FeedbackTTL,  \* COMMAND_FEEDBACK_TTL_MS
    Faults        \* what may fail: "radio", "loraMutex", "pendingMutex"

ASSUME CommandsAssumption ==
    /\ Cloud \notin Locals
    /\ CloudSeqs \subseteq Nat \ {0}
    /\ Kinds \subseteq {"profile", "led", "find"}
    /\ {MaxLocal, MaxRetries, Interval, AckTimeout, Window} \subseteq Nat
    /\ {NumSlots, QueueLen, CommandTTL, FeedbackTTL} \subseteq Nat \ {0}
    /\ FeedbackTTL > CommandTTL
    /\ Faults \subseteq {"radio", "loraMutex", "pendingMutex"}

VARIABLES
    pendingCmds,   \* the table of commands
    cmdQueue,      \* copies waiting for the LoRa task
    localSeq,      \* cmdSeqCounter
    sending,       \* each caller: the registered command it is still queueing
    cloud,         \* the commands of the cloud: what they are, how old they are
    lora,          \* loraTask's program counter
    held,          \* the copy loraTask has taken
    heardFrom,     \* the collar whose packet loraTask is handling
    checking,      \* the slot checkPendingAcks looks at, holding pendingMutex; or 0
    sinceTx,       \* ticks since lastCmdTx
    opportunity,   \* ticks until commandRxOpportunityUntil
    sentIds,       \* what has been on the air: collars may acknowledge it
    profileOrder   \* history: PKT_CMD_MODE commands in the order of registration

vars == <<pendingCmds, cmdQueue, localSeq, sending, cloud, lora, held, heardFrom,
          checking, sinceTx, opportunity, sentIds, profileOrder>>
loraVars == <<lora, held, heardFrom, checking, sinceTx, opportunity>>

Slots == 1 .. NumSlots
Callers == Locals \union {Cloud}
Seqs == 1 .. MaxLocal \union CloudSeqs
Commands == [target : Collars, seq : Seqs, kind : Kinds]
None == [target |-> {}, seq |-> 0, kind |-> "none"]

\* `active` and `state` are assigned together: a command is active in these.
Live == {"queued", "transmitted", "waiting"}
Ended == {"acked", "superseded", "expired", "failed"}
States == {"none"} \union Live \union Ended
NotSent == -1

Rows == [cmd : Commands \union {None}, state : States, age : 0 .. FeedbackTTL,
         retries : 0 .. MaxRetries, sent : NotSent .. AckTimeout, waiting : BOOLEAN]
EmptyRow == [cmd |-> None, state |-> "none", age |-> 0, retries |-> 0, sent |-> NotSent,
             waiting |-> FALSE]

\* An LED find is a PKT_CMD_MODE without a profile.
IsMode(c) == c.kind \in {"profile", "led"}
SameId(c, d) == c.target = d.target /\ c.seq = d.seq

Active(row) == row.state \in Live
Pending(row) == Active(row) /\ row.age < CommandTTL
Holds(row, c) == row.state # "none" /\ SameId(row.cmd, c)

AtMost(n, bound) == IF n < bound THEN n ELSE bound
QueueHasRoom == Len(cmdQueue) < QueueLen

CommandsInit ==
    /\ pendingCmds = [i \in Slots |-> EmptyRow]
    /\ cmdQueue = <<>>
    /\ localSeq = 0
    /\ sending = [r \in Callers |-> [at |-> "idle", cmd |-> None]]
    /\ cloud = [s \in CloudSeqs |-> [cmd |-> None, age |-> 0]]
    /\ lora = "rx"
    /\ held = None
    /\ heardFrom = {}
    /\ checking = 0
    /\ sinceTx = Interval
    /\ opportunity = 0
    /\ sentIds = {}
    /\ profileOrder = <<>>
-----------------------------------------------------------------------------
(* Callers: sendCommandFind, for local commands and for the cloud's.       *)

\* An identity of which feedback is still shown is not registered again.
\* (_Active: only an active one is recognised.)
Known_Active(c) == \E i \in Slots : Holds(pendingCmds[i], c) /\ Active(pendingCmds[i])
Known(c) ==
    \E i \in Slots : Holds(pendingCmds[i], c) /\ pendingCmds[i].age < FeedbackTTL

\* A newer command of type PKT_CMD_MODE ends the active ones of its collar.
\* (_Queued: one that has been transmitted is left to its acknowledgement.)
Supersedes_Queued(c, row) ==
    row.state = "queued" /\ row.cmd.target = c.target /\ IsMode(row.cmd) /\ IsMode(c)
Supersedes(c, row) ==
    Active(row) /\ row.cmd.target = c.target /\ IsMode(row.cmd) /\ IsMode(c)

AfterSuperseding(c) ==
    [i \in Slots |-> IF Supersedes(c, pendingCmds[i])
                     THEN [pendingCmds[i] EXCEPT !.state = "superseded"]
                     ELSE pendingCmds[i]]

\* An unused slot if there is one, else the one whose command is oldest.
Reusable(table, i) ==
    /\ ~Active(table[i])
    /\ IF \E j \in Slots : table[j].state = "none"
       THEN table[i].state = "none" /\ \A j \in Slots : table[j].state = "none" => i <= j
       ELSE \A j \in Slots : Active(table[j]) \/ table[j].age <= table[i].age

NewRow(c, age) ==
    [cmd |-> c, state |-> "queued", age |-> age, retries |-> 0, sent |-> NotSent,
     waiting |-> FALSE]

\* Register under the mutex, then go on to the queue.  With no slot to use the
\* caller gives up; then nothing was superseded either, it would have freed one.
Register(r, c, age) ==
    /\ sending[r].at = "idle"
    /\ checking = 0
    /\ ~Known(c)
    /\ \E i \in Slots :
         /\ Reusable(AfterSuperseding(c), i)
         /\ pendingCmds' = [AfterSuperseding(c) EXCEPT ![i] = NewRow(c, age)]
    /\ sending' = [sending EXCEPT ![r] = [at |-> "queue", cmd |-> c]]
    /\ profileOrder' = IF IsMode(c) THEN Append(profileOrder, c) ELSE profileOrder
    /\ UNCHANGED <<cmdQueue, cloud, loraVars, sentIds>>

\* Refused: known, no slot to use (the others are all active), or no mutex.
NoSlot(c) == \A i \in Slots : ~Reusable(AfterSuperseding(c), i)
Refused(c) == (checking = 0 /\ (Known(c) \/ NoSlot(c))) \/ "pendingMutex" \in Faults
Unregistered(r, c) ==
    /\ sending[r].at = "idle"
    /\ Refused(c)
    /\ UNCHANGED <<pendingCmds, cmdQueue, sending, cloud, loraVars, sentIds, profileOrder>>

\* handleApiCommand, handleApiFind, handleApiDeviceStatusCommand and the console: any
\* collar, any command.  It takes the next number, whatever becomes of it.
LocalRequest(r) ==
    /\ localSeq < MaxLocal
    /\ localSeq' = localSeq + 1
    /\ \E c \in Commands : c.seq = localSeq + 1 /\ (Register(r, c, 0) \/ Unregistered(r, c))

\* The cloud returns its command with every uplink of the collar, until it
\* expires; the hub keeps the cloud's deadline.
\* (_FreshDeadline: ten new minutes after relay.)
InitialAge_FreshDeadline(s) == 0
InitialAge(s) == cloud[s].age
CloudCommand(s) ==
    /\ cloud[s].cmd # None
    /\ cloud[s].age < CommandTTL
    /\ Register(Cloud, cloud[s].cmd, InitialAge(s))
    /\ UNCHANGED localSeq

\* xQueueSend, which waits for room and gives up when there is none.
Enqueue(r) ==
    /\ sending[r].at = "queue"
    /\ QueueHasRoom
    /\ cmdQueue' = Append(cmdQueue, sending[r].cmd)
    /\ sending' = [sending EXCEPT ![r] = [at |-> "idle", cmd |-> None]]
    /\ UNCHANGED <<pendingCmds, localSeq, cloud, loraVars, sentIds, profileOrder>>

EnqueueTimesOut(r) ==
    /\ sending[r].at = "queue"
    /\ ~QueueHasRoom
    /\ sending' = [sending EXCEPT ![r].at = "fail"]
    /\ UNCHANGED <<pendingCmds, cmdQueue, localSeq, cloud, loraVars, sentIds, profileOrder>>

\* The command is marked failed, if it is still active and the mutex is got.
\* (_Any: whether it is still active is not asked.)
Fails_Any(row, c) == Holds(row, c)
Fails(row, c) == Holds(row, c) /\ Active(row)
MarkFailed(r) ==
    /\ sending[r].at = "fail"
    /\ \/ /\ checking = 0
          /\ pendingCmds' = [i \in Slots |->
                               IF Fails(pendingCmds[i], sending[r].cmd)
                               THEN [pendingCmds[i] EXCEPT !.state = "failed"]
                               ELSE pendingCmds[i]]
       \/ "pendingMutex" \in Faults /\ UNCHANGED pendingCmds
    /\ sending' = [sending EXCEPT ![r] = [at |-> "idle", cmd |-> None]]
    /\ UNCHANGED <<cmdQueue, localSeq, cloud, loraVars, sentIds, profileOrder>>
-----------------------------------------------------------------------------
(* loraTask, step 1: receive.                                              *)

NothingHeard ==
    /\ lora = "rx"
    /\ lora' = "take"
    /\ UNCHANGED <<pendingCmds, cmdQueue, localSeq, sending, cloud, held, heardFrom, checking,
                   sinceTx, opportunity, sentIds, profileOrder>>

\* handleAck: the first pending command of this identity is acknowledged.
\* (_AnyCollar: the sender of the acknowledgement is not compared.)
Acknowledges_AnyCollar(c, row) == Pending(row) /\ row.cmd.seq = c.seq
Acknowledges(c, row) == Pending(row) /\ SameId(row.cmd, c)
HearAck(c) ==
    /\ lora = "rx"
    /\ c \in sentIds
    /\ pendingCmds' = [i \in Slots |-> IF Acknowledges(c, pendingCmds[i])
                                       THEN [pendingCmds[i] EXCEPT !.state = "acked"]
                                       ELSE pendingCmds[i]]
    /\ heardFrom' = {c.target}
    /\ lora' = "heard"
    /\ UNCHANGED <<cmdQueue, localSeq, sending, cloud, held, checking, sinceTx, opportunity,
                   sentIds, profileOrder>>

\* Any other packet, or an acknowledgement that found the mutex taken.
HearUplink(collar) ==
    /\ lora = "rx"
    /\ heardFrom' = {collar}
    /\ lora' = "heard"
    /\ UNCHANGED <<pendingCmds, cmdQueue, localSeq, sending, cloud, held, checking, sinceTx,
                   opportunity, sentIds, profileOrder>>

\* queuePendingCommandForDevice: the collar listens now, so its first pending
\* command starts afresh at the front of the queue, if there is room.
FirstPendingFor(collar, i) ==
    /\ Pending(pendingCmds[i]) /\ pendingCmds[i].cmd.target = collar
    /\ \A j \in Slots : j < i => ~(/\ Pending(pendingCmds[j])
                                   /\ pendingCmds[j].cmd.target = collar)

Refreshed(row) == [row EXCEPT !.retries = 0, !.sent = NotSent, !.waiting = FALSE]

RxOpportunity ==
    /\ lora = "heard"
    /\ \E collar \in heardFrom, i \in Slots :
         /\ FirstPendingFor(collar, i)
         /\ pendingCmds' = [pendingCmds EXCEPT ![i] = Refreshed(@)]
         /\ cmdQueue' = IF QueueHasRoom THEN <<pendingCmds[i].cmd>> \o cmdQueue ELSE cmdQueue
    /\ opportunity' = Window
    /\ lora' = "take"
    /\ heardFrom' = {}
    /\ UNCHANGED <<localSeq, sending, cloud, held, checking, sinceTx, sentIds, profileOrder>>

NoOpportunity ==
    /\ lora = "heard"
    /\ \/ "pendingMutex" \in Faults
       \/ \A collar \in heardFrom, i \in Slots : ~FirstPendingFor(collar, i)
    /\ lora' = "take"
    /\ heardFrom' = {}
    /\ UNCHANGED <<pendingCmds, cmdQueue, localSeq, sending, cloud, held, checking, sinceTx,
                   opportunity, sentIds, profileOrder>>
-----------------------------------------------------------------------------
(* loraTask, step 2: transmit.                                             *)

MayTransmit == sinceTx >= Interval \/ opportunity > 0

\* commandStillPending.  (_QueuedOnly: a retry is not recognised.)
StillPending_QueuedOnly(c) ==
    \E i \in Slots : /\ Holds(pendingCmds[i], c) /\ Pending(pendingCmds[i])
                     /\ pendingCmds[i].state = "queued"
StillPending(c) == \E i \in Slots : Holds(pendingCmds[i], c) /\ Pending(pendingCmds[i])

\* A copy whose command is over is dropped, and the loop starts again.
Take ==
    /\ lora = "take"
    /\ MayTransmit
    /\ cmdQueue # <<>>
    /\ cmdQueue' = Tail(cmdQueue)
    /\ \/ /\ StillPending(Head(cmdQueue))
          /\ held' = Head(cmdQueue)
          /\ lora' = "transmit"
       \/ /\ ~StillPending(Head(cmdQueue)) \/ "pendingMutex" \in Faults
          /\ lora' = "rx"
          /\ UNCHANGED held
    /\ UNCHANGED <<pendingCmds, localSeq, sending, cloud, heardFrom, checking, sinceTx,
                   opportunity, sentIds, profileOrder>>

NothingToTake ==
    /\ lora = "take"
    /\ ~MayTransmit \/ cmdQueue = <<>>
    /\ lora' = "check"
    /\ UNCHANGED <<pendingCmds, cmdQueue, localSeq, sending, cloud, held, heardFrom, checking,
                   sinceTx, opportunity, sentIds, profileOrder>>

Transmit ==
    /\ lora = "transmit"
    /\ sentIds' = sentIds \union {held}
    /\ lora' = "note"
    /\ UNCHANGED <<pendingCmds, cmdQueue, localSeq, sending, cloud, held, heardFrom, checking,
                   sinceTx, opportunity, profileOrder>>

\* The copy is lost: a radio error starts the interval, a busy radio does not.
LosesCopy(fault) ==
    /\ lora = "transmit"
    /\ \/ fault = "radio" /\ sinceTx' = 0 /\ opportunity' = 0
       \/ fault = "loraMutex" /\ UNCHANGED <<sinceTx, opportunity>>
    /\ held' = None
    /\ lora' = "check"
    /\ UNCHANGED <<pendingCmds, cmdQueue, localSeq, sending, cloud, heardFrom, checking,
                   sentIds, profileOrder>>
TransmitFails == \E fault \in Faults : LosesCopy(fault)

\* noteCommandSent, for the active row of this identity.
Noted(row, c) == Holds(row, c) /\ Active(row)
NoteSent ==
    /\ lora = "note"
    /\ \/ pendingCmds' = [i \in Slots |->
                            IF Noted(pendingCmds[i], held)
                            THEN [pendingCmds[i] EXCEPT !.sent = 0, !.state = "transmitted"]
                            ELSE pendingCmds[i]]
       \/ "pendingMutex" \in Faults /\ UNCHANGED pendingCmds
    /\ sinceTx' = 0
    /\ opportunity' = 0
    /\ held' = None
    /\ lora' = "check"
    /\ UNCHANGED <<cmdQueue, localSeq, sending, cloud, heardFrom, checking, sentIds,
                   profileOrder>>
-----------------------------------------------------------------------------
(* loraTask, step 3: checkPendingAcks goes through the table with the      *)
(* mutex held; other tasks may still use the queue.                        *)

\* (_NotWaiting: a waiting command is skipped before its age is looked at.)
Overdue_NotWaiting(row) == Active(row) /\ row.age >= CommandTTL /\ ~row.waiting
Overdue(row) == Active(row) /\ row.age >= CommandTTL

\* Sent, and not acknowledged in time.
Unanswered(row) == Pending(row) /\ ~row.waiting /\ row.sent = AckTimeout

MayRetry(row) == row.retries < MaxRetries

\* A retry that finds the queue full waits for the collar, like a command whose
\* retries are used up.
RetryLater(row) ==
    [row EXCEPT !.retries = @ + 1, !.sent = NotSent, !.waiting = TRUE, !.state = "waiting"]

Checked(row) ==
    CASE Overdue(row) -> [row EXCEPT !.state = "expired"]
      [] Unanswered(row) /\ MayRetry(row) /\ QueueHasRoom ->
           [row EXCEPT !.retries = @ + 1, !.sent = NotSent]
      [] Unanswered(row) /\ MayRetry(row) /\ ~QueueHasRoom -> RetryLater(row)
      [] Unanswered(row) /\ ~MayRetry(row) ->
           [row EXCEPT !.waiting = TRUE, !.state = "waiting"]
      [] ~Overdue(row) /\ ~Unanswered(row) -> row

NothingDue == \A i \in Slots : ~Overdue(pendingCmds[i]) /\ ~Unanswered(pendingCmds[i])

BeginCheck ==
    /\ lora = "check"
    /\ checking = 0
    /\ ~NothingDue
    /\ checking' = 1
    /\ UNCHANGED <<pendingCmds, cmdQueue, localSeq, sending, cloud, lora, held, heardFrom,
                   sinceTx, opportunity, sentIds, profileOrder>>

\* The table has nothing to do, or its mutex was not got.
SkipCheck ==
    /\ lora = "check"
    /\ checking = 0
    /\ NothingDue \/ "pendingMutex" \in Faults
    /\ lora' = "rx"
    /\ UNCHANGED <<pendingCmds, cmdQueue, localSeq, sending, cloud, held, heardFrom, checking,
                   sinceTx, opportunity, sentIds, profileOrder>>

CheckSlot ==
    /\ checking \in Slots
    /\ LET row == pendingCmds[checking]
       IN /\ pendingCmds' = [pendingCmds EXCEPT ![checking] = Checked(row)]
          /\ cmdQueue' = IF Unanswered(row) /\ MayRetry(row) /\ QueueHasRoom
                         THEN Append(cmdQueue, row.cmd) ELSE cmdQueue
    /\ IF checking = NumSlots THEN checking' = 0 /\ lora' = "rx"
                              ELSE checking' = checking + 1 /\ UNCHANGED lora
    /\ UNCHANGED <<localSeq, sending, cloud, held, heardFrom, sinceTx, opportunity, sentIds,
                   profileOrder>>
-----------------------------------------------------------------------------
(* The environment: the cloud queues a command, and time passes.           *)

CloudIssues(s, c) ==
    /\ cloud[s].cmd = None
    /\ c.seq = s
    /\ cloud' = [cloud EXCEPT ![s].cmd = c]
    /\ UNCHANGED <<pendingCmds, cmdQueue, localSeq, sending, loraVars, sentIds, profileOrder>>

Aged(row) ==
    IF row.state = "none" THEN row
    ELSE [row EXCEPT !.age = AtMost(@ + 1, FeedbackTTL),
                     !.sent = IF @ = NotSent \/ ~Active(row) THEN @
                              ELSE AtMost(@ + 1, AckTimeout)]

\* A tick is seconds long.  Within it the loop runs hundreds of times, so it has
\* looked at the table; of its steps only receiving and transmitting take time.
CommandsTick ==
    /\ lora \in {"rx", "transmit"}
    /\ NothingDue \/ "pendingMutex" \in Faults
    /\ pendingCmds' = [i \in Slots |-> Aged(pendingCmds[i])]
    /\ cloud' = [s \in CloudSeqs |-> IF cloud[s].cmd = None THEN cloud[s]
                                     ELSE [cloud[s] EXCEPT !.age = AtMost(@ + 1, CommandTTL)]]
    /\ sinceTx' = AtMost(sinceTx + 1, Interval)
    /\ opportunity' = IF opportunity = 0 THEN 0 ELSE opportunity - 1
    /\ UNCHANGED <<cmdQueue, localSeq, sending, lora, held, heardFrom, checking, sentIds,
                   profileOrder>>
-----------------------------------------------------------------------------
Hear == NothingHeard \/ (\E c \in sentIds : HearAck(c)) \/ (\E d \in Collars : HearUplink(d))

LoraStep ==
    \/ Hear \/ RxOpportunity \/ NoOpportunity
    \/ Take \/ NothingToTake \/ Transmit \/ TransmitFails \/ NoteSent
    \/ BeginCheck \/ SkipCheck \/ CheckSlot

SendingStep(r) == Enqueue(r) \/ EnqueueTimesOut(r) \/ MarkFailed(r)

CommandsNext ==
    \/ LoraStep
    \/ \E r \in Locals : LocalRequest(r)
    \/ \E s \in CloudSeqs : CloudCommand(s)
    \/ \E r \in Callers : SendingStep(r)
    \/ \E s \in CloudSeqs, c \in Commands : CloudIssues(s, c)
    \/ CommandsTick

CommandsSpec == CommandsInit /\ [][CommandsNext]_vars

\* The LoRa task and a caller in sendCommandFind are scheduled, and time passes
\* (strongly fair: CommandsTick waits for points the loop reaches again and again).
\* Nobody owes the hub a packet or a command.
CommandsFairSpec ==
    /\ CommandsSpec
    /\ WF_vars(LoraStep)
    /\ SF_vars(CommandsTick)
    /\ \A r \in Callers : WF_vars(SendingStep(r))
-----------------------------------------------------------------------------
(* Properties.                                                             *)

CommandsTypeOK ==
    /\ pendingCmds \in [Slots -> Rows]
    /\ cmdQueue \in Seq(Commands)
    /\ Len(cmdQueue) <= QueueLen
    /\ localSeq \in 0 .. MaxLocal
    /\ sending \in [Callers -> [at : {"idle", "queue", "fail"}, cmd : Commands \union {None}]]
    /\ cloud \in [CloudSeqs -> [cmd : Commands \union {None}, age : 0 .. CommandTTL]]
    /\ lora \in {"rx", "heard", "take", "transmit", "note", "check"}
    /\ held \in Commands \union {None}
    /\ heardFrom \subseteq Collars
    /\ checking \in 0 .. NumSlots
    /\ sinceTx \in 0 .. Interval
    /\ opportunity \in 0 .. Window
    /\ sentIds \subseteq Commands
    /\ profileOrder \in Seq(Commands)

\* A collar has one active profile command: an older one can never be applied
\* after a newer one because both are being delivered.
OneProfilePerCollar ==
    \A i, j \in Slots :
      (/\ Active(pendingCmds[i]) /\ IsMode(pendingCmds[i].cmd)
       /\ Active(pendingCmds[j]) /\ IsMode(pendingCmds[j].cmd)
       /\ pendingCmds[i].cmd.target = pendingCmds[j].cmd.target)
        => i = j

\* An acknowledgement names a command by collar and sequence number only: what is
\* acknowledged has been on the air itself, unless hub and cloud, which both count
\* from 1, have given that number to two commands and the other one was.
FromCloud(c) == \E s \in CloudSeqs : cloud[s].cmd = c

AckMeansSent ==
    \A i \in Slots : pendingCmds[i].state = "acked" =>
      LET c == pendingCmds[i].cmd
      IN  c \in sentIds \/ \E d \in sentIds : SameId(c, d) /\ FromCloud(c) # FromCloud(d)

\* The hub never keeps a cloud command longer than the cloud does.
CloudDeadlineKept ==
    \A i \in Slots, s \in CloudSeqs :
      Pending(pendingCmds[i]) /\ pendingCmds[i].cmd = cloud[s].cmd /\ s > MaxLocal
        => pendingCmds[i].age >= cloud[s].age

\* A command that has to be transmitted is on its way to the radio: in the
\* queue, with its caller, or in the hands of the LoRa task.
OnItsWay(c) ==
    \/ \E k \in DOMAIN cmdQueue : SameId(cmdQueue[k], c)
    \/ held # None /\ SameId(held, c)
    \/ \E r \in Callers : sending[r].at # "idle" /\ SameId(sending[r].cmd, c)

NotStranded ==
    \A i \in Slots :
      Pending(pendingCmds[i]) /\ pendingCmds[i].sent = NotSent /\ ~pendingCmds[i].waiting
        => OnItsWay(pendingCmds[i].cmd)

\* A command that is over stays over, with the outcome it had, until its row is
\* given to another command, whatever copies of it are still queued or in hand.
NoResurrection ==
    [][\A i \in Slots :
         pendingCmds[i].state \in Ended =>
           \/ /\ pendingCmds'[i].state = pendingCmds[i].state
              /\ pendingCmds'[i].cmd = pendingCmds[i].cmd
           \/ /\ pendingCmds'[i].state = "queued"
              /\ \/ ~SameId(pendingCmds'[i].cmd, pendingCmds[i].cmd)
                 \/ pendingCmds[i].age >= FeedbackTTL]_vars

\* A stale selection cannot be applied later: once a profile command has been
\* on the air, no profile command registered before it is transmitted.  (This
\* needs a row for every command: a superseded command of the cloud that has
\* lost its row is not Known any more and is registered anew.)
Transmits(c) == lora = "transmit" /\ lora' = "note" /\ held = c

NoStaleProfile ==
    [][\A k, m \in DOMAIN profileOrder :
         (/\ k < m /\ profileOrder[k].target = profileOrder[m].target
          /\ Transmits(profileOrder[k]))
           => profileOrder[m] \notin sentIds]_vars

\* Every command ends: acknowledged, superseded, failed or expired.
EveryCommandEnds == \A i \in Slots : Active(pendingCmds[i]) ~> ~Active(pendingCmds[i])
=============================================================================
