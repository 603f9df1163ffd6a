---------------------------- MODULE WalterCollar ----------------------------
(***************************************************************************)
(* The Walter LTE collar (collar/walter): its worker task, the serial      *)
(* console that starts, stops and configures it, the modem's two radios,   *)
(* the block of packet numbers reserved in NVS and the cloud commands that *)
(* come back on its uploads.                                               *)
(*                                                                         *)
(* The worker blocks in every modem call and wait; the console runs at any *)
(* of these points and refuses everything but "stop" while the worker is   *)
(* busy.  The modem, the network and the cloud's queue are external: every *)
(* call may fail, an answer may be lost after the cloud has acted, and an  *)
(* unacknowledged command comes again.  Fixes, packets and receipts are    *)
(* abstracted to whether they were obtained; what a cycle does at Home and *)
(* its scheduled LTE share are any the profile table allows.               *)
(***************************************************************************)
EXTENDS Integers

CONSTANTS
    Profiles,       \* operating profiles
    Threshold,      \* lora_failed_cycles_before_cellular of each
    Initial,        \* PROFILE_NORMAL
    Fallback,       \* LOST_MODE_FALLBACK
    Block,          \* numbers reserved at a time
    LostMax,        \* LOST_MODE_MAX_DURATION_S, in sleeps
    MaxPolls,       \* bound: polls of one listen window
    MaxCommands,    \* bound: commands the cloud queues
    MaxChanges,     \* bound: console commands other than stop
    MaxReboots      \* bound: resets

ASSUME WalterAssumption ==
    /\ {"lost", Initial, Fallback} \subseteq Profiles /\ Fallback # "lost"
    /\ Threshold \in [Profiles -> Nat \ {0}]
    /\ {Block, LostMax, MaxPolls} \subseteq Nat \ {0}
    /\ {MaxCommands, MaxChanges, MaxReboots} \subseteq Nat

VARIABLES
    running, oneShot, inspect,   \* requests of the console; inspect is the diagnostic or "none"
    busy, cancel,                \* busy, cancelRequested
    offline,     \* offlineBench
    home,        \* simulatedHome
    clock,       \* clockAnchorUtc is set
    pc, job,     \* where the worker is, and for which request
    boot, plan,  \* of a session: first cycle; what decide() chose
    failed,      \* failedLoRaCycles
    begun, lte, gnss,   \* modem library started; radios
    ready, next, end, stored,    \* sequenceReady, sequenceNext, sequenceEnd, NVS "next",
                                 \* all relative to the lowest number never used
    profile, lostAge,   \* selectedProfile; time since lostProfileStartedMs
    lastId,      \* lastCloudCommandId
    held, polls, \* command of the receipt at hand; polls made
    asked, status,      \* cloud: profile and state of each command
    changes, reboots

requests == <<running, oneShot, inspect>>
settings == <<offline, home>>
session == <<boot, plan, failed>>
radios == <<begun, lte, gnss>>
numbers == <<ready, next, end, stored>>
mode == <<profile, lostAge, lastId>>
listening == <<held, polls>>
cloud == <<asked, status>>
counts == <<changes, reboots>>
vars == <<requests, busy, cancel, settings, clock, pc, job, session, radios, numbers,
          mode, listening, cloud, counts>>

Diagnostics == {"gnss", "lte", "assist", "register"}
Commands == 1 .. MaxCommands
States == {"none", "pending", "sent", "acked", "cancelled", "expired"}

Init ==
    /\ running \in BOOLEAN /\ offline = ~running
    /\ oneShot = FALSE /\ inspect = "none" /\ busy = FALSE /\ cancel = FALSE
    /\ home = FALSE /\ clock = FALSE
    /\ pc = "idle" /\ job = "session"
    /\ boot = FALSE /\ plan = [gnss |-> FALSE, lte |-> FALSE] /\ failed = 0
    /\ begun = FALSE /\ lte = FALSE /\ gnss = FALSE
    /\ ready = FALSE /\ next = 0 /\ end = 0 /\ stored = 0
    /\ profile = Initial /\ lostAge = 0 /\ lastId = 0
    /\ held = 0 /\ polls = 0
    /\ asked = [c \in Commands |-> Initial] /\ status = [c \in Commands |-> "none"]
    /\ changes = 0 /\ reboots = 0
-----------------------------------------------------------------------------
(* The console: command() refuses all but stop and status until Idle.      *)

Quiet == ~busy /\ ~running /\ ~oneShot /\ inspect = "none"

Stop ==
    /\ ~cancel \/ running \/ oneShot \/ inspect # "none"
    /\ cancel' = TRUE /\ running' = FALSE /\ oneShot' = FALSE /\ inspect' = "none"
    /\ UNCHANGED <<busy, settings, clock, pc, job, session, radios, numbers, mode,
                   listening, cloud, counts>>

Console ==
    /\ Quiet /\ changes < MaxChanges /\ changes' = changes + 1
    /\ UNCHANGED <<busy, pc, job, session, begun, numbers, lastId, listening, cloud, reboots>>

\* The next request.  A radio that a warning asked to check has been seen to.
Requests ==
    /\ Console /\ cancel' = FALSE
    /\ gnss' = FALSE /\ lte' = FALSE
    /\ \/ running' = TRUE /\ UNCHANGED <<oneShot, inspect>>
       \/ oneShot' = TRUE /\ UNCHANGED <<running, inspect>>
       \/ /\ inspect' \in Diagnostics
          /\ IF inspect' = "register" THEN ~begun ELSE clock
          /\ UNCHANGED <<running, oneShot>>
    /\ UNCHANGED <<settings, clock, profile, lostAge>>

Configures ==
    /\ Console
    /\ \/ offline' = ~offline /\ UNCHANGED <<home, clock, profile, lostAge>>
       \/ home' = ~home /\ UNCHANGED <<offline, clock, profile, lostAge>>
       \/ clock' = TRUE /\ UNCHANGED <<settings, profile, lostAge>>
       \/ /\ profile' \in Profiles /\ lostAge' = 0
          /\ UNCHANGED <<settings, clock>>
    /\ UNCHANGED <<requests, cancel, lte, gnss>>
-----------------------------------------------------------------------------
(* The worker: taking a request, and the parts of one cycle.               *)

Wakes ==
    /\ pc = "idle" /\ (running \/ oneShot \/ inspect # "none")
    /\ pc' = "woken"
    /\ UNCHANGED <<requests, busy, cancel, settings, clock, job, session, radios, numbers,
                   mode, listening, cloud, counts>>

Takes ==
    /\ pc = "woken" /\ busy' = TRUE
    /\ \/ /\ inspect # "none" /\ inspect' = "none" /\ job' = inspect
          /\ pc' = IF cancel THEN "rest" ELSE IF inspect = "lte" THEN "number" ELSE inspect
          /\ UNCHANGED <<oneShot, session>>
       \/ /\ inspect = "none" /\ oneShot' = FALSE
          /\ job' = IF oneShot THEN "send" ELSE "session"
          /\ boot' = TRUE /\ failed' = 0 /\ pc' = "top"
          /\ UNCHANGED <<inspect, plan>>
    /\ UNCHANGED <<running, cancel, settings, clock, radios, numbers, mode, listening,
                   cloud, counts>>

\* The head of the loop: two hours of Lost mode are enough.
Top ==
    /\ pc = "top" /\ pc' = "cycle"
    /\ IF profile = "lost" /\ lostAge >= LostMax
       THEN profile' = Fallback
       ELSE UNCHANGED profile
    /\ UNCHANGED <<requests, busy, cancel, settings, clock, job, session, radios, numbers,
                   lostAge, lastId, listening, cloud, counts>>

\* decide(): whether a packet is due, whether with a fix, whether over LTE.
Decide ==
    CASE job = "send" -> {<<TRUE, TRUE, TRUE>>}
      [] job # "send" /\ boot -> {<<TRUE, TRUE, FALSE>>}
      [] job # "send" /\ ~boot /\ home /\ profile # "lost" ->
            {d \in BOOLEAN \X BOOLEAN \X BOOLEAN : (d[2] \/ d[3]) => d[1]}
      [] OTHER -> {TRUE} \X {TRUE} \X BOOLEAN

\* The start of a cycle, with LTE for the time if there is none.  beginModem() resets
\* the modem when it starts the library; networkOn() turns the radio on before it can fail.
Cycle ==
    /\ pc = "cycle" /\ boot' = FALSE
    /\ \/ cancel /\ pc' = "after" /\ UNCHANGED <<running, clock, plan, radios>>
       \/ /\ ~cancel
          /\ \E d \in Decide :
                LET packet == d[1] IN
                \/ ~packet /\ pc' = "after" /\ UNCHANGED <<running, clock, plan, radios>>
                \/ /\ packet /\ offline /\ ~clock
                   /\ running' = FALSE /\ pc' = "after" /\ UNCHANGED <<clock, plan, radios>>
                \/ /\ packet /\ ~offline /\ ~clock
                   /\ begun' \in {begun, TRUE}
                   /\ gnss' = (gnss /\ begun)
                   /\ lte' \in (IF begun' THEN BOOLEAN ELSE {FALSE})
                   /\ \/ pc' = "after" /\ UNCHANGED <<clock, plan>>
                      \/ /\ lte' /\ clock' \in BOOLEAN
                         /\ plan' = [gnss |-> d[2], lte |-> d[3]] /\ pc' = "gnss"
                   /\ UNCHANGED running
                \/ /\ packet /\ clock
                   /\ plan' = [gnss |-> d[2], lte |-> d[3]] /\ pc' = "gnss"
                   /\ UNCHANGED <<running, clock, radios>>
    /\ UNCHANGED <<oneShot, inspect, busy, cancel, settings, job, failed, numbers,
                   mode, listening, cloud, counts>>

\* settleGnss(): only once LTE is confirmed off.
Fixes(off) == begun' /\ off /\ ~cancel /\ clock

AfterFix == IF job = "gnss" THEN "cleanup" ELSE "number"
Gnss ==
    /\ pc = "gnss"
    /\ IF job # "gnss" /\ (offline \/ ~plan.gnss)
       THEN pc' = "number" /\ UNCHANGED radios
       ELSE /\ begun' \in {begun, TRUE}
            /\ \E off \in BOOLEAN :
                 /\ lte' = (lte /\ begun /\ ~off)
                 /\ \/ Fixes(off) /\ gnss' = TRUE /\ pc' = "fixing"
                    \/ gnss' = (gnss /\ begun) /\ pc' = AfterFix
    /\ UNCHANGED <<requests, busy, cancel, settings, clock, job, session, numbers, mode,
                   listening, cloud, counts>>

\* No answer in time: the acquisition is cancelled, and if that is not confirmed the
\* session ends.  (_Continues: it goes on.)
Unconfirmed_Continues == UNCHANGED <<running, cancel>>
Unconfirmed == running' = FALSE /\ cancel' = TRUE

Fixing ==
    /\ pc = "fixing" /\ pc' = AfterFix
    /\ \/ gnss' = FALSE /\ UNCHANGED <<running, cancel>>
       \/ Unconfirmed /\ UNCHANGED gnss
    /\ UNCHANGED <<oneShot, inspect, busy, settings, clock, job, session, begun, lte,
                   numbers, mode, listening, cloud, counts>>
-----------------------------------------------------------------------------
(* Packet numbers.  One used moves the origin the others are measured from.*)

\* What NVS holds when a block has been reserved.  (_Single: one number of it.)
Reserved_Single(first) == first + 1
Reserved(first) == first + Block

NextSequence ==
    LET first == IF ready THEN next ELSE stored
        full == ~ready \/ next = end
        top == IF full THEN first + Block ELSE end
    IN /\ ready' = TRUE
       /\ next' = 0 /\ end' = top - first - 1
       /\ stored' = (IF full THEN Reserved(first) ELSE stored) - first - 1

\* The store cannot be opened, or the reservation is not written.
SequenceFails ==
    \/ ~ready /\ UNCHANGED numbers
    \/ ~ready /\ ready' = TRUE /\ next' = stored /\ end' = stored /\ UNCHANGED stored
    \/ ready /\ next = end /\ UNCHANGED numbers

\* noteLoRaFailure(): the count that makes LTE due, and what is left of it.
Due(n) == n >= Threshold[profile]

\* A packet is built, for the radio this board has not, and for LTE when it is due.
Number ==
    /\ pc = "number"
    /\ \/ /\ job # "lte" /\ (cancel \/ ~clock) /\ pc' = "after"
          /\ UNCHANGED <<running, failed, numbers>>
       \/ /\ job = "lte" /\ cancel /\ pc' = "cleanup"
          /\ UNCHANGED <<running, failed, numbers>>
       \/ /\ ~cancel /\ clock /\ SequenceFails
          /\ running' = FALSE /\ pc' = IF job = "lte" THEN "cleanup" ELSE "after"
          /\ UNCHANGED failed
       \/ /\ ~cancel /\ clock /\ NextSequence /\ UNCHANGED running
          /\ IF job = "lte"
             THEN pc' = "upload" /\ UNCHANGED failed
             ELSE LET due == Due(failed + 1) IN
                  /\ failed' = IF due THEN 0 ELSE failed + 1
                  /\ pc' = IF (plan.lte \/ due) /\ ~offline THEN "upload" ELSE "after"
    /\ UNCHANGED <<oneShot, inspect, busy, cancel, settings, clock, job, boot, plan, radios,
                   mode, listening, cloud, counts>>
-----------------------------------------------------------------------------
(* Upload, listen window and commands.                                     *)

\* A request that reaches the cloud: the oldest live command is claimed and comes back
\* with the answer, if that arrives.  A new profile command cancels the ones before it,
\* so at most one is live.  (`given' is what the request left of the states.)
Claimed(given) ==
    /\ status' = [c \in Commands |-> IF given[c] = "pending" THEN "sent" ELSE given[c]]
    /\ UNCHANGED asked
First(given) ==
    LET live == {c \in Commands : given[c] \in {"pending", "sent"}}
    IN IF live = {} THEN 0 ELSE CHOOSE c \in live : TRUE

Answered(answer) == IF answer THEN held' = First(status) ELSE held' = 0
Worker == UNCHANGED <<requests, busy, cancel, settings, clock, job, session, counts>>

\* prepareModem(), networkOn(), then the telemetry packet and its receipt.
Upload ==
    /\ pc = "upload" /\ begun' \in {begun, TRUE} /\ gnss' = (gnss /\ begun) /\ polls' = 0
    /\ \/ /\ \/ lte' = (lte /\ begun)
             \/ begun' /\ ~cancel /\ lte' = TRUE
          /\ held' = 0 /\ pc' = "close" /\ UNCHANGED cloud
       \/ /\ begun' /\ ~cancel /\ lte' = TRUE
          /\ \E answer \in BOOLEAN :
                /\ Claimed(status) /\ Answered(answer)
                /\ pc' = IF answer THEN "apply" ELSE "close"
    /\ Worker /\ UNCHANGED <<numbers, mode>>

\* What becomes of a command that came again: it is acknowledged only while it is
\* still what the profile comes from.  (_Always: whatever the profile is now.)
StillInForce_Always(c) == TRUE
StillInForce(c) == profile = asked[c]

\* The profile a new command sets; a repeated one leaves Lost mode's timer alone.
\* (_Restarts: it does not.)
Keeps_Restarts == lostAge' = 0 /\ UNCHANGED <<profile, lastId>>
Keeps == UNCHANGED mode

Apply ==
    /\ pc = "apply" /\ held' = held
    /\ IF held = 0 \/ cancel
       THEN pc' = "poll" /\ UNCHANGED <<numbers, mode>>
       ELSE \/ /\ status[held] = "expired" /\ pc' = "poll" /\ UNCHANGED <<numbers, mode>>
            \/ /\ status[held] # "expired" /\ SequenceFails /\ pc' = "poll"
               /\ UNCHANGED mode
            \/ /\ status[held] # "expired" /\ NextSequence
               /\ IF lastId = held
                  THEN /\ pc' = IF StillInForce(held) THEN "ack" ELSE "poll"
                       /\ IF StillInForce(held) THEN Keeps ELSE UNCHANGED mode
                  ELSE /\ profile' = asked[held] /\ lostAge' = 0 /\ lastId' = held
                       /\ pc' = "ack"
    /\ Worker /\ UNCHANGED <<radios, polls, cloud>>

\* The signed ACK.  The command its own answer may claim is left to the next poll.
Ack ==
    /\ pc = "ack" /\ pc' = "poll" /\ held' = 0
    /\ \/ UNCHANGED cloud
       \/ /\ ~cancel
          /\ LET done == IF status[held] \in {"pending", "sent"}
                         THEN [status EXCEPT ![held] = "acked"] ELSE status
             IN Claimed(done)
    /\ Worker /\ UNCHANGED <<radios, numbers, mode, polls>>

\* Every second of the window, and once more at its end.
Poll ==
    /\ pc = "poll"
    /\ \/ /\ pc' = "close" /\ held' = 0 /\ UNCHANGED <<polls, cloud>>
       \/ /\ ~cancel /\ polls < MaxPolls /\ polls' = polls + 1
          /\ \E answer \in BOOLEAN :
                /\ Claimed(status) /\ Answered(answer)
                /\ pc' = IF answer THEN "apply" ELSE "close"
    /\ Worker /\ UNCHANGED <<radios, numbers, mode>>

\* The HTTP profile is closed, and with it any answer still to come.
Close ==
    /\ pc = "close" /\ pc' = IF job = "lte" THEN "cleanup" ELSE "after"
    /\ Worker /\ UNCHANGED <<radios, numbers, mode, listening, cloud>>
-----------------------------------------------------------------------------
(* The end of a cycle or of a request.                                     *)

\* A session whose radio is not confirmed off ends here.
NotOff == running' = FALSE

Rests == cancel \/ job = "send" \/ ~running'
After ==
    /\ pc = "after"
    /\ \/ (offline \/ ~begun) /\ UNCHANGED <<running, lte>>
       \/ ~offline /\ begun /\ lte' = FALSE /\ UNCHANGED running
       \/ ~offline /\ begun /\ NotOff /\ UNCHANGED lte
    /\ pc' = IF Rests THEN "rest" ELSE "sleep"
    /\ UNCHANGED <<oneShot, inspect, busy, cancel, settings, clock, job, session, begun,
                   gnss, numbers, mode, listening, cloud, counts>>

Sleep ==
    /\ pc = "sleep"
    /\ IF cancel
       THEN pc' = "rest" /\ UNCHANGED mode
       ELSE /\ pc' = IF running THEN "top" ELSE "rest"
            /\ lostAge' = IF lostAge < LostMax THEN lostAge + 1 ELSE lostAge
            /\ UNCHANGED <<profile, lastId>>
    /\ Worker /\ UNCHANGED <<radios, numbers, listening, cloud>>

\* refreshGnssAssistance(): LTE without telemetry.
Assist ==
    /\ pc = "assist" /\ pc' = "cleanup" /\ begun' \in {begun, TRUE}
    /\ gnss' = (gnss /\ begun)
    /\ lte' \in (IF begun' /\ ~cancel THEN BOOLEAN ELSE {lte /\ begun})
    /\ Worker /\ UNCHANGED <<numbers, mode, listening, cloud>>

\* registerOnly(), before the library is started: the modem is reset, its radio turned on
\* and off again, which may not be confirmed.
Register ==
    /\ pc = "register" /\ pc' = "rest"
    /\ gnss' = FALSE /\ lte' \in BOOLEAN
    /\ Worker /\ UNCHANGED <<begun, numbers, mode, listening, cloud>>

Cleanup ==
    /\ pc = "cleanup" /\ pc' = "rest" /\ lte' \in {lte, FALSE}
    /\ Worker /\ UNCHANGED <<begun, gnss, numbers, mode, listening, cloud>>

Rest ==
    /\ pc = "rest" /\ pc' = "idle" /\ running' = FALSE /\ busy' = FALSE
    /\ UNCHANGED <<oneShot, inspect, cancel, settings, clock, job, session, radios, numbers,
                   mode, listening, cloud, counts>>
-----------------------------------------------------------------------------
(* The cloud's queue, and resets.                                          *)

Queue(c, p) ==
    /\ status[c] = "none" /\ \A d \in 1 .. (c - 1) : status[d] # "none"
    /\ asked' = [asked EXCEPT ![c] = p]
    /\ status' = [d \in Commands |-> IF d = c THEN "pending"
                                     ELSE IF status[d] \in {"pending", "sent"}
                                          THEN "cancelled" ELSE status[d]]
    /\ UNCHANGED <<requests, busy, cancel, settings, clock, pc, job, session, radios,
                   numbers, mode, listening, counts>>

Expire(c) ==
    /\ status[c] \in {"pending", "sent"} /\ status' = [status EXCEPT ![c] = "expired"]
    /\ UNCHANGED <<requests, busy, cancel, settings, clock, pc, job, session, radios,
                   numbers, mode, listening, asked, counts>>

\* Only NVS survives; the modem goes on as it was until it is begun again.
Reboot ==
    /\ reboots < MaxReboots /\ reboots' = reboots + 1
    /\ running' \in BOOLEAN /\ offline' = ~running'
    /\ oneShot' = FALSE /\ inspect' = "none" /\ busy' = FALSE /\ cancel' = FALSE
    /\ home' = FALSE /\ clock' = FALSE /\ pc' = "idle" /\ job' = "session"
    /\ boot' = FALSE /\ failed' = 0 /\ begun' = FALSE
    /\ ready' = FALSE /\ next' = 0 /\ end' = 0
    /\ profile' = Initial /\ lostAge' = 0 /\ lastId' = 0
    /\ held' = 0 /\ polls' = 0
    /\ UNCHANGED <<plan, lte, gnss, stored, cloud, changes>>

WorkerStep ==
    \/ Wakes \/ Takes \/ Top \/ Cycle \/ Gnss \/ Fixing \/ Number
    \/ Upload \/ Apply \/ Ack \/ Poll \/ Close
    \/ After \/ Sleep \/ Assist \/ Register \/ Cleanup \/ Rest

Next ==
    \/ WorkerStep \/ Stop \/ Requests \/ Configures \/ Reboot
    \/ \E c \in Commands : Expire(c) \/ \E p \in Profiles : Queue(c, p)

Spec == Init /\ [][Next]_vars
FairSpec == Spec /\ WF_vars(WorkerStep)
-----------------------------------------------------------------------------
\* Every variable has its type.
TypeOK ==
    /\ {running, oneShot, busy, cancel, offline, home, clock} \subseteq BOOLEAN
    /\ inspect \in Diagnostics \cup {"none"}
    /\ pc \in {"idle", "woken", "top", "cycle", "gnss", "fixing", "number", "upload",
               "apply", "ack", "poll", "close", "after", "sleep", "assist", "register", "cleanup",
               "rest"}
    /\ job \in Diagnostics \cup {"session", "send"}
    /\ {boot, begun, lte, gnss, ready} \subseteq BOOLEAN
    /\ plan \in [gnss : BOOLEAN, lte : BOOLEAN]
    /\ failed \in Nat
    /\ {next, end, stored} \subseteq Int
    /\ profile \in Profiles /\ lostAge \in 0 .. LostMax
    /\ {lastId, held} \subseteq 0 .. MaxCommands /\ polls \in 0 .. MaxPolls
    /\ asked \in [Commands -> Profiles] /\ status \in [Commands -> States]
    /\ changes \in 0 .. MaxChanges /\ reboots \in 0 .. MaxReboots

\* The number of the next packet is one that was never used, through failed
\* reservations and resets (nextSequence: "Reserve before use, so power loss cannot
\* reuse the current block").
NumberOnce == (IF ready THEN next ELSE stored) >= 0

\* GNSS and LTE never run together, and neither runs while the collar waits for its
\* next cycle: a radio that cannot be stopped ends the session.
OneRadio == ~(gnss /\ lte) /\ (pc = "sleep" => ~gnss /\ ~lte)

\* When the cloud marks a command acknowledged, the collar runs what it asked for and
\* has heard no later one: neither the console nor Lost mode's timer has changed the
\* profile since ("Superseded locally; old command not ACKed").
AckedInForce ==
    [][\A c \in Commands : status[c] # "acked" /\ status'[c] = "acked"
            => lastId = c /\ profile = asked[c]]_vars

\* A Lost mode ends, however often its command is delivered again.
LostEnds == (profile = "lost" /\ running) ~> (profile # "lost" \/ ~running)
=============================================================================
