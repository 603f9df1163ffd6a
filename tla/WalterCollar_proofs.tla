------------------------- MODULE WalterCollar_proofs -------------------------
(***************************************************************************)
(* Theorems about the Walter collar (WalterCollar), for every set of       *)
(* profiles and thresholds, every block of numbers and any number of       *)
(* commands, console changes and resets: packet numbers are used once, the *)
(* two radios never run together, and what the cloud marks acknowledged is *)
(* in force.                                                               *)
(***************************************************************************)
EXTENDS WalterCollar, TLAPS

Places == {"idle", "woken", "top", "cycle", "gnss", "fixing", "number", "upload", "apply", "ack",
           "poll", "close", "after", "sleep", "assist", "register", "cleanup", "rest"}
-----------------------------------------------------------------------------
(* Types, in the groups the actions change together.                       *)

RequestTypes ==
    /\ running \in BOOLEAN /\ oneShot \in BOOLEAN /\ inspect \in Diagnostics \cup {"none"}
    /\ busy \in BOOLEAN /\ cancel \in BOOLEAN /\ offline \in BOOLEAN
PlaceTypes ==
    /\ pc \in Places /\ job \in Diagnostics \cup {"session", "send"}
    /\ home \in BOOLEAN /\ clock \in BOOLEAN /\ boot \in BOOLEAN
RadioTypes ==
    /\ plan \in [gnss : BOOLEAN, lte : BOOLEAN] /\ failed \in Nat
    /\ begun \in BOOLEAN /\ lte \in BOOLEAN /\ gnss \in BOOLEAN
NumberTypes == ready \in BOOLEAN /\ next \in Int /\ end \in Int /\ stored \in Int
CloudTypes ==
    /\ profile \in Profiles /\ lostAge \in 0 .. LostMax
    /\ lastId \in 0 .. MaxCommands /\ held \in 0 .. MaxCommands /\ polls \in 0 .. MaxPolls
    /\ asked \in [Commands -> Profiles] /\ status \in [Commands -> States]
BoundTypes == changes \in 0 .. MaxChanges /\ reboots \in 0 .. MaxReboots

LEMMA TypeParts ==
    TypeOK <=> RequestTypes /\ PlaceTypes /\ RadioTypes /\ NumberTypes /\ CloudTypes /\ BoundTypes
  BY DEF TypeOK, RequestTypes, PlaceTypes, RadioTypes, NumberTypes, CloudTypes, BoundTypes, Places

LEMMA RequestTypesStep == RequestTypes /\ [Next]_vars => RequestTypes'
  <1> SUFFICES ASSUME RequestTypes, [Next]_vars PROVE RequestTypes'
    OBVIOUS
  <1> USE DEF RequestTypes, requests, settings, Diagnostics
  <1>1. CASE Stop
    BY <1>1 DEF Stop
  <1>2. CASE Requests
    BY <1>2 DEF Requests, Console
  <1>3. CASE Configures
    BY <1>3 DEF Configures, Console
  <1>4. CASE Reboot
    BY <1>4 DEF Reboot
  <1>5. CASE \E c \in Commands : Expire(c) \/ \E p \in Profiles : Queue(c, p)
    BY <1>5 DEF Expire, Queue
  <1>6. CASE Wakes \/ Takes
    BY <1>6 DEF Wakes, Takes
  <1>7. CASE Top
    BY <1>7 DEF Top
  <1>8. CASE Cycle
    BY <1>8 DEF Cycle
  <1>9. CASE Gnss
    BY <1>9 DEF Gnss, AfterFix, Fixes
  <1>10. CASE Fixing
    BY <1>10 DEF Fixing, AfterFix, Unconfirmed
  <1>11. CASE Number
    BY <1>11 DEF Number, Due
  <1>12. CASE Upload \/ Apply \/ Ack \/ Poll \/ Close
    BY <1>12 DEF Upload, Apply, Ack, Poll, Close, Worker
  <1>13. CASE After \/ Sleep
    BY <1>13 DEF After, Sleep, NotOff, Worker
  <1>14. CASE Assist \/ Register
    BY <1>14 DEF Assist, Register, Worker
  <1>15. CASE Cleanup \/ Rest
    BY <1>15 DEF Cleanup, Rest, Worker
  <1>16. CASE UNCHANGED vars
    BY <1>16 DEF vars
  <1> QED BY <1>1, <1>2, <1>3, <1>4, <1>5, <1>6, <1>7, <1>8, <1>9, <1>10, <1>11, <1>12, <1>13, <1>14, <1>15, <1>16 DEF Next, WorkerStep

LEMMA PlaceTypesStep == RequestTypes /\ PlaceTypes /\ [Next]_vars => PlaceTypes'
  <1> SUFFICES ASSUME RequestTypes, PlaceTypes, [Next]_vars PROVE PlaceTypes'
    OBVIOUS
  <1> USE DEF PlaceTypes, Places, requests, settings, session, Diagnostics
  <1>1. CASE Stop
    BY <1>1 DEF Stop
  <1>2. CASE Requests
    BY <1>2 DEF Requests, Console
  <1>3. CASE Configures
    BY <1>3 DEF Configures, Console
  <1>4. CASE Reboot
    BY <1>4 DEF Reboot
  <1>5. CASE \E c \in Commands : Expire(c) \/ \E p \in Profiles : Queue(c, p)
    BY <1>5 DEF Expire, Queue
  <1>6. CASE Wakes \/ Takes
    <2>1. inspect \in Diagnostics \cup {"none"}
      BY DEF RequestTypes
    <2> QED BY <1>6, <2>1 DEF Wakes, Takes
  <1>7. CASE Top
    BY <1>7 DEF Top
  <1>8. CASE Cycle
    BY <1>8 DEF Cycle
  <1>9. CASE Gnss
    BY <1>9 DEF Gnss, AfterFix, Fixes
  <1>10. CASE Fixing
    BY <1>10 DEF Fixing, AfterFix, Unconfirmed
  <1>11. CASE Number
    BY <1>11 DEF Number, Due
  <1>12. CASE Upload \/ Apply \/ Ack \/ Poll \/ Close
    BY <1>12 DEF Upload, Apply, Ack, Poll, Close, Worker
  <1>13. CASE After \/ Sleep
    BY <1>13 DEF After, Sleep, NotOff, Worker
  <1>14. CASE Assist \/ Register
    BY <1>14 DEF Assist, Register, Worker
  <1>15. CASE Cleanup \/ Rest
    BY <1>15 DEF Cleanup, Rest, Worker
  <1>16. CASE UNCHANGED vars
    BY <1>16 DEF vars
  <1> QED BY <1>1, <1>2, <1>3, <1>4, <1>5, <1>6, <1>7, <1>8, <1>9, <1>10, <1>11, <1>12, <1>13, <1>14, <1>15, <1>16 DEF Next, WorkerStep

LEMMA RadioTypesStep == RadioTypes /\ [Next]_vars => RadioTypes'
  <1> SUFFICES ASSUME RadioTypes, [Next]_vars PROVE RadioTypes'
    OBVIOUS
  <1> USE DEF RadioTypes, session, radios
  <1>1. CASE Stop
    BY <1>1 DEF Stop
  <1>2. CASE Requests
    BY <1>2 DEF Requests, Console
  <1>3. CASE Configures
    BY <1>3 DEF Configures, Console
  <1>4. CASE Reboot
    BY <1>4 DEF Reboot
  <1>5. CASE \E c \in Commands : Expire(c) \/ \E p \in Profiles : Queue(c, p)
    BY <1>5 DEF Expire, Queue
  <1>6. CASE Wakes \/ Takes
    BY <1>6 DEF Wakes, Takes
  <1>7. CASE Top
    BY <1>7 DEF Top
  <1>8. CASE Cycle
    <2>1. \A d \in Decide : d[2] \in BOOLEAN /\ d[3] \in BOOLEAN
      <3>1. {TRUE} \X {TRUE} \X BOOLEAN \subseteq BOOLEAN \X BOOLEAN \X BOOLEAN
        OBVIOUS
      <3>2. Decide \subseteq BOOLEAN \X BOOLEAN \X BOOLEAN
        BY <3>1 DEF Decide
      <3> QED BY <3>2
    <2>2. plan' \in [gnss : BOOLEAN, lte : BOOLEAN]
      <3>1. plan' = plan \/ \E d \in Decide : plan' = [gnss |-> d[2], lte |-> d[3]]
        BY <1>8 DEF Cycle
      <3> QED BY <2>1, <3>1
    <2>3. lte' \in BOOLEAN /\ gnss' \in BOOLEAN /\ begun' \in BOOLEAN /\ UNCHANGED failed
      BY <1>8 DEF Cycle
    <2> QED BY <2>2, <2>3
  <1>9. CASE Gnss
    BY <1>9 DEF Gnss, AfterFix, Fixes
  <1>10. CASE Fixing
    BY <1>10 DEF Fixing, AfterFix, Unconfirmed
  <1>11. CASE Number
    BY <1>11 DEF Number, Due
  <1>12. CASE Upload \/ Apply \/ Ack \/ Poll \/ Close
    BY <1>12 DEF Upload, Apply, Ack, Poll, Close, Worker
  <1>13. CASE After \/ Sleep
    BY <1>13 DEF After, Sleep, NotOff, Worker
  <1>14. CASE Assist \/ Register
    BY <1>14 DEF Assist, Register, Worker
  <1>15. CASE Cleanup \/ Rest
    BY <1>15 DEF Cleanup, Rest, Worker
  <1>16. CASE UNCHANGED vars
    BY <1>16 DEF vars
  <1> QED BY <1>1, <1>2, <1>3, <1>4, <1>5, <1>6, <1>7, <1>8, <1>9, <1>10, <1>11, <1>12, <1>13, <1>14, <1>15, <1>16 DEF Next, WorkerStep

\* A packet's number is used once: the collar is always ahead of what it used.
NumbersInOrder == /\ ready => 0 <= next /\ next <= end /\ end <= stored
                  /\ ~ready => stored >= 0

NumbersInv == NumberTypes /\ NumbersInOrder

\* What numbering a packet, or failing to, does to the numbers.
LEMMA Sequence ==
    ASSUME NumbersInv, NextSequence \/ SequenceFails
    PROVE  NumbersInv'
  <1>1. Block \in Nat /\ Block > 0
    BY WalterAssumption
  <1>2. ready' \in BOOLEAN
    BY DEF NextSequence, SequenceFails, NumbersInv, NumberTypes, numbers
  <1>3. CASE NextSequence
    BY <1>1, <1>2, <1>3 DEF NextSequence, Reserved, NumbersInv, NumberTypes, NumbersInOrder
  <1>4. CASE SequenceFails
    BY <1>2, <1>4 DEF SequenceFails, NumbersInv, NumberTypes, NumbersInOrder, numbers
  <1> QED BY <1>3, <1>4

LEMMA NumbersStep == NumbersInv /\ [Next]_vars => NumbersInv'
  <1> SUFFICES ASSUME NumbersInv, [Next]_vars PROVE NumbersInv'
    OBVIOUS
  <1>1. ASSUME UNCHANGED numbers PROVE NumbersInv'
    BY <1>1 DEF NumbersInv, NumberTypes, NumbersInOrder, numbers
  <1>2. CASE Reboot
    <2>1. ready' \in BOOLEAN
      BY <1>2 DEF Reboot
    <2> QED BY <1>2, <2>1 DEF Reboot, NumbersInv, NumberTypes, NumbersInOrder
  <1>3. CASE Number
    BY <1>1, <1>3, Sequence DEF Number
  <1>4. CASE Apply
    BY <1>1, <1>4, Sequence DEF Apply
  <1>5. CASE \/ Stop \/ Requests \/ Configures \/ UNCHANGED vars
            \/ \E c \in Commands : Expire(c) \/ \E p \in Profiles : Queue(c, p)
    BY <1>1, <1>5 DEF Stop, Requests, Configures, Console, Expire, Queue, vars
  <1>6. CASE \/ Wakes \/ Takes \/ Top \/ Cycle \/ Gnss \/ Fixing \/ Upload \/ Ack \/ Poll \/ Close
            \/ After \/ Sleep \/ Assist \/ Register \/ Cleanup \/ Rest
    BY <1>1, <1>6 DEF Wakes, Takes, Top, Cycle, Gnss, Fixing, Upload, Ack, Poll, Close, After, Sleep,
                      Assist, Register, Cleanup, Rest
  <1> QED BY <1>2, <1>3, <1>4, <1>5, <1>6 DEF Next, WorkerStep

\* No packet number is used twice, for any size of the reserved block and through any
\* failed reservations and resets (nextSequence: the block is written before its first
\* number is used).
THEOREM NumbersUsedOnce == Spec => []NumberOnce
  <1>1. Init => NumbersInv
    <2>1. Init => ready \in BOOLEAN
      BY DEF Init
    <2> QED BY <2>1 DEF Init, NumbersInv, NumberTypes, NumbersInOrder
  <1>2. NumbersInv => NumberOnce
    BY DEF NumbersInv, NumberTypes, NumbersInOrder, NumberOnce
  <1> QED BY <1>1, <1>2, NumbersStep, PTL DEF Spec
-----------------------------------------------------------------------------
(* The cloud's commands.                                                   *)

\* The command at hand is one the cloud has queued, and one that is about to be
\* acknowledged is the last one heard and in force.
AckInForce ==
    /\ held # 0 => status[held] # "none"
    /\ pc = "ack" => held # 0 /\ lastId = held /\ profile = asked[held]

\* The console is refused while the worker is out of its idle state.
BusyMeansOut == busy <=> pc \notin {"idle", "woken"}

LEMMA BusyStep ==
    RequestTypes /\ PlaceTypes /\ BusyMeansOut /\ [Next]_vars => BusyMeansOut'
  <1> SUFFICES ASSUME RequestTypes, PlaceTypes, BusyMeansOut, [Next]_vars PROVE BusyMeansOut'
    OBVIOUS
  <1> USE DEF BusyMeansOut
  <1>1. CASE Stop \/ Requests \/ Configures \/ UNCHANGED vars
             \/ \E c \in Commands : Expire(c) \/ \E p \in Profiles : Queue(c, p)
    BY <1>1 DEF Stop, Requests, Configures, Console, Expire, Queue, vars
  <1>2. CASE Reboot
    BY <1>2 DEF Reboot
  <1>3. CASE Takes
    <2>1. busy' = TRUE /\ pc' \notin {"idle", "woken"}
      BY <1>3 DEF Takes, RequestTypes, Diagnostics
    <2> QED BY <2>1
  <1>4. CASE Rest
    <2>1. busy' = FALSE /\ pc' = "idle"
      BY <1>4 DEF Rest
    <2> QED BY <2>1
  <1>5. CASE \/ Wakes \/ Top \/ Cycle \/ Gnss \/ Fixing \/ Number \/ Upload \/ Apply \/ Ack \/ Poll
             \/ Close \/ After \/ Sleep \/ Assist \/ Register \/ Cleanup
    <2>1. busy' = busy
      BY <1>5 DEF Wakes, Top, Cycle, Gnss, Fixing, Number, Upload, Apply, Ack, Poll, Close, After,
                  Sleep, Assist, Register, Cleanup, Worker
    <2>2. pc \in {"idle", "woken"} <=> pc' \in {"idle", "woken"}
      BY <1>5 DEF Wakes, Top, Cycle, Gnss, Fixing, Number, Upload, Apply, Ack, Poll, Close, After,
                  Sleep, Assist, Register, Cleanup, AfterFix
    <2> QED BY <2>1, <2>2
  <1> QED BY <1>1, <1>2, <1>3, <1>4, <1>5 DEF Next, WorkerStep

\* What a request leaves of the commands' states, and the command it brings.
LEMMA Claims ==
    ASSUME NEW given \in [Commands -> States], Claimed(given)
    PROVE  /\ status' \in [Commands -> States] /\ asked' = asked
           /\ \A c \in Commands : given[c] # "none" => status'[c] # "none"
           /\ \A c \in Commands : status'[c] = "acked" => given[c] = "acked"
  BY DEF Claimed, States

LEMMA FirstIsQueued ==
    ASSUME NEW given \in [Commands -> States]
    PROVE  First(given) = 0 \/ (First(given) \in Commands /\ given[First(given)] # "none")
  BY DEF First

LEMMA CommandNumbers ==
    /\ {MaxCommands, MaxPolls, LostMax} \subseteq Nat
    /\ Commands \subseteq 0 .. MaxCommands /\ 0 \in 0 .. MaxCommands /\ 0 \notin Commands
    /\ \A c \in 0 .. MaxCommands : c # 0 => c \in Commands
    /\ Initial \in Profiles /\ Fallback \in Profiles
  BY WalterAssumption DEF Commands

CloudInv == CloudTypes /\ AckInForce

\* A request to the cloud that the worker makes.
LEMMA ClaimedStep ==
    ASSUME CloudInv, CloudTypes', Claimed(status), NEW answer \in BOOLEAN, Answered(answer),
           pc' # "ack"
    PROVE  AckInForce'
  <1>1. First(status) = 0 \/ (First(status) \in Commands /\ status[First(status)] # "none")
    BY FirstIsQueued DEF CloudInv, CloudTypes
  <1>2. held' = 0 \/ (held' \in Commands /\ status[held'] # "none")
    BY <1>1 DEF Answered
  <1> QED BY <1>2, Claims, CommandNumbers DEF CloudInv, CloudTypes, AckInForce

\* A step that changes neither the commands nor the profile, and does not come to an
\* acknowledgement.
LEMMA CloudKept ==
    ASSUME CloudInv, UNCHANGED <<profile, lastId, held, asked, status>>, pc' # "ack" \/ pc' = pc,
           lostAge' \in 0 .. LostMax, polls' \in 0 .. MaxPolls
    PROVE  CloudInv'
  BY DEF CloudInv, CloudTypes, AckInForce

\* The same, and the command at hand is given up.
LEMMA CloudDropped ==
    ASSUME CloudInv, UNCHANGED <<profile, lostAge, lastId, asked, status>>, held' = 0, pc' # "ack",
           polls' \in 0 .. MaxPolls
    PROVE  CloudInv'
  BY CommandNumbers DEF CloudInv, CloudTypes, AckInForce

LEMMA ApplyStep == ASSUME CloudInv, Apply PROVE CloudInv'
  <1> USE DEF CloudInv, CloudTypes, AckInForce
  <1>1. held' = held /\ UNCHANGED <<polls, cloud>> /\ pc' \in {"poll", "ack"}
    BY DEF Apply
  <1>2. CASE UNCHANGED mode /\ pc' = "poll"
    BY <1>1, <1>2 DEF mode, cloud
  <1>3. CASE ~(UNCHANGED mode /\ pc' = "poll")
    <2>1. /\ held # 0
          /\ \/ /\ UNCHANGED mode /\ lastId = held /\ profile = asked[held]
             \/ profile' = asked[held] /\ lostAge' = 0 /\ lastId' = held
      BY <1>3 DEF Apply, StillInForce, Keeps
    <2> QED BY <1>1, <2>1, CommandNumbers DEF mode, cloud
  <1> QED BY <1>2, <1>3

LEMMA AckStep == ASSUME CloudInv, Ack PROVE CloudInv'
  <1>1. held' = 0 /\ pc' = "poll" /\ UNCHANGED <<mode, polls>>
    BY DEF Ack
  <1>2. status' \in [Commands -> States] /\ asked' = asked
    <2> DEFINE done == IF status[held] \in {"pending", "sent"}
                       THEN [status EXCEPT ![held] = "acked"] ELSE status
    <2>1. UNCHANGED cloud \/ Claimed(done)
      BY DEF Ack
    <2>2. done \in [Commands -> States]
      BY DEF CloudInv, CloudTypes, States
    <2> HIDE DEF done
    <2> QED BY <2>1, <2>2, Claims DEF CloudInv, CloudTypes, cloud
  <1> QED BY <1>1, <1>2, CommandNumbers DEF CloudInv, CloudTypes, AckInForce, mode

LEMMA QueueStep ==
    ASSUME CloudInv, NEW c \in Commands, Expire(c) \/ \E p \in Profiles : Queue(c, p)
    PROVE  CloudInv'
  <1>1. UNCHANGED <<mode, listening, pc>>
    BY DEF Expire, Queue
  <1>2. /\ status' \in [Commands -> States] /\ asked' \in [Commands -> Profiles]
        /\ \A d \in Commands : status[d] # "none" =>
              status'[d] # "none" /\ asked'[d] = asked[d]
    BY DEF CloudInv, CloudTypes, States, Expire, Queue
  <1> QED BY <1>1, <1>2, CommandNumbers DEF CloudInv, CloudTypes, AckInForce, mode, listening

LEMMA CloudStep == RequestTypes /\ BusyMeansOut /\ CloudInv /\ [Next]_vars => CloudInv'
  <1> SUFFICES ASSUME RequestTypes, BusyMeansOut, CloudInv, [Next]_vars PROVE CloudInv'
    OBVIOUS
  <1>0. lostAge \in 0 .. LostMax /\ polls \in 0 .. MaxPolls
    BY DEF CloudInv, CloudTypes
  <1>1. CASE UNCHANGED vars
    BY <1>0, <1>1, CloudKept DEF vars, mode, listening, cloud
  <1>2. CASE Stop \/ Requests
    BY <1>0, <1>2, CloudKept DEF Stop, Requests, Console, mode, listening, cloud
  <1>3. CASE Configures
    BY <1>0, <1>3, CommandNumbers
    DEF Configures, Console, Quiet, CloudInv, CloudTypes, AckInForce, BusyMeansOut, listening, cloud
  <1>4. CASE Reboot
    <2>1. /\ profile' = Initial /\ lostAge' = 0 /\ lastId' = 0 /\ held' = 0 /\ polls' = 0
          /\ pc' = "idle" /\ UNCHANGED cloud
      BY <1>4 DEF Reboot
    <2> QED BY <2>1, CommandNumbers DEF CloudInv, CloudTypes, AckInForce, cloud
  <1>5. ASSUME NEW c \in Commands, Expire(c) \/ \E p \in Profiles : Queue(c, p) PROVE CloudInv'
    BY <1>5, QueueStep
  <1>6. CASE Top
    <2>1. profile' \in Profiles /\ pc' = "cycle" /\ UNCHANGED <<lostAge, lastId, listening, cloud>>
      BY <1>6, CommandNumbers DEF Top, CloudInv, CloudTypes
    <2> QED BY <2>1 DEF CloudInv, CloudTypes, AckInForce, listening, cloud
  <1>7. CASE Wakes \/ Cycle \/ Gnss \/ Fixing \/ Number \/ After \/ Rest
    <2>1. UNCHANGED <<mode, listening, cloud>> /\ pc' # "ack"
      BY <1>7 DEF Wakes, Cycle, Gnss, Fixing, Number, After, Rest, AfterFix
    <2> QED BY <1>0, <2>1, CloudKept DEF mode, listening, cloud
  <1>8. CASE Takes
    <2>1. UNCHANGED <<mode, listening, cloud>> /\ pc' # "ack"
      BY <1>8 DEF Takes, RequestTypes, Diagnostics
    <2> QED BY <1>0, <2>1, CloudKept DEF mode, listening, cloud
  <1>9. CASE Sleep
    <2>1. UNCHANGED <<profile, lastId, listening, cloud>> /\ pc' # "ack"
      BY <1>9 DEF Sleep, mode
    <2>2. lostAge' \in 0 .. LostMax
      BY <1>0, <1>9, WalterAssumption DEF Sleep, mode
    <2> QED BY <1>0, <2>1, <2>2, CloudKept DEF listening, cloud
  <1>10. CASE Assist \/ Register \/ Cleanup \/ Close
    <2>1. UNCHANGED <<mode, listening, cloud>> /\ pc' # "ack"
      BY <1>10 DEF Assist, Register, Cleanup, Close
    <2> QED BY <1>0, <2>1, CloudKept DEF mode, listening, cloud
  <1>11. CASE Upload
    <2>1. UNCHANGED mode /\ polls' \in 0 .. MaxPolls /\ pc' # "ack"
      BY <1>11, CommandNumbers DEF Upload
    <2>2. CASE held' = 0 /\ UNCHANGED cloud
      BY <2>1, <2>2, CommandNumbers, CloudDropped DEF mode, cloud
    <2>3. ASSUME NEW answer \in BOOLEAN, Claimed(status), Answered(answer) PROVE CloudInv'
      <3>1. held' \in 0 .. MaxCommands
        BY <2>3, FirstIsQueued, CommandNumbers DEF Answered, CloudInv, CloudTypes
      <3>2. status' \in [Commands -> States] /\ asked' = asked
        BY <2>3, Claims DEF CloudInv, CloudTypes
      <3>3. CloudTypes'
        BY <2>1, <3>1, <3>2 DEF CloudInv, CloudTypes, mode
      <3> QED BY <2>1, <2>3, <3>3, ClaimedStep DEF CloudInv
    <2> QED BY <1>11, <2>2, <2>3 DEF Upload
  <1>12. CASE Poll
    <2>1. UNCHANGED mode /\ pc' # "ack" /\ polls' \in 0 .. MaxPolls
      BY <1>0, <1>12, WalterAssumption DEF Poll
    <2>2. CASE held' = 0 /\ UNCHANGED cloud
      BY <2>1, <2>2, CommandNumbers, CloudDropped DEF mode, cloud
    <2>3. ASSUME NEW answer \in BOOLEAN, Claimed(status), Answered(answer) PROVE CloudInv'
      <3>1. held' \in 0 .. MaxCommands
        BY <2>3, FirstIsQueued, CommandNumbers DEF Answered, CloudInv, CloudTypes
      <3>2. status' \in [Commands -> States] /\ asked' = asked
        BY <2>3, Claims DEF CloudInv, CloudTypes
      <3>3. CloudTypes'
        BY <2>1, <3>1, <3>2 DEF CloudInv, CloudTypes, mode
      <3> QED BY <2>1, <2>3, <3>3, ClaimedStep DEF CloudInv
    <2> QED BY <1>12, <2>2, <2>3 DEF Poll
  <1> QED BY <1>1, <1>2, <1>3, <1>4, <1>5, <1>6, <1>7, <1>8, <1>9, <1>10, <1>11, <1>12,
             ApplyStep, AckStep DEF Next, WorkerStep

LEMMA BoundStep == BoundTypes /\ [Next]_vars => BoundTypes'
  <1> SUFFICES ASSUME BoundTypes, [Next]_vars PROVE BoundTypes'
    OBVIOUS
  <1>0. MaxChanges \in Nat /\ MaxReboots \in Nat
    BY WalterAssumption
  <1> USE DEF BoundTypes
  <1>1. CASE Requests \/ Configures \/ Reboot
    BY <1>0, <1>1 DEF Requests, Configures, Console, Reboot
  <1>2. CASE ~(Requests \/ Configures \/ Reboot)
    <2>1. UNCHANGED counts
      BY <1>2 DEF Next, WorkerStep, Stop, Expire, Queue, Wakes, Takes, Top, Cycle, Gnss, Fixing, Number,
                  Upload, Apply, Ack, Poll, Close, After, Sleep, Assist, Register, Cleanup, Rest,
                  Worker, vars
    <2> QED BY <2>1 DEF counts
  <1> QED BY <1>1, <1>2

\* Everything proved so far, together inductive.
WalterInv == TypeOK /\ NumbersInOrder /\ BusyMeansOut /\ AckInForce

LEMMA WalterInit == Init => WalterInv
  <1> SUFFICES ASSUME Init PROVE WalterInv
    OBVIOUS
  <1>1. RequestTypes
    BY DEF Init, RequestTypes, Diagnostics
  <1>2. PlaceTypes /\ RadioTypes
    BY DEF Init, PlaceTypes, RadioTypes, Places
  <1>3. ready \in BOOLEAN
    BY DEF Init
  <1>4. NumberTypes /\ NumbersInOrder
    BY <1>3 DEF Init, NumberTypes, NumbersInOrder
  <1>5. CloudTypes /\ BoundTypes
    BY WalterAssumption, CommandNumbers DEF Init, CloudTypes, BoundTypes, States
  <1>6. BusyMeansOut /\ AckInForce
    BY DEF Init, BusyMeansOut, AckInForce
  <1> QED BY <1>1, <1>2, <1>4, <1>5, <1>6, TypeParts DEF WalterInv

LEMMA WalterStep == WalterInv /\ [Next]_vars => WalterInv'
  <1> SUFFICES ASSUME WalterInv, [Next]_vars PROVE WalterInv'
    OBVIOUS
  <1>1. /\ RequestTypes /\ PlaceTypes /\ RadioTypes /\ BoundTypes /\ NumbersInv /\ CloudInv
        /\ BusyMeansOut
    BY TypeParts DEF WalterInv, NumbersInv, CloudInv
  <1>2. /\ RequestTypes' /\ PlaceTypes' /\ RadioTypes' /\ BoundTypes' /\ NumbersInv' /\ CloudInv'
        /\ BusyMeansOut'
    BY <1>1, RequestTypesStep, PlaceTypesStep, RadioTypesStep, BoundStep, NumbersStep, CloudStep,
       BusyStep
  <1>3. TypeOK'
    BY <1>2, TypeParts, PTL DEF NumbersInv, CloudInv
  <1> QED BY <1>2, <1>3 DEF WalterInv, NumbersInv, CloudInv

LEMMA WalterInvariance == Spec => []WalterInv
  <1> QED BY WalterInit, WalterStep, PTL DEF Spec

\* Every variable keeps its type, for every set of profiles and any bounds.
THEOREM TypeCorrect == Spec => []TypeOK
  <1> QED BY WalterInvariance, PTL DEF WalterInv

\* A command becomes acknowledged only in the step of the acknowledgement.
LEMMA AckedStep ==
    ASSUME WalterInv, [Next]_vars, NEW c \in Commands, status[c] # "acked", status'[c] = "acked"
    PROVE  lastId = c /\ profile = asked[c]
  <1>0. CloudTypes /\ AckInForce
    BY TypeParts DEF WalterInv
  <1>1. status # status'
    OBVIOUS
  <1>2. CASE Upload \/ Poll
    <2>1. Claimed(status) \/ UNCHANGED cloud
      BY <1>2 DEF Upload, Poll
    <2> QED BY <1>0, <1>1, <2>1, Claims DEF CloudTypes, cloud
  <1>3. CASE Ack
    <2> DEFINE done == IF status[held] \in {"pending", "sent"}
                       THEN [status EXCEPT ![held] = "acked"] ELSE status
    <2>1. pc = "ack" /\ (UNCHANGED cloud \/ Claimed(done))
      BY <1>3 DEF Ack
    <2>2. done \in [Commands -> States] /\ (c # held => done[c] = status[c])
      BY <1>0 DEF CloudTypes, States
    <2> HIDE DEF done
    <2>3. c = held
      BY <1>1, <2>1, <2>2, Claims DEF cloud
    <2> QED BY <1>0, <2>1, <2>3 DEF AckInForce
  <1>4. ASSUME NEW d \in Commands, Expire(d) \/ \E p \in Profiles : Queue(d, p) PROVE FALSE
    BY <1>0, <1>4 DEF Expire, Queue, CloudTypes
  <1>5. CASE \/ Stop \/ Requests \/ Configures \/ Reboot \/ UNCHANGED vars
            \/ Wakes \/ Takes \/ Top \/ Cycle \/ Gnss \/ Fixing \/ Number \/ Apply \/ Close
            \/ After \/ Sleep \/ Assist \/ Register \/ Cleanup \/ Rest
    <2>1. UNCHANGED cloud
      BY <1>5 DEF Stop, Requests, Configures, Console, Reboot, Wakes, Takes, Top, Cycle, Gnss, Fixing,
                  Number, Apply, Close, After, Sleep, Assist, Register, Cleanup, Rest, vars
    <2> QED BY <1>1, <2>1 DEF cloud
  <1> QED BY <1>2, <1>3, <1>4, <1>5 DEF Next, WorkerStep

\* When the cloud marks a command acknowledged the collar runs what it asked for and has
\* heard no later one, for any number of commands, repeated, cancelled and expired in
\* any order (pollPendingCloudCommand: the check against the profile in use comes before
\* the ACK).
THEOREM AckedTruly == Spec => AckedInForce
  <1>1. WalterInv /\ [Next]_vars =>
           [\A c \in Commands : status[c] # "acked" /\ status'[c] = "acked"
               => lastId = c /\ profile = asked[c]]_vars
    BY AckedStep
  <1> QED BY <1>1, WalterInvariance, PTL DEF Spec, AckedInForce
-----------------------------------------------------------------------------
(* The radios.                                                             *)

\* The console makes one request at a time, and makes none while one is served.
OneRequest ==
    /\ busy => ~oneShot /\ inspect = "none"
    /\ oneShot => ~running /\ inspect = "none"
    /\ inspect # "none" => ~running
    /\ running /\ busy => job = "session"

\* The parts of a cycle in which radios are used.
Doing == {"gnss", "fixing", "number", "upload", "apply", "ack", "poll", "close", "after"}

Clean == ~gnss /\ ~lte

\* Only a reset leaves a radio on behind the worker's back; the modem is reset with it
\* when the library is begun, which is before the first use.
RadiosApart == ~(gnss /\ lte)
GnssHeld == gnss => pc = "fixing" \/ cancel \/ ~begun
Before == running /\ ~cancel /\ pc \in {"idle", "woken", "top", "cycle"} =>
             Clean \/ (~offline /\ ~clock /\ ~begun /\ (pc \in {"top", "cycle"} => boot))
During == running /\ ~cancel /\ pc \in Doing => (gnss \/ lte => begun) /\ (offline => ~lte)
Uploading == running /\ pc \in {"upload", "apply", "ack", "poll", "close"} => ~offline
Asleep == pc = "sleep" => Clean

RadioInv == RadiosApart /\ GnssHeld /\ Before /\ During /\ Uploading /\ Asleep

Flags == RequestTypes /\ PlaceTypes /\ RadioTypes /\ BusyMeansOut

LEMMA OneRequestStep == Flags /\ OneRequest /\ [Next]_vars => OneRequest'
  <1> SUFFICES ASSUME Flags, OneRequest, [Next]_vars PROVE OneRequest'
    OBVIOUS
  <1> USE DEF OneRequest
  <1>1. CASE Stop
    BY <1>1 DEF Stop
  <1>2. CASE Requests
    BY <1>2 DEF Requests, Console, Quiet
  <1>3. CASE Reboot
    BY <1>3 DEF Reboot
  <1>4. CASE Takes
    <2>1. UNCHANGED running
      BY <1>4 DEF Takes
    <2>2. CASE inspect # "none"
      BY <1>4, <2>2 DEF Takes
    <2>3. CASE inspect = "none"
      BY <1>4, <2>3 DEF Takes
    <2> QED BY <2>2, <2>3
  <1>5. CASE Rest
    BY <1>5 DEF Rest
  <1>6. CASE Cycle \/ Fixing \/ Number \/ After
    <2>1. UNCHANGED <<oneShot, inspect, busy, job>>
      BY <1>6 DEF Cycle, Fixing, Number, After
    <2>2. running' = running \/ running' = FALSE
      BY <1>6 DEF Cycle, Fixing, Number, After, Unconfirmed, NotOff
    <2> QED BY <2>1, <2>2
  <1>7. CASE \/ Configures \/ UNCHANGED vars
             \/ \E c \in Commands : Expire(c) \/ \E p \in Profiles : Queue(c, p)
             \/ Wakes \/ Top \/ Gnss \/ Upload \/ Apply \/ Ack \/ Poll \/ Close \/ Sleep \/ Assist
             \/ Register \/ Cleanup
    <2>1. UNCHANGED <<running, oneShot, inspect, busy, job>>
      BY <1>7 DEF Configures, Console, Expire, Queue, vars, Wakes, Top, Gnss, Upload, Apply, Ack, Poll,
                  Close, Sleep, Assist, Register, Cleanup, Worker, requests
    <2> QED BY <2>1
  <1> QED BY <1>1, <1>2, <1>3, <1>4, <1>5, <1>6, <1>7 DEF Next, WorkerStep

\* A step that leaves the radios alone and goes on within a cycle, or ends it.
LEMMA RadioKept ==
    ASSUME RadioInv, UNCHANGED <<begun, lte, gnss>>, running' => running, UNCHANGED <<cancel, offline>>,
           pc # "fixing",
           \/ pc' \in {"rest", "cleanup", "assist", "register"}
           \/ pc \in Doing /\ pc' \in Doing /\ (pc' = "upload" /\ running' => ~offline)
              /\ (pc' \in {"apply", "ack", "poll", "close"} =>
                     pc \in {"upload", "apply", "ack", "poll", "close"})
    PROVE  RadioInv'
  BY DEF RadioInv, RadiosApart, GnssHeld, Before, During, Uploading, Asleep, Clean, Doing

\* beginModem: a modem the library was not begun on is reset, and its radios end.
LEMMA Begun ==
    ASSUME begun \in BOOLEAN, begun' \in {begun, TRUE}, gnss' = (gnss /\ begun)
    PROVE  (begun => begun') /\ (gnss' => gnss /\ begun)
  <1>1. CASE begun' = TRUE
    BY <1>1
  <1>2. CASE begun' = begun
    BY <1>2
  <1> QED BY <1>1, <1>2

LEMMA RadioStep == Flags /\ OneRequest /\ RadioInv /\ [Next]_vars => RadioInv'
  <1> SUFFICES ASSUME Flags, OneRequest, RadioInv, [Next]_vars PROVE RadioInv'
    OBVIOUS
  <1>0. /\ running \in BOOLEAN /\ cancel \in BOOLEAN /\ offline \in BOOLEAN /\ begun \in BOOLEAN
        /\ lte \in BOOLEAN /\ gnss \in BOOLEAN /\ boot \in BOOLEAN /\ clock \in BOOLEAN
        /\ inspect \in {"gnss", "lte", "assist", "register", "none"}
        /\ running' \in BOOLEAN /\ begun' \in BOOLEAN /\ lte' \in BOOLEAN /\ gnss' \in BOOLEAN
    BY RequestTypesStep, RadioTypesStep
    DEF Flags, RequestTypes, PlaceTypes, RadioTypes, Diagnostics
  <1> USE DEF RadioInv, RadiosApart, GnssHeld, Before, During, Uploading, Asleep, Clean, Doing
  <1>1. CASE UNCHANGED vars
    BY <1>1 DEF vars, requests, settings, session, radios
  <1>2. CASE Stop
    BY <1>0, <1>2 DEF Stop, session, radios
  <1>3. CASE Requests
    <2>1. /\ gnss' = FALSE /\ lte' = FALSE /\ pc' = pc /\ busy = FALSE
      BY <1>3 DEF Requests, Console, Quiet, Flags, RequestTypes
    <2> QED BY <2>1 DEF Flags, BusyMeansOut
  <1>4. CASE Configures
    <2>1. running = FALSE /\ pc \in {"idle", "woken"} /\ UNCHANGED <<running, cancel, pc, radios>>
      BY <1>0, <1>4 DEF Configures, Console, Quiet, Flags, BusyMeansOut, requests, radios
    <2> QED BY <2>1 DEF radios
  <1>5. CASE Reboot
    BY <1>0, <1>5 DEF Reboot
  <1>6. ASSUME NEW c \in Commands, Expire(c) \/ \E p \in Profiles : Queue(c, p) PROVE RadioInv'
    BY <1>6 DEF Expire, Queue, requests, settings, session, radios
  <1>7. CASE Wakes
    BY <1>7 DEF Wakes, requests, settings, session, radios
  <1>8. CASE Takes
    <2>1. /\ pc = "woken" /\ UNCHANGED <<running, cancel, settings, clock, radios>>
      BY <1>8 DEF Takes
    <2>2. CASE inspect # "none"
      <3>1. running = FALSE /\ pc' # "sleep"
        BY <1>0, <1>8, <2>2 DEF Takes, OneRequest
      <3>2. gnss => cancel \/ ~begun
        BY <2>1
      <3> QED BY <2>1, <3>1, <3>2 DEF radios
    <2>3. CASE inspect = "none"
      <3>1. boot' = TRUE /\ pc' = "top"
        BY <1>8, <2>3 DEF Takes
      <3> QED BY <2>1, <3>1 DEF radios, settings
    <2> QED BY <2>2, <2>3
  <1>9. CASE Top
    BY <1>9 DEF Top, requests, settings, session, radios
  <1>11. CASE Gnss
    <2>1. /\ pc = "gnss" /\ UNCHANGED <<running, cancel, offline>>
          /\ pc' \in {"fixing", "number", "cleanup"}
      BY <1>11 DEF Gnss, requests, settings, AfterFix
    <2>2. CASE UNCHANGED radios /\ pc' = "number"
      BY <1>0, <2>1, <2>2 DEF radios
    <2>3. CASE ~(UNCHANGED radios /\ pc' = "number")
      <3>1. PICK off \in BOOLEAN :
               /\ (begun => begun') /\ (lte' => lte /\ begun /\ ~off)
               /\ \/ off /\ begun' /\ gnss' = TRUE /\ pc' = "fixing"
                  \/ pc' # "fixing" /\ (gnss' => gnss /\ begun)
        BY <1>11, <2>3 DEF Gnss, Fixes, AfterFix
      <3> QED BY <1>0, <2>1, <3>1
    <2> QED BY <2>2, <2>3
  <1>12. CASE Fixing
    <2>1. /\ pc = "fixing" /\ pc' \in {"number", "cleanup"} /\ UNCHANGED <<offline, begun, lte>>
          /\ \/ gnss' = FALSE /\ UNCHANGED <<running, cancel>>
             \/ running' = FALSE /\ cancel' = TRUE /\ UNCHANGED gnss
      BY <1>12 DEF Fixing, Unconfirmed, AfterFix, settings
    <2> QED BY <1>0, <2>1
  <1>13. CASE Number
    <2>1. /\ pc = "number" /\ pc' \in {"after", "cleanup", "upload"}
          /\ (running' => running) /\ UNCHANGED <<cancel, offline, begun, lte, gnss>>
      BY <1>13 DEF Number, settings, radios
    <2>2. running' /\ pc' = "upload" => ~offline
      BY <1>0, <1>13 DEF Number, OneRequest, Flags, BusyMeansOut, RequestTypes
    <2> QED BY <2>1, <2>2, RadioKept
  <1>14. CASE Upload
    <2>1. /\ pc = "upload" /\ pc' \in {"close", "apply"} /\ UNCHANGED <<running, cancel, offline>>
          /\ begun' \in {begun, TRUE} /\ gnss' = (gnss /\ begun)
          /\ \/ lte' = (lte /\ begun)
             \/ begun' /\ ~cancel /\ lte' = TRUE
      BY <1>14 DEF Upload, Worker, requests, settings
    <2>2. (begun => begun') /\ (gnss' => gnss /\ begun)
      BY <1>0, <2>1, Begun
    <2>3. (lte' => lte /\ begun) \/ (begun' /\ ~cancel)
      BY <2>1
    <2> QED BY <1>0, <2>1, <2>2, <2>3
  <1>15. CASE Apply \/ Ack \/ Poll \/ Close
    <2>1. /\ UNCHANGED <<running, cancel, offline, begun, lte, gnss>>
          /\ \/ pc = "apply" /\ pc' \in {"poll", "ack"}
             \/ pc = "ack" /\ pc' = "poll"
             \/ pc = "poll" /\ pc' \in {"close", "apply"}
             \/ pc = "close" /\ pc' \in {"cleanup", "after"}
      BY <1>15 DEF Apply, Ack, Poll, Close, Worker, requests, settings, radios
    <2> QED BY <2>1, RadioKept
  <1>16. CASE After
    <2>1. /\ pc = "after" /\ UNCHANGED <<cancel, offline, begun, gnss>>
          /\ \/ (offline \/ ~begun) /\ UNCHANGED <<running, lte>>
             \/ ~offline /\ begun /\ lte' = FALSE /\ UNCHANGED running
             \/ running' = FALSE /\ UNCHANGED lte
      BY <1>16 DEF After, NotOff, settings
    <2>2. pc' \in {"rest", "sleep"} /\ (pc' = "sleep" => ~cancel /\ running')
      BY <1>16 DEF After, Rests
    <2>3. running' => running
      BY <2>1
    <2> QED BY <1>0, <2>1, <2>2, <2>3
  <1>17. CASE Sleep
    <2>1. /\ pc = "sleep" /\ UNCHANGED <<running, cancel, radios>> /\ pc' \in {"rest", "top"}
      BY <1>17 DEF Sleep, Worker, requests
    <2> QED BY <1>0, <2>1 DEF radios
  <1>18. CASE Assist
    <2>1. /\ pc = "assist" /\ pc' = "cleanup" /\ UNCHANGED <<cancel>>
          /\ begun' \in {begun, TRUE} /\ gnss' = (gnss /\ begun)
          /\ lte' \in (IF begun' /\ ~cancel THEN BOOLEAN ELSE {lte /\ begun})
      BY <1>18 DEF Assist, Worker
    <2>2. (begun => begun') /\ (gnss' => gnss /\ begun)
      BY <1>0, <2>1, Begun
    <2>3. ~cancel \/ (lte' => lte /\ begun)
      BY <2>1
    <2> QED BY <1>0, <2>1, <2>2, <2>3
  <1>19. CASE Register \/ Cleanup \/ Rest
    <2>1. /\ pc' = "rest" \/ (pc' = "idle" /\ running' = FALSE /\ pc = "rest")
          /\ UNCHANGED <<cancel, begun>> /\ pc # "fixing"
          /\ \/ ~gnss'
             \/ UNCHANGED gnss /\ (lte' => lte)
      BY <1>0, <1>19 DEF Register, Cleanup, Rest, Worker, radios
    <2> QED BY <1>0, <2>1
  <1>20. CASE Cycle
    <2>1. pc = "cycle" /\ UNCHANGED <<cancel, offline>>
      BY <1>20 DEF Cycle, settings
    <2>2. CASE pc' = "after" /\ UNCHANGED radios /\ ~(running' /\ ~cancel')
      BY <2>1, <2>2 DEF radios
    <2>3. CASE pc' = "after" /\ UNCHANGED radios /\ UNCHANGED running /\ ~cancel /\ ~boot
      BY <2>1, <2>3 DEF radios
    <2>4. CASE /\ ~offline /\ ~cancel /\ pc' \in {"after", "gnss"} /\ UNCHANGED running
               /\ begun' \in {begun, TRUE} /\ gnss' = (gnss /\ begun)
               /\ lte' \in (IF begun' THEN BOOLEAN ELSE {FALSE})
      <3>1. (begun => begun') /\ (gnss' => gnss /\ begun)
        BY <1>0, <2>4, Begun
      <3>2. lte' => begun'
        BY <2>4
      <3> QED BY <1>0, <2>1, <2>4, <3>1, <3>2
    <2>5. CASE clock /\ ~cancel /\ pc' = "gnss" /\ UNCHANGED radios /\ UNCHANGED running
      BY <2>1, <2>5 DEF radios
    <2>6. \A d \in Decide : running /\ ~d[1] => ~boot
      <3>1. running => job = "session"
        BY <2>1 DEF Flags, BusyMeansOut, OneRequest
      <3>2. running /\ boot => Decide = {<<TRUE, TRUE, FALSE>>}
        BY <3>1 DEF Decide
      <3>3. ASSUME NEW d \in Decide, running, boot PROVE d[1] = TRUE
        <4>1. d = <<TRUE, TRUE, FALSE>>
          BY <3>2, <3>3
        <4> QED BY <4>1
      <3> QED BY <3>3
    <2>7. CASE cancel
      BY <1>20, <2>2, <2>7 DEF Cycle
    <2>8. CASE ~cancel
      <3>1. PICK d \in Decide :
              \/ ~d[1] /\ pc' = "after" /\ UNCHANGED <<running, radios>>
              \/ running' = FALSE /\ pc' = "after" /\ UNCHANGED radios
              \/ /\ ~offline /\ begun' \in {begun, TRUE} /\ gnss' = (gnss /\ begun)
                 /\ lte' \in (IF begun' THEN BOOLEAN ELSE {FALSE})
                 /\ pc' \in {"after", "gnss"} /\ UNCHANGED running
              \/ clock /\ pc' = "gnss" /\ UNCHANGED <<running, radios>>
        BY <1>20, <2>8 DEF Cycle
      <3>2. CASE ~d[1] /\ pc' = "after" /\ UNCHANGED <<running, radios>>
        BY <1>0, <2>2, <2>3, <2>6, <2>8, <3>2
      <3>3. CASE running' = FALSE /\ pc' = "after" /\ UNCHANGED radios
        BY <2>2, <3>3
      <3> QED BY <2>4, <2>5, <2>8, <3>1, <3>2, <3>3
    <2> QED BY <2>7, <2>8
  <1> QED BY <1>1, <1>2, <1>3, <1>4, <1>5, <1>6, <1>7, <1>8, <1>9, <1>11, <1>12, <1>13, <1>14,
             <1>15, <1>16, <1>17, <1>18, <1>19, <1>20 DEF Next, WorkerStep
LEMMA RadiosInvariance == Spec => [](WalterInv /\ OneRequest /\ RadioInv)
  <1>1. Init => OneRequest
    BY DEF Init, OneRequest
  <1>2. Init => RadioInv
    BY DEF Init, RadioInv, RadiosApart, GnssHeld, Before, During, Uploading, Asleep, Clean, Doing
  <1>3. WalterInv => Flags
    BY TypeParts DEF WalterInv, Flags
  <1> QED BY <1>1, <1>2, <1>3, OneRequestStep, RadioStep, WalterInit, WalterStep, PTL DEF Spec

\* GNSS and LTE never run together and neither runs while the collar sleeps, whatever a
\* modem call did not confirm and at whatever point the console stopped the worker
\* (settleGnss, networkOn, networkOff, worker).
THEOREM RadiosTakeTurns == Spec => []OneRadio
  <1>1. RadioInv => OneRadio
    BY DEF RadioInv, RadiosApart, Asleep, Clean, OneRadio
  <1> QED BY <1>1, RadiosInvariance, PTL
=============================================================================
