----------------------------- MODULE JournalRelay -----------------------------
(***************************************************************************)
(* What the Home Hub does with the packets it hears                        *)
(* (hub/platformio/src/offline_journal.cpp; handlePacket, storageTask,     *)
(* cloudTask, replayPendingJournal and applyJournalVerification of         *)
(* hub/platformio/src/main.cpp).                                           *)
(*                                                                         *)
(* The LoRa task gives a packet a local id and queues it for the storage   *)
(* task, which writes it to the collar's circular file and, when the       *)
(* profile allows, queues it for the cloud task.  The cloud task posts it  *)
(* and writes the verdict into the record; when it has nothing to post it  *)
(* replays the oldest pending records in one batch.  Queues are in RAM,    *)
(* the journal is in flash, and the hub may lose power at any point.       *)
(***************************************************************************)
EXTENDS Integers, Sequences, FiniteSets, Functions

CONSTANTS
    Collars,
    PerDevice,    \* BP_JOURNAL_PER_DEVICE: slots of a collar's file
    MaxDevices,   \* BP_JOURNAL_MAX_DEVICES: collars the replay looks at
    StorageLen,   \* STORAGE_QUEUE_SIZE
    CloudLen,     \* CLOUD_QUEUE_SIZE
    BatchLen,     \* records in one replay request
    Kinds,        \* the kinds of packet that are heard
    MaxPackets,   \* bound: packets in a run
    MaxCrashes,   \* bound: power losses in a run
    Faults        \* what may fail: "number", "append", "update" (the journal's mutex,
                  \* or a write), "auth" (the cloud refuses this hub for a time)

ASSUME JournalAssumption ==
    /\ IsFiniteSet(Collars)
    /\ {PerDevice, MaxDevices, StorageLen, CloudLen, BatchLen} \subseteq Nat \ {0}
    /\ {MaxPackets, MaxCrashes} \subseteq Nat
    /\ Kinds \subseteq {"good", "refused", "malformed"}
    /\ Faults \subseteq {"number", "append", "update", "auth"}

VARIABLES
    journal,       \* flash: the slots of each collar's file
    nextId,        \* RAM: OfflineJournal::nextId_
    deviceIds,     \* RAM: OfflineJournal::deviceIds_
    storageQueue,  \* records on their way to flash
    storage,       \* storageTask: where it is, and the record in its hands
    cloudQueue,    \* records on their way to the cloud
    relay,         \* cloudTask: where it is
    inFlight,      \* the records of its request
    toMark,        \* verdicts it has still to write
    relayProfile,  \* hubProfileAllowsCloudRelay()
    online,        \* hubConnectivity.wifi_connected
    answered,      \* history: packet and verdict, the answers of the cloud
    received,      \* packets heard so far
    crashes,       \* power losses so far
    written        \* history: records written for each collar

vars == <<journal, nextId, deviceIds, storageQueue, storage, cloudQueue, relay, inFlight,
          toMark, relayProfile, online, answered, received, crashes, written>>
environment == <<relayProfile, online, received, crashes>>

Slots == 0 .. PerDevice - 1
Packets == 1 .. MaxPackets
Ids == 1 .. MaxPackets
Verdicts == {"validated", "rejected"}
Records == [id : Ids \union {0}, source : Collars, packet : Packets, kind : Kinds,
            sync : Verdicts \union {"pending"}]
Empty == [id |-> 0, source |-> {}, packet |-> 0, kind |-> "none", sync |-> "none"]

HasRoom(queue, length) == Len(queue) < length

\* What is in flash, and valid() accepts.
InJournal == (UNION {{journal[c][s] : s \in Slots} : c \in Collars}) \ {Empty}

Init ==
    /\ journal = [c \in Collars |-> [s \in Slots |-> Empty]]
    /\ nextId = 1
    /\ deviceIds = {}
    /\ storageQueue = <<>>
    /\ storage = [at |-> "idle", record |-> Empty]
    /\ cloudQueue = <<>>
    /\ relay = "idle"
    /\ inFlight = {}
    /\ toMark = {}
    /\ relayProfile \in BOOLEAN
    /\ online = FALSE
    /\ answered = {}
    /\ received = 0
    /\ crashes = 0
    /\ written = [c \in Collars |-> 0]
-----------------------------------------------------------------------------
(* The LoRa task: handlePacket.  A full queue leaves the packet in RAM only *)
(* (the table of the web page, which is not modelled).                     *)

\* nextLocalId() waits 100 ms for the journal's mutex.  While another task has it
\* the answer may be 0, and the packet goes on with the local id 0.
MutexHeld == storage.at = "append" \/ relay = "mark"

NextLocalId(id) ==
    \/ id = nextId /\ nextId' = nextId + 1
    \/ "number" \in Faults /\ MutexHeld /\ id = 0 /\ UNCHANGED nextId

HearPacket(c, kind) ==
    /\ received < MaxPackets
    /\ received' = received + 1
    /\ \E id \in Ids \union {0} :
         /\ NextLocalId(id)
         /\ storageQueue' = IF HasRoom(storageQueue, StorageLen)
                            THEN Append(storageQueue,
                                        [id |-> id, source |-> c, kind |-> kind,
                                         packet |-> received + 1, sync |-> "pending"])
                            ELSE storageQueue
    /\ UNCHANGED <<journal, deviceIds, storage, cloudQueue, relay, inFlight, toMark,
                   relayProfile, online, answered, crashes, written>>
-----------------------------------------------------------------------------
(* storageTask and OfflineJournal::append.                                 *)

StorageTake ==
    /\ storage.at = "idle"
    /\ storageQueue # <<>>
    /\ storage' = [at |-> "append", record |-> Head(storageQueue)]
    /\ storageQueue' = Tail(storageQueue)
    /\ UNCHANGED <<journal, nextId, deviceIds, cloudQueue, relay, inFlight, toMark, answered,
                   environment, written>>

SlotOf(record) == record.id % PerDevice

Write(record) == journal' = [journal EXCEPT ![record.source][SlotOf(record)] = record]

\* The replay looks only at the files of devices it has noted.
Noted(c) == IF Cardinality(deviceIds) < MaxDevices THEN deviceIds \union {c} ELSE deviceIds

StorageAppend ==
    /\ storage.at = "append"
    /\ Write(storage.record)
    /\ deviceIds' = Noted(storage.record.source)
    /\ written' = [written EXCEPT ![storage.record.source] = @ + 1]
    /\ storage' = [storage EXCEPT !.at = "relay"]
    /\ UNCHANGED <<nextId, storageQueue, cloudQueue, relay, inFlight, toMark, answered,
                   environment>>

\* The mutex is not got in time, or the write fails: the record is lost.
StorageFails ==
    /\ storage.at = "append"
    /\ "append" \in Faults
    /\ deviceIds' \in {deviceIds, Noted(storage.record.source)}
    /\ storage' = [at |-> "idle", record |-> Empty]
    /\ UNCHANGED <<journal, nextId, storageQueue, cloudQueue, relay, inFlight, toMark,
                   answered, environment, written>>

\* Once durable, a packet may enter the live queue; a full one drops it.
StorageRelay ==
    /\ storage.at = "relay"
    /\ cloudQueue' = IF relayProfile /\ HasRoom(cloudQueue, CloudLen)
                     THEN Append(cloudQueue, storage.record) ELSE cloudQueue
    /\ storage' = [at |-> "idle", record |-> Empty]
    /\ UNCHANGED <<journal, nextId, deviceIds, storageQueue, relay, inFlight, toMark, answered,
                   environment, written>>
-----------------------------------------------------------------------------
(* cloudTask: one live packet.                                             *)

LiveTake ==
    /\ relay = "idle"
    /\ cloudQueue # <<>>
    /\ cloudQueue' = Tail(cloudQueue)
    /\ IF relayProfile /\ online
       THEN inFlight' = {Head(cloudQueue)} /\ relay' = "live"
       ELSE UNCHANGED <<inFlight, relay>>
    /\ UNCHANGED <<journal, nextId, deviceIds, storageQueue, storage, toMark, answered,
                   environment, written>>

Verdict(record, sync) == [record |-> record, sync |-> sync]
Judged(record) == IF record.kind = "good" THEN "validated" ELSE "rejected"
AnswersOf(marks) == {<<m.record.packet, m.sync>> : m \in marks}

Answer(marks) ==
    /\ answered' = answered \union AnswersOf(marks)
    /\ toMark' = marks
    /\ relay' = "mark"

\* The cloud's answer arrives: accepted (or a duplicate), or refused for good.
\* Every 4xx but 408 and 429 is taken as final, also one about the hub itself.
LiveAnswered ==
    /\ relay = "live"
    /\ online
    /\ \E r \in inFlight, sync \in Verdicts :
         /\ sync = Judged(r) \/ (sync = "rejected" /\ "auth" \in Faults)
         /\ Answer({Verdict(r, sync)})
    /\ inFlight' = {}
    /\ UNCHANGED <<journal, nextId, deviceIds, storageQueue, storage, cloudQueue, environment,
                   written>>

\* No answer, or one that gives no verdict; the cloud may have recorded packets.
PostFails ==
    /\ relay \in {"live", "replay"}
    /\ relay' = "idle"
    /\ inFlight' = {}
    /\ UNCHANGED <<journal, nextId, deviceIds, storageQueue, storage, cloudQueue, toMark,
                   answered, environment, written>>
-----------------------------------------------------------------------------
(* cloudTask: the replay, when no live packet has come for five seconds.   *)

Replayable == {r \in InJournal : r.sync = "pending" /\ r.source \in deviceIds}

\* The oldest pending records, by local id, as many as a batch has room for.
Oldest(records) ==
    {batch \in SUBSET records :
       /\ Cardinality(batch) = BatchLen
            \/ (batch = records /\ Cardinality(records) < BatchLen)
       /\ \A r \in batch, q \in records \ batch : r.id <= q.id}

ReplayBegin ==
    /\ relay = "idle"
    /\ cloudQueue = <<>>
    /\ relayProfile /\ online
    /\ Replayable # {}
    /\ inFlight' \in Oldest(Replayable)
    /\ relay' = "replay"
    /\ UNCHANGED <<journal, nextId, deviceIds, storageQueue, storage, cloudQueue, toMark,
                   answered, environment, written>>

\* The cloud checks the whole batch before it records any of it: one record that
\* has no number or cannot be decoded and the answer is a 400, without verdicts
\* (PostFails).  Then each record has a status of its own: some may be "retryable",
\* those get no verdict.
Refused(r) == r.id = 0 \/ r.kind = "malformed"

ReplayAnswered ==
    /\ relay = "replay"
    /\ online
    /\ \A r \in inFlight : ~Refused(r)
    /\ \E decided \in SUBSET inFlight :
         decided # {} /\ Answer({Verdict(r, Judged(r)) : r \in decided})
    /\ inFlight' = {}
    /\ UNCHANGED <<journal, nextId, deviceIds, storageQueue, storage, cloudQueue, environment,
                   written>>
-----------------------------------------------------------------------------
(* applyJournalVerification and OfflineJournal::updateSyncState: one record *)
(* after the other.  Since it was read, the record may have been replaced. *)

First(marks) == {m \in marks : \A n \in marks : m.record.id <= n.record.id}

\* locate() compares the id.  (_BySlot: the slot is trusted.)
Located_BySlot(m) ==
    {s \in Slots : s = SlotOf(m.record) /\ journal[m.record.source][s] # Empty}
Located(m) ==
    {s \in Slots : LET r == journal[m.record.source][s]
                   IN  r # Empty /\ r.id = m.record.id}

MarkedJournal(m) ==
    [journal EXCEPT ![m.record.source] =
       [s \in Slots |-> IF s \in Located(m) THEN [@[s] EXCEPT !.sync = m.sync] ELSE @[s]]]

Done(m) ==
    /\ toMark' = toMark \ {m}
    /\ relay' = IF toMark = {m} THEN "idle" ELSE "mark"

Mark(m) ==
    /\ relay = "mark"
    /\ m \in First(toMark)
    /\ journal' = MarkedJournal(m)
    /\ Done(m)
    /\ UNCHANGED <<nextId, deviceIds, storageQueue, storage, cloudQueue, inFlight, answered,
                   environment, written>>

MarkFails(m) ==
    /\ relay = "mark"
    /\ m \in First(toMark)
    /\ "update" \in Faults
    /\ Done(m)
    /\ UNCHANGED <<journal, nextId, deviceIds, storageQueue, storage, cloudQueue, inFlight,
                   answered, environment, written>>
-----------------------------------------------------------------------------
(* A power loss, and OfflineJournal::begin after it.  LittleFS makes a write  *)
(* whole or not at all, so flash is as the last completed write left it.   *)

\* The highest id in flash, and one more.  (_Count: the number of records.)
IdAfterBoot_Count(n) == n = 1 + Cardinality(InJournal)
IdAfterBoot(n) ==
    /\ \A r \in InJournal : r.id < n
    /\ n = 1 \/ \E r \in InJournal : r.id = n - 1

\* The first collars of the directory, in whatever order it lists them.
\* (_Forgets: a collar is noted only when it is heard again.)
HasFile == {c \in Collars : written[c] > 0}
NotedAtBoot_Forgets == {{}}
NotedAtBoot ==
    {D \in SUBSET HasFile : Cardinality(D) = MaxDevices
                              \/ (D = HasFile /\ Cardinality(D) < MaxDevices)}

PowerLoss ==
    /\ crashes < MaxCrashes
    /\ crashes' = crashes + 1
    /\ nextId' \in {n \in Ids \union {MaxPackets + 1} : IdAfterBoot(n)}
    /\ deviceIds' \in NotedAtBoot
    /\ storageQueue' = <<>>
    /\ storage' = [at |-> "idle", record |-> Empty]
    /\ cloudQueue' = <<>>
    /\ relay' = "idle"
    /\ inFlight' = {}
    /\ toMark' = {}
    /\ online' = FALSE
    /\ UNCHANGED <<journal, relayProfile, answered, received, written>>

(* The rest of the hub: the profile and the uplink change (HubNetwork).    *)
ConnectivityChanges ==
    /\ \/ relayProfile' = ~relayProfile /\ UNCHANGED online
       \/ online' = ~online /\ UNCHANGED relayProfile
    /\ UNCHANGED <<journal, nextId, deviceIds, storageQueue, storage, cloudQueue, relay,
                   inFlight, toMark, answered, received, crashes, written>>
-----------------------------------------------------------------------------
StorageStep == StorageTake \/ StorageAppend \/ StorageFails \/ StorageRelay

RelayStep ==
    \/ LiveTake \/ LiveAnswered \/ PostFails
    \/ ReplayBegin \/ ReplayAnswered
    \/ \E m \in toMark : Mark(m) \/ MarkFails(m)

Next ==
    \/ \E c \in Collars, kind \in Kinds : HearPacket(c, kind)
    \/ StorageStep
    \/ RelayStep
    \/ PowerLoss
    \/ ConnectivityChanges

Spec == Init /\ [][Next]_vars

\* Both tasks are scheduled.  A record that is replayed again and again gets its
\* verdict in the end, and a verdict that is written again and again is in flash
\* in the end.
DecidedNow(id) == ReplayAnswered /\ \E m \in toMark' : m.record.id = id
MarkedNow(id) == \E m \in toMark : m.record.id = id /\ Mark(m)
FairSpec ==
    /\ Spec
    /\ WF_vars(StorageStep)
    /\ WF_vars(RelayStep)
    /\ \A id \in Ids : SF_vars(DecidedNow(id)) /\ SF_vars(MarkedNow(id))
-----------------------------------------------------------------------------
(* Properties.                                                             *)

TypeOK ==
    /\ journal \in [Collars -> [Slots -> Records \union {Empty}]]
    /\ nextId \in 1 .. MaxPackets + 1
    /\ deviceIds \subseteq Collars
    /\ storageQueue \in Seq(Records) /\ Len(storageQueue) <= StorageLen
    /\ storage \in [at : {"idle", "append", "relay"}, record : Records \union {Empty}]
    /\ cloudQueue \in Seq(Records) /\ Len(cloudQueue) <= CloudLen
    /\ relay \in {"idle", "live", "replay", "mark"}
    /\ inFlight \subseteq Records
    /\ toMark \subseteq [record : Records, sync : Verdicts]
    /\ relayProfile \in BOOLEAN /\ online \in BOOLEAN
    /\ answered \subseteq Packets \X Verdicts
    /\ received \in 0 .. MaxPackets
    /\ crashes \in 0 .. MaxCrashes
    /\ written \in [Collars -> Nat]

\* A verdict is written after the answer of the cloud was awaited, into a slot
\* that may by then hold another packet: what the journal says of a numbered
\* packet is what the cloud has answered for that packet.  (Packets without a
\* number share the id 0 and the slot 0 of their collar's file: there the verdict
\* on one is written over the next, so nothing can be said of them.)
VerdictIsTheClouds ==
    \A r \in InJournal :
      r.id # 0 /\ r.sync # "pending" => <<r.packet, r.sync>> \in answered

\* A local id, when a packet gets one, names one packet, in RAM and in flash,
\* although it is given out before the packet is durable, the counter is lost with
\* the power, and packets without a number are stored among the others.
InRam ==
    Range(storageQueue) \union Range(cloudQueue) \union inFlight
      \union {m.record : m \in toMark} \union ({storage.record} \ {Empty})

IdNamesOnePacket ==
    \A r, q \in InJournal \union InRam : r.id = q.id /\ r.id # 0 => r.packet = q.packet

\* What is durable does not stay pending while the uplink is up: the journal drains
\* (MaxPackets: in a run no more packets come in the end).  Unless there is a record
\* to be replayed that the cloud refuses with its whole batch: that one is sent again
\* and again, and once it is among the oldest nothing drains.
Blocked == \E r \in Replayable : Refused(r)
Drained == \A r \in InJournal : r.sync # "pending"
PendingResolved == <>[](relayProfile /\ online /\ ~Blocked) => []<>Drained

(* What the documents say, and the code does not do.                       *)

\* "Each collar owns a 100-slot circular file, so a noisy collar cannot evict
\* another collar's history": a collar whose file has seen no more records
\* than it has slots has them all.
HistoryKept ==
    \A c \in Collars :
      written[c] <= PerDevice =>
        Cardinality({s \in Slots : journal[c][s] # Empty}) = written[c]
=============================================================================
