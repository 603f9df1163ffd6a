-------------------------- MODULE JournalRelay_proofs --------------------------
(***************************************************************************)
(* Proofs about the journal.  A local id other than 0 names one packet      *)
(* because every record, in RAM or in flash, is a copy of one the LoRa task *)
(* has made, and the next id is above all of them, also after a power loss. *)
(* A verdict on a numbered packet then reaches that packet: the slot it is  *)
(* written to holds a record with the same id.                             *)
(***************************************************************************)
EXTENDS JournalRelay, SequenceTheorems, TLAPS

Held == InJournal \union InRam

\* What the storage task has in its hands is a record.
Filled == storage.at # "idle" => storage.record \in Records

\* The next id is above every id in use, and no more ids than packets are used.
Numbered ==
    /\ nextId <= received + 1
    /\ \A r \in Held : r.id < nextId

\* What is on its way to flash has no verdict yet.
Unjudged == \A r \in Range(storageQueue) \union ({storage.record} \ {Empty}) : r.sync = "pending"

\* A verdict that is still to be written was the answer of the cloud.
AnswersGiven == \A m \in toMark : <<m.record.packet, m.sync>> \in answered

\* The inductive invariant.
IInv ==
    /\ TypeOK /\ Filled
    /\ Numbered /\ IdNamesOnePacket
    /\ Unjudged /\ AnswersGiven /\ VerdictIsTheClouds

\* After the step every record is, up to its verdict, one from before it.
OnlyCopies == \A r \in Held' : \E q \in Held : q.id = r.id /\ q.packet = r.packet
-----------------------------------------------------------------------------
(* Sequences, slots and records.                                           *)

LEMMA RangeTail ==
    ASSUME NEW S, NEW q \in Seq(S), q # <<>>
    PROVE  /\ Tail(q) \in Seq(S) /\ Len(Tail(q)) <= Len(q)
           /\ Head(q) \in S /\ Head(q) \in Range(q)
           /\ Range(Tail(q)) \subseteq Range(q)
  <1>1. /\ Head(q) \in S /\ Tail(q) \in Seq(S) /\ Len(Tail(q)) = Len(q) - 1
        /\ \A i \in 1 .. Len(Tail(q)) : Tail(q)[i] = q[i + 1]
    BY HeadTailProperties
  <1>2. Len(q) \in Nat \ {0} /\ DOMAIN q = 1 .. Len(q) /\ Head(q) = q[1]
    BY EmptySeq, LenProperties
  <1>3. DOMAIN Tail(q) = 1 .. Len(Tail(q))
    BY <1>1, LenProperties
  <1> QED BY <1>1, <1>2, <1>3 DEF Range

LEMMA RangeAppend ==
    ASSUME NEW S, NEW q \in Seq(S), NEW x \in S
    PROVE  /\ Append(q, x) \in Seq(S) /\ Len(Append(q, x)) = Len(q) + 1
           /\ Range(Append(q, x)) \subseteq Range(q) \union {x}
  <1>1. /\ Append(q, x) \in Seq(S) /\ Len(Append(q, x)) = Len(q) + 1
        /\ \A i \in 1 .. Len(q) : Append(q, x)[i] = q[i]
        /\ Append(q, x)[Len(q) + 1] = x
    BY AppendProperties
  <1>2. Len(q) \in Nat /\ DOMAIN q = 1 .. Len(q) /\ DOMAIN Append(q, x) = 1 .. Len(q) + 1
    BY <1>1, LenProperties
  <1> QED BY <1>1, <1>2 DEF Range

LEMMA RangeEmpty == Range(<<>>) = {}
  BY DEF Range

LEMMA Bounds ==
    /\ PerDevice \in Nat /\ PerDevice > 0 /\ StorageLen \in Nat /\ StorageLen > 0
    /\ CloudLen \in Nat /\ CloudLen > 0 /\ MaxPackets \in Nat /\ MaxCrashes \in Nat
    /\ MaxDevices \in Nat /\ BatchLen \in Nat
  BY JournalAssumption

LEMMA SlotInRange == ASSUME NEW r \in Records PROVE SlotOf(r) \in Slots
  BY Bounds DEF Records, Ids, SlotOf, Slots

\* Empty is no record, and what is in flash or in RAM is one.
LEMMA EmptyIsNone == Empty \notin Records
  BY Bounds DEF Empty, Records, Packets

LEMMA SetSync ==
    ASSUME NEW r \in Records, NEW v \in Verdicts
    PROVE  /\ [r EXCEPT !.sync = v] \in Records
           /\ [r EXCEPT !.sync = v].id = r.id
           /\ [r EXCEPT !.sync = v].packet = r.packet
           /\ [r EXCEPT !.sync = v].sync = v
  BY DEF Records

LEMMA SlotContent ==
    ASSUME TypeOK, NEW c \in Collars, NEW s \in Slots
    PROVE  journal[c][s] \in Records \union {Empty}
  BY DEF TypeOK

LEMMA InJournalRecords ==
    ASSUME TypeOK
    PROVE  /\ InJournal \subseteq Records
           /\ \A r : r \in InJournal <=>
                r # Empty /\ \E c \in Collars, s \in Slots : r = journal[c][s]
  BY DEF TypeOK, InJournal

LEMMA HeldRecords ==
    ASSUME TypeOK
    PROVE  Held \subseteq Records
  <1>1. Range(storageQueue) \subseteq Records /\ Range(cloudQueue) \subseteq Records
    BY RangeOfSeq DEF TypeOK
  <1> QED BY <1>1, InJournalRecords DEF Held, InRam, TypeOK
-----------------------------------------------------------------------------
(* What a step does to the records.                                        *)

LEMMA NextCases ==
    ASSUME [Next]_vars
    PROVE  \/ \E c \in Collars, kind \in Kinds : HearPacket(c, kind)
           \/ StorageTake \/ StorageAppend \/ StorageFails \/ StorageRelay
           \/ LiveTake \/ LiveAnswered \/ PostFails \/ ReplayBegin \/ ReplayAnswered
           \/ \E m \in toMark : Mark(m) \/ MarkFails(m)
           \/ PowerLoss \/ ConnectivityChanges \/ UNCHANGED vars
  BY DEF Next, StorageStep, RelayStep

\* The record of a new packet.
Heard(c, kind, id) ==
    [id |-> id, source |-> c, kind |-> kind, packet |-> received + 1, sync |-> "pending"]

LEMMA HeardRecord ==
    ASSUME IInv, received < MaxPackets, NEW c \in Collars, NEW kind \in Kinds,
           NEW id \in Ids \union {0}
    PROVE  /\ Heard(c, kind, id) \in Records
           /\ Heard(c, kind, id).id = id /\ Heard(c, kind, id).packet = received + 1
           /\ Heard(c, kind, id).sync = "pending"
  <1>1. received + 1 \in Packets
    BY Bounds DEF IInv, TypeOK, Packets
  <1> QED BY <1>1 DEF Heard, Records

LEMMA HearPacketQueue ==
    ASSUME IInv, NEW c \in Collars, NEW kind \in Kinds, HearPacket(c, kind)
    PROVE  \E id \in Ids \union {0} :
             /\ NextLocalId(id)
             /\ storageQueue' \in Seq(Records) /\ Len(storageQueue') <= StorageLen
             /\ Range(storageQueue') \subseteq Range(storageQueue) \union {Heard(c, kind, id)}
  <1>0. PICK id \in Ids \union {0} :
          /\ NextLocalId(id)
          /\ storageQueue' = IF Len(storageQueue) < StorageLen
                             THEN Append(storageQueue, Heard(c, kind, id)) ELSE storageQueue
    BY DEF HearPacket, HasRoom, Heard
  <1>1. Heard(c, kind, id) \in Records /\ storageQueue \in Seq(Records)
    BY HeardRecord DEF HearPacket, IInv, TypeOK
  <1>2. Len(storageQueue) \in Nat
    BY <1>1, LenProperties
  <1>3. CASE Len(storageQueue) < StorageLen
    BY <1>0, <1>1, <1>2, <1>3, RangeAppend, Bounds
  <1>4. CASE ~(Len(storageQueue) < StorageLen)
    BY <1>0, <1>1, <1>4 DEF IInv, TypeOK
  <1> QED BY <1>3, <1>4

\* The records of the journal after a write into one slot.
LEMMA WrittenSlot ==
    ASSUME TypeOK, NEW rec \in Records, Write(rec)
    PROVE  /\ journal' \in [Collars -> [Slots -> Records \union {Empty}]]
           /\ InJournal' \subseteq InJournal \union {rec}
  <1>1. rec.source \in Collars /\ SlotOf(rec) \in Slots
    BY SlotInRange DEF Records
  <1>2. \A c \in Collars, s \in Slots :
          journal'[c][s] = IF c = rec.source /\ s = SlotOf(rec) THEN rec ELSE journal[c][s]
    BY <1>1 DEF Write, TypeOK
  <1>3. journal' \in [Collars -> [Slots -> Records \union {Empty}]]
    BY <1>1 DEF Write, TypeOK
  <1>4. ASSUME NEW r \in InJournal'
        PROVE  r \in InJournal \union {rec}
    <2>1. PICK c \in Collars, s \in Slots : r = journal'[c][s] /\ r # Empty
      BY <1>4 DEF InJournal
    <2> QED BY <2>1, <1>2, InJournalRecords
  <1> QED BY <1>3, <1>4

\* A record of the journal after a verdict was written is one from before it,
\* unchanged or, if it has the id of the packet, with the verdict.
LEMMA MarkedRecord ==
    ASSUME TypeOK, NEW m \in toMark, journal' = MarkedJournal(m)
    PROVE  /\ journal' \in [Collars -> [Slots -> Records \union {Empty}]]
           /\ \A r \in InJournal' : \E q \in InJournal :
                /\ q.id = r.id /\ q.packet = r.packet
                /\ r.sync = q.sync \/ (r.sync = m.sync /\ q.id = m.record.id)
  <1>1. /\ m.record \in Records /\ m.sync \in Verdicts /\ m.record.source \in Collars
    BY DEF TypeOK, Records
  <1> DEFINE Hit(c, s) == c = m.record.source /\ s \in Located(m)
  <1>2. \A c \in Collars, s \in Slots :
          journal'[c][s] = IF Hit(c, s) THEN [journal[c][s] EXCEPT !.sync = m.sync]
                           ELSE journal[c][s]
    BY <1>1 DEF MarkedJournal, TypeOK
  <1>3. ASSUME NEW c \in Collars, NEW s \in Slots, Hit(c, s)
        PROVE  journal[c][s] \in Records /\ journal[c][s].id = m.record.id
    BY <1>1, <1>3 DEF Located, TypeOK
  <1>4. ASSUME NEW c \in Collars, NEW s \in Slots
        PROVE  journal'[c][s] \in Records \union {Empty}
    <2>1. CASE Hit(c, s)
      <3>1. journal[c][s] \in Records
        BY <1>3, <2>1
      <3>2. [journal[c][s] EXCEPT !.sync = m.sync] \in Records
        BY <1>1, <3>1, SetSync
      <3> QED BY <1>2, <2>1, <3>2
    <2>2. CASE ~Hit(c, s)
      BY <1>2, <2>2, SlotContent
    <2> QED BY <2>1, <2>2
  <1>5. journal' \in [Collars -> [Slots -> Records \union {Empty}]]
    <2> DEFINE row == [s \in Slots |-> IF s \in Located(m)
                                      THEN [journal[m.record.source][s] EXCEPT !.sync = m.sync]
                                      ELSE journal[m.record.source][s]]
    <2>1. journal' = [journal EXCEPT ![m.record.source] = row]
      BY <1>1 DEF MarkedJournal, TypeOK
    <2>2. \A s \in Slots : row[s] = journal'[m.record.source][s]
      BY <1>1, <1>2
    <2>3. row \in [Slots -> Records \union {Empty}]
      BY <1>1, <1>4, <2>2
    <2> HIDE DEF row
    <2> QED BY <1>1, <2>1, <2>3 DEF TypeOK
  <1>6. ASSUME NEW r \in InJournal'
        PROVE  \E q \in InJournal :
                 /\ q.id = r.id /\ q.packet = r.packet
                 /\ r.sync = q.sync \/ (r.sync = m.sync /\ q.id = m.record.id)
    <2>1. PICK c \in Collars, s \in Slots : r = journal'[c][s] /\ r # Empty
      BY <1>6 DEF InJournal
    <2>2. CASE Hit(c, s)
      <3>1. journal[c][s] \in Records /\ journal[c][s].id = m.record.id
        BY <1>3, <2>2
      <3>2. r = [journal[c][s] EXCEPT !.sync = m.sync]
        BY <1>2, <2>1, <2>2
      <3>3. journal[c][s] \in InJournal
        BY <3>1, EmptyIsNone, InJournalRecords
      <3>4. r.id = journal[c][s].id /\ r.packet = journal[c][s].packet /\ r.sync = m.sync
        BY <1>1, <3>1, <3>2, SetSync
      <3> QED BY <3>1, <3>3, <3>4
    <2>3. CASE ~Hit(c, s)
      <3>1. r = journal[c][s]
        BY <1>2, <2>1, <2>3
      <3> QED BY <3>1, <2>1, InJournalRecords
    <2> QED BY <2>2, <2>3
  <1> QED BY <1>5, <1>6
\* An answer of the cloud: verdicts on records that were in flight.
LEMMA AnswerTypes ==
    ASSUME TypeOK, LiveAnswered \/ ReplayAnswered
    PROVE  /\ answered' \subseteq Packets \X Verdicts /\ answered \subseteq answered'
           /\ toMark' \subseteq [record : Records, sync : Verdicts]
           /\ \A m \in toMark' : m.record \in inFlight /\ <<m.record.packet, m.sync>> \in answered'
           /\ relay' = "mark"
  <1>1. PICK marks :
          /\ Answer(marks)
          /\ \A m \in marks : \E r \in inFlight, sync \in Verdicts : m = Verdict(r, sync)
    <2>1. CASE LiveAnswered
      BY <2>1 DEF LiveAnswered
    <2>2. CASE ReplayAnswered
      BY <2>2 DEF ReplayAnswered, Judged, Verdicts
    <2> QED BY <2>1, <2>2
  <1>2. \A m \in marks : /\ m \in [record : Records, sync : Verdicts]
                         /\ m.record \in inFlight
                         /\ <<m.record.packet, m.sync>> \in Packets \X Verdicts
    BY <1>1 DEF Verdict, TypeOK, Records
  <1> QED BY <1>1, <1>2 DEF Answer, AnswersOf, TypeOK
-----------------------------------------------------------------------------
(* Type correctness.                                                       *)

LEMMA TypeKept ==
    ASSUME IInv, [Next]_vars
    PROVE  TypeOK' /\ Filled'
  <1> USE DEF IInv
  <1>1. ASSUME NEW c \in Collars, NEW kind \in Kinds, HearPacket(c, kind)
        PROVE  TypeOK' /\ Filled'
    <2>1. storageQueue' \in Seq(Records) /\ Len(storageQueue') <= StorageLen
      BY <1>1, HearPacketQueue
    <2>2. received' \in 0 .. MaxPackets /\ nextId' \in 1 .. MaxPackets + 1
      BY <1>1, Bounds DEF HearPacket, NextLocalId, TypeOK, Numbered
    <2> QED BY <1>1, <2>1, <2>2 DEF HearPacket, TypeOK, Filled
  <1>2. CASE StorageTake
    <2>1. /\ storageQueue' \in Seq(Records) /\ Len(storageQueue') <= StorageLen
          /\ Head(storageQueue) \in Records
      <3>1. storageQueue \in Seq(Records) /\ storageQueue # <<>>
        BY <1>2 DEF StorageTake, TypeOK
      <3>2. /\ Tail(storageQueue) \in Seq(Records) /\ Head(storageQueue) \in Records
            /\ Len(Tail(storageQueue)) <= Len(storageQueue)
        BY <3>1, RangeTail
      <3>3. Len(storageQueue) \in Nat /\ Len(Tail(storageQueue)) \in Nat
        BY <3>1, <3>2, LenProperties
      <3> QED BY <1>2, <3>2, <3>3, Bounds DEF StorageTake, TypeOK
    <2> QED BY <1>2, <2>1 DEF StorageTake, TypeOK, Filled, environment
  <1>3. CASE StorageAppend
    <2>1. storage.record \in Records /\ storage.record.source \in Collars
      BY <1>3 DEF StorageAppend, Filled, Records
    <2>2. journal' \in [Collars -> [Slots -> Records \union {Empty}]]
      BY <1>3, <2>1, WrittenSlot DEF StorageAppend
    <2>3. deviceIds' \subseteq Collars
      BY <1>3, <2>1 DEF StorageAppend, Noted, TypeOK
    <2>4. written' \in [Collars -> Nat]
      BY <1>3, <2>1 DEF StorageAppend, TypeOK
    <2> QED BY <1>3, <2>1, <2>2, <2>3, <2>4 DEF StorageAppend, TypeOK, Filled, environment
  <1>4. CASE StorageFails
    <2>1. deviceIds' \subseteq Collars
      BY <1>4 DEF StorageFails, Noted, TypeOK, Filled, Records
    <2> QED BY <1>4, <2>1 DEF StorageFails, TypeOK, Filled, environment
  <1>5. CASE StorageRelay
    <2>1. cloudQueue' \in Seq(Records) /\ Len(cloudQueue') <= CloudLen
      <3>1. cloudQueue \in Seq(Records) /\ storage.record \in Records
        BY <1>5 DEF StorageRelay, Filled, TypeOK
      <3>2. /\ Append(cloudQueue, storage.record) \in Seq(Records)
            /\ Len(Append(cloudQueue, storage.record)) = Len(cloudQueue) + 1
        BY <3>1, RangeAppend
      <3>3. Len(cloudQueue) \in Nat
        BY <3>1, LenProperties
      <3> QED BY <1>5, <3>2, <3>3, Bounds DEF StorageRelay, HasRoom, TypeOK
    <2> QED BY <1>5, <2>1 DEF StorageRelay, TypeOK, Filled, environment
  <1>6. CASE LiveTake
    <2>1. cloudQueue \in Seq(Records) /\ cloudQueue # <<>>
      BY <1>6 DEF LiveTake, TypeOK
    <2>2. /\ Tail(cloudQueue) \in Seq(Records) /\ Head(cloudQueue) \in Records
          /\ Len(Tail(cloudQueue)) <= Len(cloudQueue)
      BY <2>1, RangeTail
    <2>3. Len(cloudQueue) \in Nat /\ Len(Tail(cloudQueue)) \in Nat
      BY <2>1, <2>2, LenProperties
    <2>4. cloudQueue' \in Seq(Records) /\ Len(cloudQueue') <= CloudLen
      BY <1>6, <2>2, <2>3, Bounds DEF LiveTake, TypeOK
    <2>5. inFlight' \subseteq Records /\ relay' \in {"idle", "live", "replay", "mark"}
      BY <1>6, <2>2 DEF LiveTake, TypeOK
    <2> QED BY <1>6, <2>4, <2>5 DEF LiveTake, TypeOK, Filled, environment
  <1>7. CASE LiveAnswered
    BY <1>7, AnswerTypes DEF LiveAnswered, TypeOK, Filled, environment
  <1>8. CASE PostFails
    BY <1>8 DEF PostFails, TypeOK, Filled, environment
  <1>9. CASE ReplayBegin
    <2>1. inFlight' \subseteq Records
      BY <1>9, InJournalRecords DEF ReplayBegin, Oldest, Replayable
    <2> QED BY <1>9, <2>1 DEF ReplayBegin, TypeOK, Filled, environment
  <1>10. CASE ReplayAnswered
    BY <1>10, AnswerTypes DEF ReplayAnswered, TypeOK, Filled, environment
  <1>11. ASSUME NEW m \in toMark, Mark(m)
         PROVE  TypeOK' /\ Filled'
    <2>1. journal' \in [Collars -> [Slots -> Records \union {Empty}]]
      BY <1>11, MarkedRecord DEF Mark
    <2> QED BY <1>11, <2>1 DEF Mark, Done, TypeOK, Filled, environment
  <1>12. ASSUME NEW m \in toMark, MarkFails(m)
         PROVE  TypeOK' /\ Filled'
    BY <1>12 DEF MarkFails, Done, TypeOK, Filled, environment
  <1>13. CASE PowerLoss
    <2>1. /\ storageQueue' \in Seq(Records) /\ Len(storageQueue') <= StorageLen
          /\ cloudQueue' \in Seq(Records) /\ Len(cloudQueue') <= CloudLen
      BY <1>13, EmptySeq, Bounds DEF PowerLoss
    <2>2. nextId' \in 1 .. MaxPackets + 1 /\ deviceIds' \subseteq Collars
      BY <1>13, Bounds DEF PowerLoss, Ids, NotedAtBoot, HasFile
    <2>3. crashes' \in 0 .. MaxCrashes
      BY <1>13, Bounds DEF PowerLoss, TypeOK
    <2> QED BY <1>13, <2>1, <2>2, <2>3 DEF PowerLoss, TypeOK, Filled
  <1>14. CASE ConnectivityChanges
    BY <1>14 DEF ConnectivityChanges, TypeOK, Filled
  <1>15. CASE UNCHANGED vars
    BY <1>15 DEF vars, TypeOK, Filled
  <1> QED BY <1>1, <1>2, <1>3, <1>4, <1>5, <1>6, <1>7, <1>8, <1>9, <1>10, <1>11, <1>12, <1>13,
             <1>14, <1>15, NextCases
-----------------------------------------------------------------------------
(* Local ids.                                                              *)

\* After every step but the reception of a packet there are only copies.
LEMMA CopiesOnly ==
    ASSUME IInv, [Next]_vars,
           \A c \in Collars, kind \in Kinds : ~HearPacket(c, kind)
    PROVE  OnlyCopies
  <1> USE DEF IInv
  <1>0. ASSUME Held' \subseteq Held PROVE OnlyCopies
    BY <1>0 DEF OnlyCopies
  <1>1. CASE StorageTake
    <2>1. storageQueue \in Seq(Records) /\ storageQueue # <<>>
      BY <1>1 DEF StorageTake, TypeOK
    <2>2. Head(storageQueue) \in Range(storageQueue)
          /\ Range(Tail(storageQueue)) \subseteq Range(storageQueue)
      BY <2>1, RangeTail
    <2>3. Held' \subseteq Held
      BY <1>1, <2>2 DEF StorageTake, Held, InRam, InJournal
    <2> QED BY <1>0, <2>3
  <1>2. CASE StorageAppend
    <2>1. storage.record \in Records /\ storage'.record = storage.record
      BY <1>2 DEF StorageAppend, Filled, TypeOK
    <2>2. InJournal' \subseteq InJournal \union {storage.record}
      BY <1>2, <2>1, WrittenSlot DEF StorageAppend
    <2>3. InRam' = InRam
      BY <1>2, <2>1 DEF StorageAppend, InRam
    <2>4. storage.record \in InRam
      BY <2>1, EmptyIsNone DEF InRam
    <2> QED BY <1>0, <2>2, <2>3, <2>4 DEF Held
  <1>3. CASE StorageFails
    BY <1>0, <1>3 DEF StorageFails, Held, InRam, InJournal
  <1>4. CASE StorageRelay
    <2>1. cloudQueue \in Seq(Records) /\ storage.record \in Records
      BY <1>4 DEF StorageRelay, Filled, TypeOK
    <2>2. Range(Append(cloudQueue, storage.record)) \subseteq Range(cloudQueue) \union {storage.record}
      BY <2>1, RangeAppend
    <2>3. storage.record # Empty
      BY <2>1, EmptyIsNone
    <2>4. Held' \subseteq Held
      BY <1>4, <2>2, <2>3 DEF StorageRelay, Held, InRam, InJournal
    <2> QED BY <1>0, <2>4
  <1>5. CASE LiveTake
    <2>1. cloudQueue \in Seq(Records) /\ cloudQueue # <<>>
      BY <1>5 DEF LiveTake, TypeOK
    <2>2. Head(cloudQueue) \in Range(cloudQueue) /\ Range(Tail(cloudQueue)) \subseteq Range(cloudQueue)
      BY <2>1, RangeTail
    <2>3. Held' \subseteq Held
      BY <1>5, <2>2 DEF LiveTake, Held, InRam, InJournal
    <2> QED BY <1>0, <2>3
  <1>6. CASE LiveAnswered \/ ReplayAnswered
    <2>1. \A m \in toMark' : m.record \in inFlight
      BY <1>6, AnswerTypes
    <2>2. Held' \subseteq Held
      BY <1>6, <2>1 DEF LiveAnswered, ReplayAnswered, Held, InRam, InJournal
    <2> QED BY <1>0, <2>2
  <1>7. CASE PostFails
    BY <1>0, <1>7 DEF PostFails, Held, InRam, InJournal
  <1>8. CASE ReplayBegin
    <2>1. inFlight' \subseteq InJournal
      BY <1>8 DEF ReplayBegin, Oldest, Replayable
    <2>2. Held' \subseteq Held
      BY <1>8, <2>1 DEF ReplayBegin, Held, InRam, InJournal
    <2> QED BY <1>0, <2>2
  <1>9. ASSUME NEW m \in toMark, Mark(m) PROVE OnlyCopies
    <2>1. \A r \in InJournal' : \E q \in InJournal : q.id = r.id /\ q.packet = r.packet
      BY <1>9, MarkedRecord DEF Mark
    <2>2. InRam' \subseteq InRam
      BY <1>9 DEF Mark, Done, InRam
    <2> QED BY <2>1, <2>2 DEF OnlyCopies, Held
  <1>10. ASSUME NEW m \in toMark, MarkFails(m) PROVE OnlyCopies
    <2>1. Held' \subseteq Held
      BY <1>10 DEF MarkFails, Done, Held, InRam, InJournal
    <2> QED BY <1>0, <2>1
  <1>11. CASE PowerLoss
    <2>1. InRam' = {}
      BY <1>11, RangeEmpty DEF PowerLoss, InRam
    <2>2. InJournal' = InJournal
      BY <1>11 DEF PowerLoss, InJournal
    <2> QED BY <1>0, <2>1, <2>2 DEF Held
  <1>12. CASE ConnectivityChanges
    BY <1>0, <1>12 DEF ConnectivityChanges, Held, InRam, InJournal
  <1>13. CASE UNCHANGED vars
    BY <1>0, <1>13 DEF vars, Held, InRam, InJournal
  <1> QED BY <1>1, <1>2, <1>3, <1>4, <1>5, <1>6, <1>7, <1>8, <1>9, <1>10, <1>11, <1>12, <1>13,
             NextCases

\* Of two records with one id the packets were the same before the step.
LEMMA CopiesKeepNames ==
    ASSUME IdNamesOnePacket, OnlyCopies
    PROVE  IdNamesOnePacket'
  BY DEF IdNamesOnePacket, OnlyCopies, Held

LEMMA NamesKept ==
    ASSUME IInv, [Next]_vars
    PROVE  Numbered' /\ IdNamesOnePacket'
  <1> USE DEF IInv
  <1>1. ASSUME NEW c \in Collars, NEW kind \in Kinds, HearPacket(c, kind)
        PROVE  Numbered' /\ IdNamesOnePacket'
    <2>1. PICK id \in Ids \union {0} :
            /\ NextLocalId(id)
            /\ Range(storageQueue') \subseteq Range(storageQueue) \union {Heard(c, kind, id)}
      BY <1>1, HearPacketQueue
    <2> DEFINE new == Heard(c, kind, id)
    <2>2. new.id = id
      BY <1>1, HeardRecord DEF HearPacket
    <2>3. Held' \subseteq Held \union {new}
      <3>1. Range(storageQueue') \subseteq Range(storageQueue) \union {new}
        BY <2>1
      <3>2. /\ InJournal' = InJournal
            /\ UNCHANGED <<cloudQueue, inFlight, toMark, storage>>
        BY <1>1 DEF HearPacket, InJournal
      <3> HIDE DEF new
      <3> QED BY <3>1, <3>2 DEF Held, InRam
    <2>4. /\ received' = received + 1
          /\ (id = nextId /\ nextId' = nextId + 1) \/ (id = 0 /\ nextId' = nextId)
      BY <1>1, <2>1 DEF HearPacket, NextLocalId
    <2>5. \A r \in Held : r.id \in Int /\ r.id < nextId
      BY HeldRecords DEF Numbered, Records, Ids
    <2> HIDE DEF new
    <2>6. Numbered'
      BY <2>2, <2>3, <2>4, <2>5, Bounds DEF Numbered, TypeOK
    <2>7. IdNamesOnePacket'
      <3>1. SUFFICES ASSUME NEW r \in Held', NEW q \in Held', r.id = q.id, r.id # 0
                     PROVE  r.packet = q.packet
        BY DEF IdNamesOnePacket, Held
      <3>2. CASE r \in Held /\ q \in Held
        BY <3>1, <3>2 DEF IdNamesOnePacket, Held
      <3>3. CASE r = new \/ q = new
        <4>1. new.id = nextId
          BY <2>2, <2>4, <3>1, <3>3
        <4>2. \A x \in Held : x.id # new.id
          BY <2>5, <4>1
        <4> QED BY <2>3, <3>1, <3>3, <4>2
      <3> QED BY <2>3, <3>2, <3>3
    <2> QED BY <2>6, <2>7
  <1>2. CASE PowerLoss
    <2>0. \A c \in Collars, kind \in Kinds : ~HearPacket(c, kind)
      BY <1>2, Bounds DEF PowerLoss, HearPacket, TypeOK
    <2>1. OnlyCopies
      BY <2>0, CopiesOnly
    <2>2. InRam' = {} /\ InJournal' = InJournal
      BY <1>2, RangeEmpty DEF PowerLoss, InRam, InJournal
    <2>3. \A r \in InJournal : r.id \in Int /\ r.id < nextId
      BY HeldRecords DEF Numbered, Records, Ids, Held
    <2>4. /\ nextId' \in Int /\ \A r \in InJournal : r.id < nextId'
          /\ nextId' = 1 \/ \E r \in InJournal : r.id = nextId' - 1
      BY <1>2, Bounds DEF PowerLoss, IdAfterBoot, Ids
    <2>5. received' = received /\ received \in Nat /\ nextId <= received + 1 /\ nextId \in Nat
      BY <1>2, Bounds DEF PowerLoss, TypeOK, Numbered
    <2>6. nextId' <= received + 1
      BY <2>3, <2>4, <2>5
    <2>7. Numbered'
      BY <2>2, <2>4, <2>5, <2>6 DEF Numbered, Held
    <2> QED BY <2>1, <2>7, CopiesKeepNames
  <1>3. CASE ~PowerLoss /\ \A c \in Collars, kind \in Kinds : ~HearPacket(c, kind)
    <2>1. OnlyCopies
      BY <1>3, CopiesOnly
    <2>2. nextId' = nextId /\ received' = received
      BY <1>3, NextCases DEF StorageTake, StorageAppend, StorageFails, StorageRelay, LiveTake,
           LiveAnswered, PostFails, ReplayBegin, ReplayAnswered, Mark, MarkFails,
           ConnectivityChanges, environment, vars
    <2>3. Numbered'
      BY <2>1, <2>2 DEF Numbered, OnlyCopies
    <2> QED BY <2>1, <2>3, CopiesKeepNames
  <1> QED BY <1>1, <1>2, <1>3
-----------------------------------------------------------------------------
(* Verdicts.                                                               *)

LEMMA VerdictsKept ==
    ASSUME IInv, [Next]_vars
    PROVE  Unjudged' /\ AnswersGiven' /\ VerdictIsTheClouds'
  <1> USE DEF IInv
  <1> DEFINE Writing == Range(storageQueue) \union ({storage.record} \ {Empty})
  <1>0. ASSUME Writing' \subseteq Writing PROVE Unjudged'
    BY <1>0 DEF Unjudged
  <1>1. ASSUME NEW c \in Collars, NEW kind \in Kinds, HearPacket(c, kind)
        PROVE  Unjudged' /\ AnswersGiven' /\ VerdictIsTheClouds'
    <2>1. PICK id \in Ids \union {0} :
            /\ Range(storageQueue') \subseteq Range(storageQueue) \union {Heard(c, kind, id)}
            /\ Heard(c, kind, id).sync = "pending"
      BY <1>1, HearPacketQueue, HeardRecord DEF HearPacket
    <2>2. Unjudged'
      BY <1>1, <2>1 DEF HearPacket, Unjudged
    <2> QED BY <1>1, <2>2 DEF HearPacket, AnswersGiven, VerdictIsTheClouds, InJournal
  <1>2. CASE StorageTake
    <2>1. storageQueue \in Seq(Records) /\ storageQueue # <<>>
      BY <1>2 DEF StorageTake, TypeOK
    <2>2. Head(storageQueue) \in Range(storageQueue)
          /\ Range(Tail(storageQueue)) \subseteq Range(storageQueue)
      BY <2>1, RangeTail
    <2>3. Unjudged'
      BY <1>2, <2>2 DEF StorageTake, Unjudged
    <2> QED BY <1>2, <2>3 DEF StorageTake, AnswersGiven, VerdictIsTheClouds, InJournal
  <1>3. CASE StorageAppend
    <2>1. storage.record \in Records /\ storage.record # Empty /\ storage'.record = storage.record
      BY <1>3, EmptyIsNone DEF StorageAppend, Filled, TypeOK
    <2>2. InJournal' \subseteq InJournal \union {storage.record}
      BY <1>3, <2>1, WrittenSlot DEF StorageAppend
    <2>3. storage.record.sync = "pending"
      BY <2>1 DEF Unjudged
    <2>4. answered' = answered /\ toMark' = toMark /\ storageQueue' = storageQueue
      BY <1>3 DEF StorageAppend
    <2>5. VerdictIsTheClouds'
      BY <2>2, <2>3, <2>4 DEF VerdictIsTheClouds
    <2> QED BY <2>1, <2>4, <2>5 DEF Unjudged, AnswersGiven
  <1>4. CASE StorageFails \/ StorageRelay
    BY <1>4 DEF StorageFails, StorageRelay, Unjudged, AnswersGiven, VerdictIsTheClouds, InJournal
  <1>5. CASE LiveTake \/ PostFails \/ ReplayBegin \/ ConnectivityChanges \/ UNCHANGED vars
    BY <1>5 DEF LiveTake, PostFails, ReplayBegin, ConnectivityChanges, vars, Unjudged,
         AnswersGiven, VerdictIsTheClouds, InJournal
  <1>6. CASE LiveAnswered \/ ReplayAnswered
    <2>1. /\ answered \subseteq answered'
          /\ \A m \in toMark' : <<m.record.packet, m.sync>> \in answered'
      BY <1>6, AnswerTypes
    <2>2. storageQueue' = storageQueue /\ storage' = storage /\ journal' = journal
      BY <1>6 DEF LiveAnswered, ReplayAnswered
    <2>3. VerdictIsTheClouds'
      BY <2>1, <2>2 DEF VerdictIsTheClouds, InJournal
    <2> QED BY <2>1, <2>2, <2>3 DEF Unjudged, AnswersGiven
  <1>7. ASSUME NEW m \in toMark, Mark(m)
        PROVE  Unjudged' /\ AnswersGiven' /\ VerdictIsTheClouds'
    <2>1. /\ toMark' \subseteq toMark /\ answered' = answered
          /\ storageQueue' = storageQueue /\ storage' = storage
      BY <1>7 DEF Mark, Done
    <2>2. ASSUME NEW r \in InJournal', r.id # 0, r.sync # "pending"
          PROVE  <<r.packet, r.sync>> \in answered
      <3>1. PICK q \in InJournal :
              /\ q.id = r.id /\ q.packet = r.packet
              /\ r.sync = q.sync \/ (r.sync = m.sync /\ q.id = m.record.id)
        BY <1>7, MarkedRecord DEF Mark
      <3>2. CASE r.sync = q.sync
        BY <2>2, <3>1, <3>2 DEF VerdictIsTheClouds
      <3>3. CASE r.sync = m.sync /\ q.id = m.record.id
        <4>1. q.packet = m.record.packet
          BY <2>2, <3>1, <3>3 DEF IdNamesOnePacket, InRam
        <4> QED BY <3>1, <3>3, <4>1 DEF AnswersGiven
      <3> QED BY <3>1, <3>2, <3>3
    <2>3. VerdictIsTheClouds'
      BY <2>1, <2>2 DEF VerdictIsTheClouds
    <2> QED BY <2>1, <2>3 DEF Unjudged, AnswersGiven
  <1>8. ASSUME NEW m \in toMark, MarkFails(m)
        PROVE  Unjudged' /\ AnswersGiven' /\ VerdictIsTheClouds'
    BY <1>8 DEF MarkFails, Done, Unjudged, AnswersGiven, VerdictIsTheClouds, InJournal
  <1>9. CASE PowerLoss
    BY <1>9, RangeEmpty DEF PowerLoss, Unjudged, AnswersGiven, VerdictIsTheClouds, InJournal
  <1> QED BY <1>1, <1>2, <1>3, <1>4, <1>5, <1>6, <1>7, <1>8, <1>9, NextCases
-----------------------------------------------------------------------------
(* The theorems.                                                           *)

LEMMA Start == ASSUME Init PROVE IInv
  <1>1. TypeOK
    <2>1. <<>> \in Seq(Records) /\ Len(<<>>) = 0
      BY EmptySeq
    <2>2. journal \in [Collars -> [Slots -> Records \union {Empty}]]
      BY DEF Init
    <2>3. storage \in [at : {"idle", "append", "relay"}, record : Records \union {Empty}]
      BY DEF Init
    <2>4. written \in [Collars -> Nat]
      BY DEF Init
    <2>5. /\ storageQueue \in Seq(Records) /\ Len(storageQueue) <= StorageLen
          /\ cloudQueue \in Seq(Records) /\ Len(cloudQueue) <= CloudLen
      BY <2>1, Bounds DEF Init
    <2>6. /\ inFlight \subseteq Records
          /\ toMark \subseteq [record : Records, sync : Verdicts]
          /\ answered \subseteq Packets \X Verdicts
          /\ deviceIds \subseteq Collars
      BY DEF Init
    <2>7. nextId = 1 /\ received = 0 /\ crashes = 0
      BY DEF Init
    <2>8. nextId \in 1 .. MaxPackets + 1 /\ received \in 0 .. MaxPackets /\ crashes \in 0 .. MaxCrashes
      BY <2>7, Bounds
    <2>9. relay \in {"idle", "live", "replay", "mark"} /\ relayProfile \in BOOLEAN /\ online \in BOOLEAN
      BY DEF Init
    <2> QED BY <2>2, <2>3, <2>4, <2>5, <2>6, <2>8, <2>9 DEF TypeOK
  <1>2. InJournal = {} /\ InRam = {}
    BY RangeEmpty DEF Init, InJournal, InRam
  <1>3. Filled /\ Unjudged /\ AnswersGiven
    BY RangeEmpty DEF Init, Filled, Unjudged, AnswersGiven
  <1>4. Numbered
    BY <1>2 DEF Init, Numbered, Held
  <1>5. IdNamesOnePacket /\ VerdictIsTheClouds
    BY <1>2 DEF IdNamesOnePacket, VerdictIsTheClouds
  <1> QED BY <1>1, <1>3, <1>4, <1>5 DEF IInv

\* The inductive invariant holds in every reachable state: what the theorems
\* about append, updateSyncState and begin have in common.
THEOREM Invariance == Spec => []IInv
  <1>1. Init => IInv
    BY Start
  <1>2. IInv /\ [Next]_vars => IInv'
    BY TypeKept, NamesKept, VerdictsKept DEF IInv
  <1> QED BY <1>1, <1>2, PTL DEF Spec

\* The queues of the storage and the cloud task keep their lengths, and flash
\* holds records only, whatever fails.
THEOREM TypeCorrect == Spec => []TypeOK
  <1>1. IInv => TypeOK
    BY DEF IInv
  <1> QED BY <1>1, Invariance, PTL

\* A local id other than 0 names one packet, although it is given out before the
\* packet is durable, the counter is recovered from flash after a power loss, and
\* nextLocalId() may give no number at all.
THEOREM IdsNamePackets == Spec => []IdNamesOnePacket
  <1>1. IInv => IdNamesOnePacket
    BY DEF IInv
  <1> QED BY <1>1, Invariance, PTL

\* What the journal says of a numbered packet is what the cloud has answered for
\* it, although updateSyncState writes into slots that are reused meanwhile, by
\* numbered packets or by others.
THEOREM VerdictsAreTheClouds == Spec => []VerdictIsTheClouds
  <1>1. IInv => VerdictIsTheClouds
    BY DEF IInv
  <1> QED BY <1>1, Invariance, PTL
=============================================================================
