-------------------------- MODULE HubCommands_proofs --------------------------
(***************************************************************************)
(* Proofs about the delivery of commands.  Every step of the program but   *)
(* one, the registration of a command, leaves the commands in their rows   *)
(* and the outcome of the commands that are over, and copies only what is  *)
(* somewhere already: these are the lemmas that the theorems share.        *)
(***************************************************************************)
EXTENDS HubCommands, SequenceTheorems, TLAPS

\* Where a command is needed there is one: in a used row, in the hands of the
\* LoRa task while it transmits, and with a caller that is not idle.
Filled ==
    /\ \A i \in Slots : pendingCmds[i].state # "none" => pendingCmds[i].cmd \in Commands
    /\ lora \in {"transmit", "note"} => held \in Commands
    /\ \A r \in Callers : sending[r].at # "idle" => sending[r].cmd \in Commands

\* The inductive invariant.
IInv == CommandsTypeOK /\ Filled /\ OneProfilePerCollar

\* A row keeps its command, and its outcome if the command is over, and never
\* gets younger.
SameRow(new, old) ==
    /\ new.cmd = old.cmd
    /\ new.age >= old.age
    /\ old.state \notin Live => new.state = old.state
    /\ new.state = "none" => old.state = "none"

Settled == \A i \in Slots : SameRow(pendingCmds'[i], pendingCmds[i])
-----------------------------------------------------------------------------
(* The operations on one row.                                              *)

\* The constants, one by one.
LEMMA Bounds ==
    /\ MaxLocal \in Nat /\ MaxRetries \in Nat /\ Interval \in Nat
    /\ AckTimeout \in Nat /\ Window \in Nat
    /\ NumSlots \in Nat /\ NumSlots > 0 /\ QueueLen \in Nat /\ QueueLen > 0
    /\ CommandTTL \in Nat /\ FeedbackTTL \in Nat /\ FeedbackTTL > CommandTTL
  BY CommandsAssumption

\* A local request ends in one of two ways.
LocalCommand(r, c) ==
    /\ localSeq < MaxLocal
    /\ c.seq = localSeq + 1
    /\ localSeq' = localSeq + 1
    /\ Register(r, c, 0)
LocalRefused(r, c) ==
    /\ localSeq < MaxLocal
    /\ c.seq = localSeq + 1
    /\ localSeq' = localSeq + 1
    /\ Unregistered(r, c)

LEMMA LocalRequests ==
    ASSUME NEW r \in Locals, LocalRequest(r)
    PROVE  \E c \in Commands : LocalCommand(r, c) \/ LocalRefused(r, c)
  BY DEF LocalRequest, LocalCommand, LocalRefused

\* A row that is not touched is the same, and what is the same twice is the same.
LEMMA UntouchedRow == ASSUME NEW row \in Rows PROVE SameRow(row, row)
  BY Bounds DEF SameRow, Rows

LEMMA SameRowTwice ==
    ASSUME NEW a \in Rows, NEW b \in Rows, NEW c \in Rows, SameRow(a, b), SameRow(b, c)
    PROVE  SameRow(a, c)
  <1>1. a.age \in Int /\ b.age \in Int /\ c.age \in Int
    BY Bounds DEF Rows
  <1> QED BY <1>1 DEF SameRow

\* The assignments to one field of a row.
LEMMA SetState ==
    ASSUME NEW row \in Rows, row.state \in Live, NEW s \in Live \union Ended
    PROVE  [row EXCEPT !.state = s] \in Rows /\ SameRow([row EXCEPT !.state = s], row)
  BY Bounds DEF Rows, States, Live, Ended, SameRow

LEMMA SetRetries ==
    ASSUME NEW row \in Rows, NEW n \in 0 .. MaxRetries
    PROVE  /\ [row EXCEPT !.retries = n] \in Rows
           /\ SameRow([row EXCEPT !.retries = n], row)
           /\ [row EXCEPT !.retries = n].state = row.state
  BY Bounds DEF Rows, SameRow

LEMMA SetSent ==
    ASSUME NEW row \in Rows, NEW t \in NotSent .. AckTimeout
    PROVE  /\ [row EXCEPT !.sent = t] \in Rows
           /\ SameRow([row EXCEPT !.sent = t], row)
           /\ [row EXCEPT !.sent = t].state = row.state
  BY Bounds DEF Rows, SameRow

LEMMA SetWaiting ==
    ASSUME NEW row \in Rows, NEW b \in BOOLEAN
    PROVE  /\ [row EXCEPT !.waiting = b] \in Rows
           /\ SameRow([row EXCEPT !.waiting = b], row)
           /\ [row EXCEPT !.waiting = b].state = row.state
  BY Bounds DEF Rows, SameRow

LEMMA SetAge ==
    ASSUME NEW row \in Rows, NEW n \in 0 .. FeedbackTTL, n >= row.age
    PROVE  /\ [row EXCEPT !.age = n] \in Rows
           /\ SameRow([row EXCEPT !.age = n], row)
           /\ [row EXCEPT !.age = n].state = row.state
  BY Bounds DEF Rows, SameRow

\* Looking at a row gives a row with the same command.
LEMMA CheckedRow ==
    ASSUME NEW row \in Rows
    PROVE  Checked(row) \in Rows /\ SameRow(Checked(row), row)
  <1> DEFINE counted == [row EXCEPT !.retries = row.retries + 1]
             unsent == [counted EXCEPT !.sent = NotSent]
             waits == [row EXCEPT !.waiting = TRUE]
             later == [unsent EXCEPT !.waiting = TRUE]
  <1>0. row.retries \in 0 .. MaxRetries /\ NotSent \in NotSent .. AckTimeout
    BY Bounds DEF Rows, NotSent
  <1>1. CASE Overdue(row)
    <2>0. ~Unanswered(row)
      BY <1>1, Bounds DEF Overdue, Unanswered, Pending, Rows
    <2>1. Checked(row) = [row EXCEPT !.state = "expired"]
      BY <1>1, <2>0, Zenon DEF Checked
    <2>2. row.state \in Live /\ "expired" \in Live \union Ended
      BY <1>1 DEF Overdue, Active, Ended
    <2> QED BY <2>1, <2>2, SetState
  <1>2. CASE Unanswered(row) /\ MayRetry(row)
    <2>1. ~Overdue(row) /\ row.state \in Live
      BY <1>2, Bounds DEF Overdue, Unanswered, Pending, Active, Rows
    <2>2. row.retries + 1 \in 0 .. MaxRetries
      BY <1>2, <1>0, Bounds DEF MayRetry
    <2>3. counted \in Rows /\ SameRow(counted, row) /\ counted.state = row.state
      BY <2>2, SetRetries
    <2>4. unsent \in Rows /\ SameRow(unsent, counted) /\ unsent.state = counted.state
      <3> HIDE DEF counted
      <3> QED BY <2>3, <1>0, SetSent
    <2>5. SameRow(unsent, row)
      <3> HIDE DEF counted, unsent
      <3> QED BY <2>3, <2>4, SameRowTwice
    <2>6. later \in Rows /\ SameRow(later, unsent) /\ later.state = unsent.state
      <3> HIDE DEF unsent
      <3> QED BY <2>4, SetWaiting
    <2>7. SameRow(later, row)
      <3> HIDE DEF unsent, later
      <3> QED BY <2>4, <2>5, <2>6, SameRowTwice
    <2> DEFINE final == [later EXCEPT !.state = "waiting"]
    <2>8. later.state \in Live /\ "waiting" \in Live \union Ended
      <3> HIDE DEF counted, unsent, later
      <3> QED BY <2>1, <2>3, <2>4, <2>6 DEF Live
    <2>9. final \in Rows /\ SameRow(final, later)
      <3> HIDE DEF later
      <3> QED BY <2>6, <2>8, SetState
    <2>10. SameRow(final, row)
      <3> HIDE DEF final, later
      <3> QED BY <2>6, <2>7, <2>9, SameRowTwice
    <2>11. Checked(row) = unsent \/ Checked(row) = final
      BY <1>2, <2>1, Zenon DEF Checked, RetryLater
    <2> HIDE DEF final, unsent
    <2> QED BY <2>4, <2>5, <2>9, <2>10, <2>11
  <1>3. CASE Unanswered(row) /\ ~MayRetry(row)
    <2>1. ~Overdue(row) /\ row.state \in Live
      BY <1>3, Bounds DEF Overdue, Unanswered, Pending, Active, Rows
    <2>2. waits \in Rows /\ SameRow(waits, row) /\ waits.state = row.state
      BY SetWaiting
    <2> DEFINE final == [waits EXCEPT !.state = "waiting"]
    <2>3. final \in Rows /\ SameRow(final, waits)
      <3>1. "waiting" \in Live \union Ended
        BY DEF Live
      <3> HIDE DEF waits
      <3> QED BY <2>1, <2>2, <3>1, SetState
    <2>4. SameRow(final, row)
      <3> HIDE DEF final, waits
      <3> QED BY <2>2, <2>3, SameRowTwice
    <2>5. Checked(row) = final
      BY <1>3, <2>1, Zenon DEF Checked
    <2> HIDE DEF final
    <2> QED BY <2>3, <2>4, <2>5
  <1>4. CASE ~Overdue(row) /\ ~Unanswered(row)
    BY <1>4, Zenon, UntouchedRow DEF Checked
  <1> QED BY <1>1, <1>2, <1>3, <1>4

\* So does an uplink of the collar.
LEMMA RefreshedRow ==
    ASSUME NEW row \in Rows
    PROVE  Refreshed(row) \in Rows /\ SameRow(Refreshed(row), row)
  <1> DEFINE fresh == [row EXCEPT !.retries = 0]
             unsent == [fresh EXCEPT !.sent = NotSent]
             final == [unsent EXCEPT !.waiting = FALSE]
  <1>0. 0 \in 0 .. MaxRetries /\ NotSent \in NotSent .. AckTimeout
    BY Bounds DEF NotSent
  <1>1. fresh \in Rows /\ SameRow(fresh, row)
    BY <1>0, SetRetries
  <1>2. unsent \in Rows /\ SameRow(unsent, fresh)
    <2> HIDE DEF fresh
    <2> QED BY <1>0, <1>1, SetSent
  <1>3. final \in Rows /\ SameRow(final, unsent)
    <2> HIDE DEF unsent
    <2> QED BY <1>2, SetWaiting
  <1>4. SameRow(unsent, row)
    <2> HIDE DEF fresh, unsent
    <2> QED BY <1>1, <1>2, SameRowTwice
  <1>5. SameRow(final, row)
    <2> HIDE DEF unsent, final
    <2> QED BY <1>2, <1>3, <1>4, SameRowTwice
  <1>6. Refreshed(row) = final
    BY Zenon DEF Refreshed
  <1> HIDE DEF final
  <1> QED BY <1>3, <1>5, <1>6

\* And the note that it was transmitted, of an active one.
LEMMA NotedRow ==
    ASSUME NEW row \in Rows, row.state \in Live
    PROVE  /\ [row EXCEPT !.sent = 0, !.state = "transmitted"] \in Rows
           /\ SameRow([row EXCEPT !.sent = 0, !.state = "transmitted"], row)
  <1> DEFINE sent == [row EXCEPT !.sent = 0]
             final == [sent EXCEPT !.state = "transmitted"]
  <1>0. 0 \in NotSent .. AckTimeout /\ "transmitted" \in Live \union Ended
    BY Bounds DEF NotSent, Live
  <1>1. sent \in Rows /\ SameRow(sent, row) /\ sent.state = row.state
    BY <1>0, SetSent
  <1>2. final \in Rows /\ SameRow(final, sent)
    <2> HIDE DEF sent
    <2> QED BY <1>0, <1>1, SetState
  <1>3. SameRow(final, row)
    <2> HIDE DEF sent, final
    <2> QED BY <1>1, <1>2, SameRowTwice
  <1> QED BY <1>2, <1>3

\* And time.
LEMMA AgedRow ==
    ASSUME NEW row \in Rows
    PROVE  Aged(row) \in Rows /\ SameRow(Aged(row), row)
  <1> DEFINE older == AtMost(row.age + 1, FeedbackTTL)
             longer == IF row.sent = NotSent \/ ~Active(row) THEN row.sent
                       ELSE AtMost(row.sent + 1, AckTimeout)
             aged == [row EXCEPT !.age = older]
             final == [aged EXCEPT !.sent = longer]
  <1>1. /\ older \in 0 .. FeedbackTTL /\ older >= row.age
        /\ longer \in NotSent .. AckTimeout
    BY Bounds DEF AtMost, Rows, NotSent
  <1> HIDE DEF older, longer
  <1>2. aged \in Rows /\ SameRow(aged, row)
    BY <1>1, SetAge
  <1>3. final \in Rows /\ SameRow(final, aged)
    <2> HIDE DEF aged
    <2> QED BY <1>1, <1>2, SetSent
  <1>4. SameRow(final, row)
    <2> HIDE DEF aged, final
    <2> QED BY <1>2, <1>3, SameRowTwice
  <1>5. Aged(row) = row \/ Aged(row) = final
    BY Zenon DEF Aged, older, longer
  <1> HIDE DEF final
  <1> QED BY <1>3, <1>4, <1>5, UntouchedRow
-----------------------------------------------------------------------------
(* What a settled table is good for.                                       *)

LEMMA Untouched ==
    ASSUME CommandsTypeOK, UNCHANGED pendingCmds PROVE Settled
  BY UntouchedRow DEF CommandsTypeOK, Settled

\* The used rows hold commands still.
LEMMA SettledFilled ==
    ASSUME Filled, Settled
    PROVE  \A i \in Slots : pendingCmds'[i].state # "none" => pendingCmds'[i].cmd \in Commands
  BY DEF Filled, Settled, SameRow, Live

\* No collar gets a second profile command.
LEMMA SettledProfiles ==
    ASSUME OneProfilePerCollar, Settled PROVE OneProfilePerCollar'
  <1>1. \A i \in Slots : /\ pendingCmds'[i].cmd = pendingCmds[i].cmd
                         /\ Active(pendingCmds'[i]) => Active(pendingCmds[i])
    BY DEF Settled, SameRow, Active
  <1> QED BY <1>1, Zenon DEF OneProfilePerCollar

\* No command that is over comes back.
Kept(i) ==
    pendingCmds[i].state \in Ended =>
      \/ /\ pendingCmds'[i].state = pendingCmds[i].state
         /\ pendingCmds'[i].cmd = pendingCmds[i].cmd
      \/ /\ pendingCmds'[i].state = "queued"
         /\ \/ ~SameId(pendingCmds'[i].cmd, pendingCmds[i].cmd)
            \/ pendingCmds[i].age >= FeedbackTTL

LEMMA SettledKept ==
    ASSUME Settled PROVE \A i \in Slots : Kept(i)
  BY DEF Settled, SameRow, Kept, Live, Ended
-----------------------------------------------------------------------------
(* The steps that leave the table alone.                                   *)

Sendings == [Callers -> [at : {"idle", "queue", "fail"}, cmd : Commands \union {None}]]
CallersFilled(f) == \A r \in Callers : f[r].at # "idle" => f[r].cmd \in Commands

\* A caller goes on to another point of sendCommandFind.
LEMMA CallerMoves ==
    ASSUME sending \in Sendings, CallersFilled(sending),
           NEW r \in Callers, NEW at \in {"idle", "queue", "fail"},
           NEW c \in Commands \union {None}, at # "idle" => c \in Commands
    PROVE  /\ [sending EXCEPT ![r] = [at |-> at, cmd |-> c]] \in Sendings
           /\ CallersFilled([sending EXCEPT ![r] = [at |-> at, cmd |-> c]])
  BY DEF Sendings, CallersFilled

LEMMA QuietStep ==
    ASSUME IInv,
           \/ NothingHeard \/ (\E d \in Collars : HearUplink(d)) \/ NoOpportunity
           \/ NothingToTake \/ Transmit \/ TransmitFails \/ BeginCheck \/ SkipCheck
           \/ \E r \in Callers : EnqueueTimesOut(r)
    PROVE  CommandsTypeOK' /\ Filled' /\ Settled
  <1>1. CASE NothingHeard
    BY <1>1, Untouched DEF NothingHeard, IInv, CommandsTypeOK, Filled
  <1>2. CASE \E d \in Collars : HearUplink(d)
    BY <1>2, Untouched DEF HearUplink, IInv, CommandsTypeOK, Filled
  <1>3. CASE NoOpportunity
    BY <1>3, Untouched DEF NoOpportunity, IInv, CommandsTypeOK, Filled
  <1>4. CASE NothingToTake
    BY <1>4, Untouched DEF NothingToTake, IInv, CommandsTypeOK, Filled
  <1>5. CASE Transmit
    BY <1>5, Untouched DEF Transmit, IInv, CommandsTypeOK, Filled
  <1>6. CASE TransmitFails
    BY <1>6, Untouched, Bounds DEF TransmitFails, LosesCopy, IInv, CommandsTypeOK, Filled
  <1>7. CASE BeginCheck
    BY <1>7, Untouched, Bounds DEF BeginCheck, IInv, CommandsTypeOK, Filled
  <1>8. CASE SkipCheck
    BY <1>8, Untouched DEF SkipCheck, IInv, CommandsTypeOK, Filled
  <1>9. CASE \E r \in Callers : EnqueueTimesOut(r)
    <2>1. PICK r \in Callers : EnqueueTimesOut(r)
      BY <1>9
    <2>2. sending \in Sendings /\ CallersFilled(sending)
      BY DEF IInv, CommandsTypeOK, Filled, Sendings, CallersFilled
    <2>3. sending[r].cmd \in Commands
      BY <2>1, <2>2 DEF EnqueueTimesOut, CallersFilled
    <2>4. sending' = [sending EXCEPT ![r] = [at |-> "fail", cmd |-> sending[r].cmd]]
      <3> DEFINE caller == sending[r]
                 failing == [caller EXCEPT !.at = "fail"]
      <3>1. failing = [at |-> "fail", cmd |-> caller.cmd]
        <4>1. caller \in [at : {"idle", "queue", "fail"}, cmd : Commands \union {None}]
          BY <2>2 DEF Sendings
        <4> HIDE DEF caller
        <4> QED BY <4>1
      <3>2. sending' = [sending EXCEPT ![r] = failing]
        BY <2>1, Zenon DEF EnqueueTimesOut
      <3> QED BY <3>1, <3>2, Zenon
    <2>5. sending' \in Sendings /\ CallersFilled(sending')
      BY <2>2, <2>3, <2>4, CallerMoves
    <2> QED BY <2>1, <2>5, Untouched
      DEF EnqueueTimesOut, loraVars, IInv, CommandsTypeOK, Filled, Sendings, CallersFilled
  <1> QED BY <1>1, <1>2, <1>3, <1>4, <1>5, <1>6, <1>7, <1>8, <1>9

\* Those that use the queue, and those outside the hub's tasks.
LEMMA QueueStep ==
    ASSUME IInv,
           \/ Take
           \/ \E r \in Callers : Enqueue(r)
           \/ \E r \in Locals, c \in Commands : LocalRefused(r, c)
           \/ \E s \in CloudSeqs, c \in Commands : CloudIssues(s, c)
    PROVE  CommandsTypeOK' /\ Filled' /\ Settled
  <1>1. CASE Take
    <2>1. Head(cmdQueue) \in Commands /\ Tail(cmdQueue) \in Seq(Commands)
          /\ Len(Tail(cmdQueue)) <= QueueLen
      BY <1>1, Bounds DEF Take, IInv, CommandsTypeOK
    <2> QED BY <1>1, <2>1, Untouched DEF Take, IInv, CommandsTypeOK, Filled
  <1>2. CASE \E r \in Callers : Enqueue(r)
    <2>1. PICK r \in Callers : Enqueue(r)
      BY <1>2
    <2>2. sending[r].cmd \in Commands
      BY <2>1 DEF Enqueue, IInv, Filled
    <2>3. cmdQueue' \in Seq(Commands) /\ Len(cmdQueue') <= QueueLen
      BY <2>1, <2>2, Bounds DEF Enqueue, QueueHasRoom, IInv, CommandsTypeOK
    <2>4. sending \in Sendings /\ CallersFilled(sending)
      BY DEF IInv, CommandsTypeOK, Filled, Sendings, CallersFilled
    <2>5. sending' \in Sendings /\ CallersFilled(sending')
      BY <2>1, <2>4, CallerMoves DEF Enqueue
    <2> QED BY <2>1, <2>3, <2>5, Untouched
      DEF Enqueue, loraVars, IInv, CommandsTypeOK, Filled, Sendings, CallersFilled
  <1>3. CASE \E r \in Locals, c \in Commands : LocalRefused(r, c)
    <2>1. localSeq < MaxLocal /\ localSeq' = localSeq + 1
      BY <1>3 DEF LocalRefused, Unregistered
    <2>2. UNCHANGED <<pendingCmds, cmdQueue, sending, cloud, loraVars, sentIds, profileOrder>>
      BY <1>3 DEF LocalRefused, Unregistered
    <2>3. localSeq' \in 0 .. MaxLocal
      BY <2>1, Bounds DEF IInv, CommandsTypeOK
    <2> QED BY <2>2, <2>3, Untouched DEF loraVars, IInv, CommandsTypeOK, Filled
  <1>4. CASE \E s \in CloudSeqs, c \in Commands : CloudIssues(s, c)
    <2>1. PICK s \in CloudSeqs, c \in Commands : CloudIssues(s, c)
      BY <1>4
    <2> DEFINE entry == cloud[s]
               issued == [entry EXCEPT !.cmd = c]
    <2>2. issued \in [cmd : Commands \union {None}, age : 0 .. CommandTTL]
      BY DEF IInv, CommandsTypeOK
    <2>3. cloud' = [cloud EXCEPT ![s] = issued]
      BY <2>1, Zenon DEF CloudIssues
    <2>4. UNCHANGED <<pendingCmds, cmdQueue, localSeq, sending, loraVars, sentIds, profileOrder>>
      BY <2>1, Zenon DEF CloudIssues
    <2> HIDE DEF issued
    <2> QED BY <2>2, <2>3, <2>4, Untouched DEF loraVars, IInv, CommandsTypeOK, Filled
  <1> QED BY <1>1, <1>2, <1>3, <1>4
-----------------------------------------------------------------------------
(* The steps that assign to rows of used commands.                         *)

\* They assign to a row what an operation on one row makes of it.
LEMMA TableStep ==
    ASSUME IInv, \/ \E r \in Callers : MarkFailed(r)
                 \/ \E c \in sentIds : HearAck(c)
                 \/ NoteSent \/ CommandsTick
    PROVE  pendingCmds' \in [Slots -> Rows] /\ Settled
  <1> USE DEF IInv, CommandsTypeOK
  <1>0. ASSUME NEW new \in [Slots -> Rows], pendingCmds' = new \/ pendingCmds' = pendingCmds,
               \A i \in Slots : SameRow(new[i], pendingCmds[i])
        PROVE  pendingCmds' \in [Slots -> Rows] /\ Settled
    BY <1>0, UntouchedRow DEF Settled
  <1>1. ASSUME NEW r \in Callers, MarkFailed(r)
        PROVE  pendingCmds' \in [Slots -> Rows] /\ Settled
    <2> DEFINE new == [i \in Slots |-> IF Fails(pendingCmds[i], sending[r].cmd)
                                       THEN [pendingCmds[i] EXCEPT !.state = "failed"]
                                       ELSE pendingCmds[i]]
    <2>1. \A i \in Slots : new[i] \in Rows /\ SameRow(new[i], pendingCmds[i])
      BY SetState, UntouchedRow DEF Fails, Active, Ended
    <2>2. pendingCmds' = new \/ pendingCmds' = pendingCmds
      BY <1>1, Zenon DEF MarkFailed
    <2>3. new \in [Slots -> Rows]
      BY <2>1
    <2> HIDE DEF new
    <2> QED BY <1>0, <2>1, <2>2, <2>3
  <1>2. ASSUME NEW c \in sentIds, HearAck(c)
        PROVE  pendingCmds' \in [Slots -> Rows] /\ Settled
    <2> DEFINE new == [i \in Slots |-> IF Acknowledges(c, pendingCmds[i])
                                       THEN [pendingCmds[i] EXCEPT !.state = "acked"]
                                       ELSE pendingCmds[i]]
    <2>1. \A i \in Slots : new[i] \in Rows /\ SameRow(new[i], pendingCmds[i])
      BY SetState, UntouchedRow DEF Acknowledges, Pending, Active, Ended
    <2>2. pendingCmds' = new
      BY <1>2, Zenon DEF HearAck
    <2>3. new \in [Slots -> Rows]
      BY <2>1
    <2> HIDE DEF new
    <2> QED BY <1>0, <2>1, <2>2, <2>3
  <1>3. CASE NoteSent
    <2> DEFINE new == [i \in Slots |->
                         IF Noted(pendingCmds[i], held)
                         THEN [pendingCmds[i] EXCEPT !.sent = 0, !.state = "transmitted"]
                         ELSE pendingCmds[i]]
    <2>1. ASSUME NEW i \in Slots PROVE new[i] \in Rows /\ SameRow(new[i], pendingCmds[i])
      <3>0. pendingCmds[i] \in Rows
        OBVIOUS
      <3>1. CASE Noted(pendingCmds[i], held)
        <4>1. pendingCmds[i].state \in Live
          BY <3>1 DEF Noted, Active
        <4>2. new[i] = [pendingCmds[i] EXCEPT !.sent = 0, !.state = "transmitted"]
          BY <3>1, Zenon
        <4> HIDE DEF new
        <4> QED BY <3>0, <4>1, <4>2, NotedRow, Zenon
      <3>2. CASE ~Noted(pendingCmds[i], held)
        <4>1. new[i] = pendingCmds[i]
          BY <3>2, Zenon
        <4> HIDE DEF new
        <4> QED BY <3>0, <4>1, UntouchedRow
      <3> QED BY <3>1, <3>2
    <2>2. pendingCmds' = new \/ pendingCmds' = pendingCmds
      BY <1>3, Zenon DEF NoteSent
    <2> HIDE DEF new
    <2>3. \A i \in Slots : new[i] \in Rows /\ SameRow(new[i], pendingCmds[i])
      BY <2>1
    <2>4. new \in [Slots -> Rows]
      <3>1. new = [i \in Slots |-> new[i]]
        BY Zenon DEF new
      <3> QED BY <2>3, <3>1
    <2> QED BY <1>0, <2>2, <2>3, <2>4
  <1>4. CASE CommandsTick
    <2> DEFINE new == [i \in Slots |-> Aged(pendingCmds[i])]
    <2>1. \A i \in Slots : new[i] \in Rows /\ SameRow(new[i], pendingCmds[i])
      BY AgedRow
    <2>2. pendingCmds' = new
      BY <1>4, Zenon DEF CommandsTick
    <2>3. new \in [Slots -> Rows]
      BY <2>1
    <2> HIDE DEF new
    <2> QED BY <1>0, <2>1, <2>2, <2>3
  <1> QED BY <1>1, <1>2, <1>3, <1>4
\* And what these steps do to the rest of the state.
LEMMA TableStepTypes ==
    ASSUME IInv, \/ \E r \in Callers : MarkFailed(r)
                 \/ \E c \in sentIds : HearAck(c)
                 \/ NoteSent \/ CommandsTick
    PROVE  CommandsTypeOK' /\ Filled' /\ Settled
  <1>1. pendingCmds' \in [Slots -> Rows] /\ Settled
    BY TableStep
  <1>2. \A i \in Slots : pendingCmds'[i].state # "none" => pendingCmds'[i].cmd \in Commands
    BY <1>1, SettledFilled DEF IInv
  <1>3. sending \in Sendings /\ CallersFilled(sending)
    BY DEF IInv, CommandsTypeOK, Filled, Sendings, CallersFilled
  <1>4. ASSUME NEW r \in Callers, MarkFailed(r) PROVE CommandsTypeOK' /\ Filled'
    <2>1. sending' \in Sendings /\ CallersFilled(sending')
      BY <1>3, <1>4, CallerMoves DEF MarkFailed
    <2> QED BY <1>1, <1>2, <1>4, <2>1
      DEF MarkFailed, loraVars, IInv, CommandsTypeOK, Filled, Sendings, CallersFilled
  <1>5. ASSUME NEW c \in sentIds, HearAck(c) PROVE CommandsTypeOK' /\ Filled'
    <2>1. heardFrom' \subseteq Collars
      BY <1>5 DEF HearAck, IInv, CommandsTypeOK, Commands
    <2> QED BY <1>1, <1>2, <1>5, <2>1 DEF HearAck, IInv, CommandsTypeOK, Filled
  <1>6. CASE NoteSent
    <2>1. /\ sinceTx' = 0 /\ opportunity' = 0 /\ held' = None /\ lora' = "check"
          /\ UNCHANGED <<cmdQueue, localSeq, sending, cloud, heardFrom, checking, sentIds,
                         profileOrder>>
      BY <1>6, Zenon DEF NoteSent
    <2> QED BY <1>1, <1>2, <2>1, Bounds DEF IInv, CommandsTypeOK, Filled
  <1>7. CASE CommandsTick
    <2>1. sinceTx' \in 0 .. Interval /\ opportunity' \in 0 .. Window
      <3>1. /\ sinceTx' = AtMost(sinceTx + 1, Interval)
            /\ opportunity' = IF opportunity = 0 THEN 0 ELSE opportunity - 1
        BY <1>7, Zenon DEF CommandsTick
      <3> QED BY <3>1, Bounds DEF AtMost, IInv, CommandsTypeOK
    <2>2. ASSUME NEW s \in CloudSeqs, NEW n \in 0 .. CommandTTL
          PROVE  [cloud[s] EXCEPT !.age = n] \in [cmd : Commands \union {None}, age : 0 .. CommandTTL]
      BY DEF IInv, CommandsTypeOK
    <2>3. \A s \in CloudSeqs : AtMost(cloud[s].age + 1, CommandTTL) \in 0 .. CommandTTL
      BY Bounds DEF AtMost, IInv, CommandsTypeOK
    <2>4. cloud' \in [CloudSeqs -> [cmd : Commands \union {None}, age : 0 .. CommandTTL]]
      BY <1>7, <2>2, <2>3 DEF CommandsTick, IInv, CommandsTypeOK
    <2> QED BY <1>1, <1>2, <1>7, <2>1, <2>4 DEF CommandsTick, IInv, CommandsTypeOK, Filled
  <1> QED BY <1>1, <1>4, <1>5, <1>6, <1>7

\* An uplink and a look at a slot assign to one row and may use the queue.
LEMMA OneRow ==
    ASSUME CommandsTypeOK, NEW i \in Slots, NEW row \in Rows, SameRow(row, pendingCmds[i]),
           pendingCmds' = [pendingCmds EXCEPT ![i] = row]
    PROVE  pendingCmds' \in [Slots -> Rows] /\ Settled
  BY UntouchedRow DEF CommandsTypeOK, Settled

LEMMA RxOpportunityStep ==
    ASSUME IInv, RxOpportunity PROVE CommandsTypeOK' /\ Filled' /\ Settled
  <1>1. PICK i \in Slots :
          /\ Pending(pendingCmds[i])
          /\ pendingCmds' = [pendingCmds EXCEPT ![i] = Refreshed(pendingCmds[i])]
          /\ cmdQueue' = IF QueueHasRoom THEN <<pendingCmds[i].cmd>> \o cmdQueue ELSE cmdQueue
    BY Zenon DEF RxOpportunity, FirstPendingFor
  <1>2. pendingCmds[i] \in Rows /\ pendingCmds[i].cmd \in Commands
    BY <1>1 DEF IInv, CommandsTypeOK, Filled, Pending, Active, Live
  <1>3. pendingCmds' \in [Slots -> Rows] /\ Settled
    BY <1>1, <1>2, RefreshedRow, OneRow DEF IInv
  <1>4. cmdQueue' \in Seq(Commands) /\ Len(cmdQueue') <= QueueLen
    BY <1>1, <1>2, Bounds DEF QueueHasRoom, IInv, CommandsTypeOK
  <1>5. \A j \in Slots : pendingCmds'[j].state # "none" => pendingCmds'[j].cmd \in Commands
    BY <1>3, SettledFilled DEF IInv
  <1> QED BY <1>3, <1>4, <1>5, Bounds DEF RxOpportunity, IInv, CommandsTypeOK, Filled

LEMMA CheckSlotStep ==
    ASSUME IInv, CheckSlot PROVE CommandsTypeOK' /\ Filled' /\ Settled
  <1> DEFINE row == pendingCmds[checking]
  <1>1. checking \in Slots /\ row \in Rows
    BY DEF CheckSlot, IInv, CommandsTypeOK
  <1>2. pendingCmds' \in [Slots -> Rows] /\ Settled
    <2>1. Checked(row) \in Rows /\ SameRow(Checked(row), row)
      BY <1>1, CheckedRow
    <2>2. pendingCmds' = [pendingCmds EXCEPT ![checking] = Checked(row)]
      BY Zenon DEF CheckSlot
    <2> QED BY <1>1, <2>1, <2>2, OneRow DEF IInv
  <1>3. cmdQueue' \in Seq(Commands) /\ Len(cmdQueue') <= QueueLen
    <2>1. CASE Unanswered(row) /\ MayRetry(row) /\ QueueHasRoom
      <3>1. row.cmd \in Commands
        BY <1>1, <2>1 DEF Unanswered, Pending, Active, Live, IInv, Filled
      <3>2. cmdQueue' = Append(cmdQueue, row.cmd)
        BY <2>1, Zenon DEF CheckSlot
      <3> HIDE DEF row
      <3> QED BY <2>1, <3>1, <3>2, Bounds DEF QueueHasRoom, IInv, CommandsTypeOK
    <2>2. CASE ~(Unanswered(row) /\ MayRetry(row) /\ QueueHasRoom)
      <3>1. cmdQueue' = cmdQueue
        BY <2>2, Zenon DEF CheckSlot
      <3> QED BY <3>1 DEF IInv, CommandsTypeOK
    <2> QED BY <2>1, <2>2
  <1>4. checking' \in 0 .. NumSlots /\ lora' \in {"rx", lora}
    BY <1>1, Bounds DEF CheckSlot, Slots
  <1>5. \A i \in Slots : pendingCmds'[i].state # "none" => pendingCmds'[i].cmd \in Commands
    BY <1>2, SettledFilled DEF IInv
  <1>6. UNCHANGED <<localSeq, sending, cloud, held, heardFrom, sinceTx, opportunity, sentIds,
                    profileOrder>>
    BY Zenon DEF CheckSlot
  <1> QED BY <1>2, <1>3, <1>4, <1>5, <1>6 DEF IInv, CommandsTypeOK, Filled
-----------------------------------------------------------------------------
(* Registration, the one step that gives a row to another command.         *)

\* What supersession leaves: the old rows, of which those of the same collar
\* and type are no longer active.
LEMMA Superseding ==
    ASSUME CommandsTypeOK, NEW c \in Commands
    PROVE  /\ AfterSuperseding(c) \in [Slots -> Rows]
           /\ \A i \in Slots :
                /\ SameRow(AfterSuperseding(c)[i], pendingCmds[i])
                /\ ~Supersedes(c, AfterSuperseding(c)[i])
  <1>1. ASSUME NEW i \in Slots
        PROVE  /\ AfterSuperseding(c)[i] \in Rows
               /\ SameRow(AfterSuperseding(c)[i], pendingCmds[i])
               /\ ~Supersedes(c, AfterSuperseding(c)[i])
    <2>1. pendingCmds[i] \in Rows
      BY DEF CommandsTypeOK
    <2>2. CASE Supersedes(c, pendingCmds[i])
      <3> DEFINE new == [pendingCmds[i] EXCEPT !.state = "superseded"]
      <3>1. AfterSuperseding(c)[i] = new
        BY <2>2, Zenon DEF AfterSuperseding
      <3>2. new \in Rows /\ SameRow(new, pendingCmds[i])
        BY <2>1, <2>2, SetState DEF Supersedes, Active, Ended
      <3>3. new.state = "superseded"
        BY <2>1 DEF Rows
      <3> HIDE DEF new
      <3> QED BY <3>1, <3>2, <3>3 DEF Supersedes, Active, Live
    <2>3. CASE ~Supersedes(c, pendingCmds[i])
      <3>1. AfterSuperseding(c)[i] = pendingCmds[i]
        BY <2>3, Zenon DEF AfterSuperseding
      <3> QED BY <2>1, <2>3, <3>1, UntouchedRow
    <2> QED BY <2>2, <2>3
  <1>2. AfterSuperseding(c) = [i \in Slots |-> AfterSuperseding(c)[i]]
    BY Zenon DEF AfterSuperseding
  <1> QED BY <1>1, <1>2

LEMMA RegisterStep ==
    ASSUME IInv, NEW r \in Callers, NEW c \in Commands, NEW age \in 0 .. CommandTTL,
           localSeq' \in 0 .. MaxLocal, Register(r, c, age)
    PROVE  IInv' /\ \A i \in Slots : Kept(i)
  <1> DEFINE table == AfterSuperseding(c)
  <1>1. /\ table \in [Slots -> Rows]
        /\ \A j \in Slots : SameRow(table[j], pendingCmds[j]) /\ ~Supersedes(c, table[j])
    BY Superseding DEF IInv
  <1>2. PICK i \in Slots : /\ Reusable(table, i)
                           /\ pendingCmds' = [table EXCEPT ![i] = NewRow(c, age)]
    BY Zenon DEF Register
  <1> HIDE DEF table
  <1>3. NewRow(c, age) \in Rows
    BY Bounds DEF NewRow, Rows, States, Live, NotSent
  <1>4. /\ pendingCmds' \in [Slots -> Rows]
        /\ pendingCmds'[i] = NewRow(c, age)
        /\ \A j \in Slots \ {i} : pendingCmds'[j] = table[j]
    BY <1>1, <1>2, <1>3
  <1>5. NewRow(c, age).cmd = c /\ NewRow(c, age).state = "queued"
    BY DEF NewRow
  <1>6. CommandsTypeOK'
    <2>1. sending' \in Sendings
      <3>1. sending \in Sendings /\ CallersFilled(sending)
        BY DEF IInv, CommandsTypeOK, Filled, Sendings, CallersFilled
      <3> QED BY <3>1, CallerMoves, Zenon DEF Register
    <2>2. profileOrder' \in Seq(Commands)
      BY DEF Register, IInv, CommandsTypeOK
    <2> QED BY <1>4, <2>1, <2>2 DEF Register, loraVars, IInv, CommandsTypeOK, Sendings
  <1>7. Filled'
    <2>1. ASSUME NEW j \in Slots, pendingCmds'[j].state # "none"
          PROVE  pendingCmds'[j].cmd \in Commands
      <3>1. CASE j = i
        BY <3>1, <1>4, <1>5
      <3>2. CASE j # i
        <4>1. SameRow(pendingCmds'[j], pendingCmds[j])
          BY <3>2, <1>1, <1>4
        <4> QED BY <2>1, <4>1 DEF SameRow, Live, IInv, Filled
      <3> QED BY <3>1, <3>2
    <2>2. CallersFilled(sending')
      <3>1. sending \in Sendings /\ CallersFilled(sending)
        BY DEF IInv, CommandsTypeOK, Filled, Sendings, CallersFilled
      <3> QED BY <3>1, CallerMoves, Zenon DEF Register
    <2> QED BY <2>1, <2>2 DEF Register, loraVars, IInv, Filled, CallersFilled
  <1>8. OneProfilePerCollar'
    <2>1. ASSUME NEW j \in Slots \ {i}, Active(pendingCmds'[j])
          PROVE  Active(pendingCmds[j]) /\ pendingCmds'[j].cmd = pendingCmds[j].cmd
      BY <2>1, <1>1, <1>4 DEF SameRow, Active
    <2>2. ASSUME NEW j \in Slots \ {i}, Active(pendingCmds'[j]), IsMode(pendingCmds'[j].cmd),
                 pendingCmds'[j].cmd.target = c.target
          PROVE  ~IsMode(c)
      BY <2>2, <1>1, <1>4 DEF Supersedes
    <2>3. ASSUME NEW j \in Slots, NEW k \in Slots,
                 Active(pendingCmds'[j]), IsMode(pendingCmds'[j].cmd),
                 Active(pendingCmds'[k]), IsMode(pendingCmds'[k].cmd),
                 pendingCmds'[j].cmd.target = pendingCmds'[k].cmd.target
          PROVE  j = k
      <3>1. CASE j # i /\ k # i
        BY <2>3, <2>1, <3>1 DEF IInv, OneProfilePerCollar
      <3>2. CASE j = i \/ k = i
        BY <2>3, <2>2, <3>2, <1>4, <1>5
      <3> QED BY <3>1, <3>2
    <2> QED BY <2>3 DEF OneProfilePerCollar
  <1>9. ASSUME NEW j \in Slots PROVE Kept(j)
    <2>1. CASE j # i
      BY <2>1, <1>1, <1>4 DEF SameRow, Kept, Live, Ended
    <2>2. CASE j = i
      <3>1. ~(Holds(pendingCmds[i], c) /\ pendingCmds[i].age < FeedbackTTL)
        BY DEF Register, Known
      <3>2. pendingCmds[i].age \in 0 .. FeedbackTTL
        BY DEF IInv, CommandsTypeOK, Rows
      <3>3. pendingCmds[i].state \in Ended => pendingCmds[i].state # "none"
        BY DEF Ended
      <3> QED BY <2>2, <3>1, <3>2, <3>3, <1>4, <1>5, Bounds DEF Kept, Holds, SameId
    <2> QED BY <2>1, <2>2
  <1> QED BY <1>6, <1>7, <1>8, <1>9 DEF IInv

\* Every step keeps the inductive invariant and what is over.
LEMMA Step ==
    ASSUME IInv, [CommandsNext]_vars PROVE IInv' /\ \A i \in Slots : Kept(i)
  <1>0. ASSUME CommandsTypeOK', Filled', Settled
        PROVE  IInv' /\ \A i \in Slots : Kept(i)
    BY <1>0, SettledProfiles, SettledKept DEF IInv
  <1>1. CASE LoraStep
    <2>1. CASE \/ NothingHeard \/ (\E d \in Collars : HearUplink(d)) \/ NoOpportunity
               \/ NothingToTake \/ Transmit \/ TransmitFails \/ BeginCheck \/ SkipCheck
      BY <1>0, <2>1, QuietStep
    <2>2. CASE Take
      BY <1>0, <2>2, QueueStep
    <2>3. CASE NoteSent \/ \E c \in sentIds : HearAck(c)
      BY <1>0, <2>3, TableStepTypes
    <2>4. CASE RxOpportunity
      BY <1>0, <2>4, RxOpportunityStep
    <2>5. CASE CheckSlot
      BY <1>0, <2>5, CheckSlotStep
    <2> QED BY <1>1, <2>1, <2>2, <2>3, <2>4, <2>5 DEF LoraStep, Hear
  <1>2. ASSUME NEW r \in Locals, NEW c \in Commands, LocalCommand(r, c)
        PROVE  IInv' /\ \A i \in Slots : Kept(i)
    <2>1. localSeq' \in 0 .. MaxLocal /\ 0 \in 0 .. CommandTTL /\ r \in Callers
      BY <1>2, Bounds DEF LocalCommand, Callers, IInv, CommandsTypeOK
    <2> QED BY <1>2, <2>1, RegisterStep DEF LocalCommand
  <1>3. ASSUME NEW s \in CloudSeqs, CloudCommand(s)
        PROVE  IInv' /\ \A i \in Slots : Kept(i)
    <2>1. /\ cloud[s].cmd \in Commands /\ InitialAge(s) \in 0 .. CommandTTL
          /\ localSeq' \in 0 .. MaxLocal /\ Cloud \in Callers
      BY <1>3 DEF CloudCommand, InitialAge, Callers, IInv, CommandsTypeOK
    <2> QED BY <1>3, <2>1, RegisterStep DEF CloudCommand
  <1>4. CASE \E r \in Locals, c \in Commands : LocalRefused(r, c)
    BY <1>0, <1>4, QueueStep
  <1>5. CASE \E r \in Callers : SendingStep(r)
    <2>1. CASE \E r \in Callers : Enqueue(r)
      BY <1>0, <2>1, QueueStep
    <2>2. CASE \E r \in Callers : EnqueueTimesOut(r)
      BY <1>0, <2>2, QuietStep
    <2>3. CASE \E r \in Callers : MarkFailed(r)
      BY <1>0, <2>3, TableStepTypes
    <2> QED BY <1>5, <2>1, <2>2, <2>3 DEF SendingStep
  <1>6. CASE \E s \in CloudSeqs, c \in Commands : CloudIssues(s, c)
    BY <1>0, <1>6, QueueStep
  <1>7. CASE CommandsTick
    BY <1>0, <1>7, TableStepTypes
  <1>8. CASE UNCHANGED vars
    <2>1. CommandsTypeOK'
      BY <1>8 DEF vars, loraVars, IInv, CommandsTypeOK
    <2>2. Filled'
      BY <1>8 DEF vars, loraVars, IInv, Filled
    <2>3. Settled
      BY <1>8, Untouched DEF vars, IInv
    <2> QED BY <1>0, <2>1, <2>2, <2>3
  <1> QED BY <1>1, <1>2, <1>3, <1>4, <1>5, <1>6, <1>7, <1>8, LocalRequests DEF CommandsNext
-----------------------------------------------------------------------------
(* The deadline of a cloud command.  A row may only be compared with a      *)
(* command the cloud really has, so the invariant says which number each    *)
(* command of the cloud has, and that a cloud without one shows no age.     *)

CloudNumbered ==
    \A s \in CloudSeqs :
      \/ cloud[s].cmd = None /\ cloud[s].age = 0
      \/ cloud[s].cmd \in Commands /\ cloud[s].cmd.seq = s

\* For every used row, finished or not: a finished row may not become younger.
RowsAsOld ==
    \A i \in Slots, s \in CloudSeqs :
      pendingCmds[i].state # "none" /\ pendingCmds[i].cmd = cloud[s].cmd /\ s > MaxLocal
        => pendingCmds[i].age >= cloud[s].age

DeadlineInv == CloudNumbered /\ RowsAsOld

\* Rows that keep their command and do not get younger need nothing more while
\* the cloud's commands are as they were.
LEMMA SettledDeadline ==
    ASSUME IInv, IInv', DeadlineInv, Settled, UNCHANGED cloud PROVE DeadlineInv'
  <1>1. CloudNumbered'
    BY DEF DeadlineInv, CloudNumbered
  <1>2. ASSUME NEW i \in Slots, NEW s \in CloudSeqs, s > MaxLocal,
               pendingCmds'[i].state # "none", pendingCmds'[i].cmd = cloud[s].cmd
        PROVE  pendingCmds'[i].age >= cloud[s].age
    <2>1. SameRow(pendingCmds'[i], pendingCmds[i])
      BY DEF Settled
    <2>2. pendingCmds[i].state # "none" /\ pendingCmds[i].cmd = cloud[s].cmd
      BY <1>2, <2>1 DEF SameRow, Live
    <2>3. pendingCmds[i].age >= cloud[s].age
      BY <1>2, <2>2 DEF DeadlineInv, RowsAsOld
    <2>4. /\ pendingCmds'[i].age \in Int /\ pendingCmds[i].age \in Int
          /\ cloud[s].age \in Int
      <3>1. pendingCmds'[i] \in Rows /\ pendingCmds[i] \in Rows
        BY DEF IInv, CommandsTypeOK
      <3>2. cloud[s] \in [cmd : Commands \union {None}, age : 0 .. CommandTTL]
        BY DEF IInv, CommandsTypeOK
      <3> QED BY <3>1, <3>2, Bounds DEF Rows
    <2> QED BY <2>1, <2>3, <2>4 DEF SameRow
  <1> QED BY <1>1, <1>2 DEF DeadlineInv, RowsAsOld

\* A newly issued command has no age yet.
LEMMA IssueDeadline ==
    ASSUME IInv, IInv', DeadlineInv, NEW s \in CloudSeqs, NEW c \in Commands,
           CloudIssues(s, c)
    PROVE  DeadlineInv'
  <1> DEFINE entry == cloud[s]
             issued == [entry EXCEPT !.cmd = c]
  <1>1. entry.cmd = None /\ entry.age = 0 /\ c.seq = s
    <2>1. entry.cmd = None /\ c.seq = s
      BY Zenon DEF CloudIssues
    <2>2. None \notin Commands
      BY CommandsAssumption, Bounds DEF None, Commands, Seqs
    <2> QED BY <2>1, <2>2 DEF DeadlineInv, CloudNumbered
  <1>2. issued.cmd = c /\ issued.age = 0
    BY <1>1 DEF IInv, CommandsTypeOK
  <1>3. cloud' = [cloud EXCEPT ![s] = issued] /\ pendingCmds' = pendingCmds
    BY Zenon DEF CloudIssues
  <1> HIDE DEF issued, entry
  <1>4. cloud'[s] = issued /\ \A t \in CloudSeqs \ {s} : cloud'[t] = cloud[t]
    BY <1>3 DEF IInv, CommandsTypeOK
  <1>5. CloudNumbered'
    BY <1>1, <1>2, <1>4 DEF DeadlineInv, CloudNumbered
  <1>6. \A i \in Slots : pendingCmds[i].age >= 0
    BY Bounds DEF IInv, CommandsTypeOK, Rows
  <1>7. RowsAsOld'
    BY <1>2, <1>3, <1>4, <1>6 DEF DeadlineInv, RowsAsOld
  <1> QED BY <1>5, <1>7 DEF DeadlineInv

\* A tick ages both.
LEMMA TickCloud ==
    ASSUME IInv, CommandsTick, NEW s \in CloudSeqs
    PROVE  /\ cloud'[s].cmd = cloud[s].cmd
           /\ cloud[s].cmd = None => cloud'[s].age = cloud[s].age
           /\ cloud[s].cmd # None => cloud'[s].age = AtMost(cloud[s].age + 1, CommandTTL)
  <1> DEFINE entry == cloud[s]
             older == AtMost(entry.age + 1, CommandTTL)
             aged == [entry EXCEPT !.age = older]
  <1>1. cloud'[s] = IF entry.cmd = None THEN entry ELSE aged
    BY DEF CommandsTick
  <1>2. aged.cmd = entry.cmd /\ aged.age = older
    <2> HIDE DEF older
    <2> QED BY DEF IInv, CommandsTypeOK
  <1> HIDE DEF aged, older
  <1>3. cloud'[s].cmd = entry.cmd /\ (entry.cmd = None => cloud'[s].age = entry.age)
        /\ (entry.cmd # None => cloud'[s].age = older)
    BY <1>1, <1>2
  <1> QED BY <1>3 DEF older

LEMMA TickRow ==
    ASSUME IInv, CommandsTick, NEW i \in Slots, pendingCmds'[i].state # "none"
    PROVE  /\ pendingCmds[i].state # "none"
           /\ pendingCmds'[i].cmd = pendingCmds[i].cmd
           /\ pendingCmds'[i].age = AtMost(pendingCmds[i].age + 1, FeedbackTTL)
  <1> DEFINE row == pendingCmds[i]
             older == AtMost(row.age + 1, FeedbackTTL)
             aged == [row EXCEPT !.age = older]
             longer == IF row.sent = NotSent \/ ~Active(row) THEN row.sent
                       ELSE AtMost(row.sent + 1, AckTimeout)
             final == [aged EXCEPT !.sent = longer]
  <1>1. row \in Rows
    BY DEF IInv, CommandsTypeOK
  <1>2. pendingCmds'[i] = Aged(row)
    BY DEF CommandsTick
  <1>3. Aged(row) = IF row.state = "none" THEN row ELSE final
    BY Zenon DEF Aged
  <1>4. row.state # "none"
    BY <1>2, <1>3
  <1>5. final.cmd = row.cmd /\ final.age = older
    <2>1. aged.cmd = row.cmd /\ aged.age = older
      <3> HIDE DEF older
      <3> QED BY <1>1 DEF Rows
    <2>2. final.cmd = aged.cmd /\ final.age = aged.age
      BY <1>1 DEF Rows
    <2> QED BY <2>1, <2>2, Zenon
  <1> HIDE DEF final
  <1> QED BY <1>2, <1>3, <1>4, <1>5

LEMMA TickDeadline ==
    ASSUME IInv, IInv', DeadlineInv, CommandsTick PROVE DeadlineInv'
  <1>1. CloudNumbered'
    BY TickCloud, CommandsAssumption, Bounds
    DEF DeadlineInv, CloudNumbered, None, Commands, Seqs
  <1>2. ASSUME NEW i \in Slots, NEW s \in CloudSeqs, s > MaxLocal,
               pendingCmds'[i].state # "none", pendingCmds'[i].cmd = cloud'[s].cmd
        PROVE  pendingCmds'[i].age >= cloud'[s].age
    <2>1. pendingCmds[i].age \in 0 .. FeedbackTTL /\ cloud[s].age \in 0 .. CommandTTL
      BY DEF IInv, CommandsTypeOK, Rows
    <2>2. pendingCmds[i].age >= cloud[s].age
      BY TickCloud, TickRow, <1>2 DEF DeadlineInv, RowsAsOld
    <2>3. cloud'[s].age = cloud[s].age \/ cloud'[s].age = AtMost(cloud[s].age + 1, CommandTTL)
      BY TickCloud
    <2>4. pendingCmds'[i].age = AtMost(pendingCmds[i].age + 1, FeedbackTTL)
      BY TickRow, <1>2
    <2> QED BY <2>1, <2>2, <2>3, <2>4, Bounds DEF AtMost
  <1> QED BY <1>1, <1>2 DEF DeadlineInv, RowsAsOld

\* A registered command is as old as in the cloud, or has a local number.
LEMMA RegisterDeadline ==
    ASSUME IInv, IInv', DeadlineInv, NEW r \in Callers, NEW c \in Commands,
           NEW age \in 0 .. CommandTTL, Register(r, c, age),
           \A s \in CloudSeqs : s > MaxLocal /\ cloud[s].cmd = c => age >= cloud[s].age
    PROVE  DeadlineInv'
  <1> DEFINE table == AfterSuperseding(c)
  <1>1. /\ table \in [Slots -> Rows]
        /\ \A j \in Slots : SameRow(table[j], pendingCmds[j])
    BY Superseding DEF IInv
  <1>2. PICK i \in Slots : pendingCmds' = [table EXCEPT ![i] = NewRow(c, age)]
    BY Zenon DEF Register
  <1>3. UNCHANGED cloud
    BY Zenon DEF Register
  <1> HIDE DEF table
  <1>4. /\ pendingCmds'[i] = NewRow(c, age)
        /\ \A j \in Slots \ {i} : pendingCmds'[j] = table[j]
    BY <1>1, <1>2
  <1>5. NewRow(c, age).cmd = c /\ NewRow(c, age).age = age
    BY DEF NewRow
  <1>6. ASSUME NEW j \in Slots, NEW s \in CloudSeqs, s > MaxLocal,
               pendingCmds'[j].state # "none", pendingCmds'[j].cmd = cloud[s].cmd
        PROVE  pendingCmds'[j].age >= cloud[s].age
    <2>1. CASE j = i
      BY <1>4, <1>5, <1>6, <2>1
    <2>2. CASE j # i
      <3>1. SameRow(pendingCmds'[j], pendingCmds[j])
        BY <1>1, <1>4, <2>2
      <3>2. pendingCmds[j].state # "none" /\ pendingCmds[j].cmd = cloud[s].cmd
        BY <1>6, <3>1 DEF SameRow, Live
      <3>3. pendingCmds[j].age >= cloud[s].age
        BY <1>6, <3>2 DEF DeadlineInv, RowsAsOld
      <3>4. /\ pendingCmds'[j].age \in Int /\ pendingCmds[j].age \in Int
            /\ cloud[s].age \in Int
        <4>1. pendingCmds'[j] \in Rows /\ pendingCmds[j] \in Rows
          BY DEF IInv, CommandsTypeOK
        <4>2. cloud[s] \in [cmd : Commands \union {None}, age : 0 .. CommandTTL]
          BY DEF IInv, CommandsTypeOK
        <4> QED BY <4>1, <4>2, Bounds DEF Rows
      <3> QED BY <3>1, <3>3, <3>4 DEF SameRow
    <2> QED BY <2>1, <2>2
  <1> QED BY <1>3, <1>6 DEF DeadlineInv, CloudNumbered, RowsAsOld

LEMMA DeadlineStep ==
    ASSUME IInv, IInv', DeadlineInv, [CommandsNext]_vars PROVE DeadlineInv'
  <1>1. ASSUME Settled, UNCHANGED cloud PROVE DeadlineInv'
    BY <1>1, SettledDeadline
  <1>2. CASE LoraStep
    <2>1. CASE \/ NothingHeard \/ (\E d \in Collars : HearUplink(d)) \/ NoOpportunity
               \/ NothingToTake \/ Transmit \/ TransmitFails \/ BeginCheck \/ SkipCheck
      <3>1. UNCHANGED cloud
        BY <2>1 DEF NothingHeard, HearUplink, NoOpportunity, NothingToTake, Transmit,
                    TransmitFails, LosesCopy, BeginCheck, SkipCheck
      <3> QED BY <1>1, <2>1, <3>1, QuietStep
    <2>2. CASE Take
      BY <1>1, <2>2, QueueStep DEF Take
    <2>3. CASE NoteSent \/ \E c \in sentIds : HearAck(c)
      <3>1. UNCHANGED cloud
        BY <2>3, Zenon DEF NoteSent, HearAck
      <3> QED BY <1>1, <2>3, <3>1, TableStepTypes
    <2>4. CASE RxOpportunity
      BY <1>1, <2>4, RxOpportunityStep DEF RxOpportunity
    <2>5. CASE CheckSlot
      <3>1. UNCHANGED cloud
        BY <2>5, Zenon DEF CheckSlot
      <3> QED BY <1>1, <2>5, <3>1, CheckSlotStep
    <2> QED BY <1>2, <2>1, <2>2, <2>3, <2>4, <2>5 DEF LoraStep, Hear
  <1>3. ASSUME NEW r \in Locals, NEW c \in Commands, LocalCommand(r, c)
        PROVE  DeadlineInv'
    <2>1. c.seq = localSeq + 1 /\ localSeq < MaxLocal /\ Register(r, c, 0)
      BY <1>3, Zenon DEF LocalCommand
    <2>2. ASSUME NEW s \in CloudSeqs, s > MaxLocal PROVE cloud[s].cmd # c
      <3>1. localSeq \in Int
        BY Bounds DEF IInv, CommandsTypeOK
      <3>2. s \in Int
        BY CommandsAssumption
      <3>3. cloud[s].cmd = None \/ cloud[s].cmd.seq = s
        BY DEF DeadlineInv, CloudNumbered
      <3>4. None \notin Commands
        BY CommandsAssumption, Bounds DEF None, Commands, Seqs
      <3> QED BY <2>1, <2>2, <3>1, <3>2, <3>3, <3>4, Bounds
    <2>3. 0 \in 0 .. CommandTTL /\ r \in Callers
      BY Bounds DEF Callers
    <2> QED BY <2>1, <2>2, <2>3, RegisterDeadline
  <1>4. ASSUME NEW s \in CloudSeqs, CloudCommand(s) PROVE DeadlineInv'
    <2>1. /\ cloud[s].cmd \in Commands /\ cloud[s].age \in 0 .. CommandTTL
          /\ cloud[s].cmd.seq = s /\ Cloud \in Callers
      BY <1>4 DEF CloudCommand, Callers, IInv, CommandsTypeOK, DeadlineInv, CloudNumbered
    <2>2. Register(Cloud, cloud[s].cmd, cloud[s].age)
      BY <1>4, Zenon DEF CloudCommand, InitialAge
    <2>3. ASSUME NEW t \in CloudSeqs, cloud[t].cmd = cloud[s].cmd
          PROVE  cloud[s].age >= cloud[t].age
      <3>1. None \notin Commands
        BY CommandsAssumption, Bounds DEF None, Commands, Seqs
      <3>2. t = s
        BY <2>1, <2>3, <3>1 DEF DeadlineInv, CloudNumbered
      <3> QED BY <2>1, <3>2, Bounds
    <2> QED BY <2>1, <2>2, <2>3, RegisterDeadline
  <1>5. CASE \E r \in Locals, c \in Commands : LocalRefused(r, c)
    <2>1. UNCHANGED cloud
      BY <1>5, Zenon DEF LocalRefused, Unregistered
    <2> QED BY <1>1, <1>5, <2>1, QueueStep
  <1>6. CASE \E r \in Callers : SendingStep(r)
    <2>1. CASE \E r \in Callers : Enqueue(r)
      BY <1>1, <2>1, QueueStep DEF Enqueue
    <2>2. CASE \E r \in Callers : EnqueueTimesOut(r)
      BY <1>1, <2>2, QuietStep DEF EnqueueTimesOut
    <2>3. CASE \E r \in Callers : MarkFailed(r)
      <3>1. UNCHANGED cloud
        BY <2>3, Zenon DEF MarkFailed
      <3> QED BY <1>1, <2>3, <3>1, TableStepTypes
    <2> QED BY <1>6, <2>1, <2>2, <2>3 DEF SendingStep
  <1>7. CASE \E s \in CloudSeqs, c \in Commands : CloudIssues(s, c)
    BY <1>7, IssueDeadline
  <1>8. CASE CommandsTick
    BY <1>8, TickDeadline
  <1>9. CASE UNCHANGED vars
    BY <1>1, <1>9, Untouched DEF vars, IInv
  <1> QED BY <1>2, <1>3, <1>4, <1>5, <1>6, <1>7, <1>8, <1>9, LocalRequests
      DEF CommandsNext
-----------------------------------------------------------------------------
(* The steps, and the registration among them.                             *)

\* A registration, by a local caller with the next number or by the cloud task
\* with a number and an age of the cloud's.
LocalNumber(c, age) ==
    /\ localSeq < MaxLocal /\ c.seq = localSeq + 1 /\ localSeq' = localSeq + 1 /\ age = 0
CloudNumber(c, age) ==
    /\ \E s \in CloudSeqs : c = cloud[s].cmd /\ age = cloud[s].age /\ c.seq = s
    /\ age < CommandTTL
    /\ UNCHANGED localSeq
Registers(c, age) ==
    /\ \E r \in Callers : Register(r, c, age)
    /\ LocalNumber(c, age) \/ CloudNumber(c, age)

\* The other steps that register nothing.
Elsewhere ==
    \/ \E r \in Locals, c \in Commands : LocalRefused(r, c)
    \/ \E r \in Callers : SendingStep(r)
    \/ \E s \in CloudSeqs, c \in Commands : CloudIssues(s, c)
    \/ CommandsTick
    \/ UNCHANGED vars

\* Neither the LoRa task nor anything else gives a row to another command.
LEMMA LoraSettles == ASSUME IInv, LoraStep PROVE Settled /\ UNCHANGED profileOrder
  <1>1. CASE \/ NothingHeard \/ (\E d \in Collars : HearUplink(d)) \/ NoOpportunity
             \/ NothingToTake \/ Transmit \/ TransmitFails \/ BeginCheck \/ SkipCheck
    <2>1. UNCHANGED profileOrder
      BY <1>1, Zenon DEF NothingHeard, HearUplink, NoOpportunity, NothingToTake, Transmit,
                         TransmitFails, LosesCopy, BeginCheck, SkipCheck
    <2> QED BY <1>1, <2>1, QuietStep
  <1>2. CASE Take
    BY <1>2, QueueStep DEF Take
  <1>3. CASE NoteSent \/ \E c \in sentIds : HearAck(c)
    <2>1. UNCHANGED profileOrder
      BY <1>3, Zenon DEF NoteSent, HearAck
    <2> QED BY <1>3, <2>1, TableStepTypes
  <1>4. CASE RxOpportunity
    BY <1>4, RxOpportunityStep DEF RxOpportunity
  <1>5. CASE CheckSlot
    <2>1. UNCHANGED profileOrder
      BY <1>5, Zenon DEF CheckSlot
    <2> QED BY <1>5, <2>1, CheckSlotStep
  <1> QED BY <1>1, <1>2, <1>3, <1>4, <1>5 DEF LoraStep, Hear

LEMMA ElsewhereSettles == ASSUME IInv, Elsewhere PROVE Settled /\ UNCHANGED profileOrder
  <1>1. UNCHANGED profileOrder
    BY Zenon DEF Elsewhere, LocalRefused, Unregistered, SendingStep, Enqueue,
       EnqueueTimesOut, MarkFailed,
                 CloudIssues, CommandsTick, vars
  <1>2. CASE \E r \in Callers : EnqueueTimesOut(r)
    BY <1>1, <1>2, QuietStep
  <1>3. CASE \/ \E r \in Callers : Enqueue(r)
             \/ \E r \in Locals, c \in Commands : LocalRefused(r, c)
             \/ \E s \in CloudSeqs, c \in Commands : CloudIssues(s, c)
    BY <1>1, <1>3, QueueStep
  <1>4. CASE CommandsTick \/ \E r \in Callers : MarkFailed(r)
    BY <1>1, <1>4, TableStepTypes
  <1>5. CASE UNCHANGED vars
    BY <1>1, <1>5, Untouched DEF vars, IInv
  <1> QED BY <1>2, <1>3, <1>4, <1>5, Zenon DEF Elsewhere, SendingStep

\* A step is one of the LoRa task's, one elsewhere, or a registration.
LEMMA StepKinds ==
    ASSUME IInv, DeadlineInv, [CommandsNext]_vars
    PROVE  \/ LoraStep \/ Elsewhere
           \/ \E c \in Commands, age \in 0 .. CommandTTL : Registers(c, age)
  <1>1. ASSUME NEW r \in Locals, NEW c \in Commands, LocalCommand(r, c)
        PROVE  0 \in 0 .. CommandTTL /\ Registers(c, 0)
    <2>1. Registers(c, 0)
      BY <1>1, Zenon DEF LocalCommand, Registers, LocalNumber, Callers
    <2> QED BY <2>1, Bounds
  <1>2. ASSUME NEW s \in CloudSeqs, CloudCommand(s)
        PROVE  /\ cloud[s].cmd \in Commands /\ cloud[s].age \in 0 .. CommandTTL
               /\ Registers(cloud[s].cmd, cloud[s].age)
    <2>1. cloud[s].cmd \in Commands /\ cloud[s].cmd.seq = s /\ Cloud \in Callers
      BY <1>2 DEF CloudCommand, Callers, DeadlineInv, CloudNumbered
    <2>2. Register(Cloud, cloud[s].cmd, cloud[s].age) /\ cloud[s].age < CommandTTL
          /\ UNCHANGED localSeq
      BY <1>2, Zenon DEF CloudCommand, InitialAge
    <2>3. cloud[s].age \in 0 .. CommandTTL
      BY DEF IInv, CommandsTypeOK
    <2> QED BY <2>1, <2>2, <2>3, Zenon DEF Registers, CloudNumber
  <1> QED BY <1>1, <1>2, LocalRequests, Zenon DEF CommandsNext, Elsewhere
-----------------------------------------------------------------------------
(* Copies of commands.                                                     *)
InQueue(q, c) == \E k \in DOMAIN q : q[k] = c

\* What the operations on the queue keep in it.
LEMMA QueueOperations ==
    ASSUME NEW q \in Seq(Commands), NEW c \in Commands, NEW d \in Commands
    PROVE  /\ InQueue(Append(q, d), c) <=> InQueue(q, c) \/ c = d
           /\ InQueue(<<d>> \o q, c) <=> InQueue(q, c) \/ c = d
           /\ q # <<>> => (InQueue(q, c) <=> c = Head(q) \/ InQueue(Tail(q), c))
  <1>1. InQueue(Append(q, d), c) <=> InQueue(q, c) \/ c = d
    <2>1. /\ DOMAIN Append(q, d) = 1 .. (Len(q) + 1) /\ DOMAIN q = 1 .. Len(q)
          /\ Append(q, d)[Len(q) + 1] = d /\ Len(q) \in Nat
          /\ \A k \in 1 .. Len(q) : Append(q, d)[k] = q[k]
      OBVIOUS
    <2>2. \A k \in 1 .. (Len(q) + 1) : k \in 1 .. Len(q) \/ k = Len(q) + 1
      BY <2>1
    <2>3. Len(q) + 1 \in 1 .. (Len(q) + 1) /\ 1 .. Len(q) \subseteq 1 .. (Len(q) + 1)
      BY <2>1
    <2> QED BY <2>1, <2>2, <2>3, Zenon DEF InQueue
  <1>2. InQueue(<<d>> \o q, c) <=> InQueue(q, c) \/ c = d
    <2> DEFINE p == <<d>> \o q
    <2>1. /\ DOMAIN p = 1 .. (Len(q) + 1) /\ DOMAIN q = 1 .. Len(q)
          /\ p[1] = d /\ Len(q) \in Nat
          /\ \A k \in 1 .. Len(q) : p[k + 1] = q[k]
      OBVIOUS
    <2>2. \A k \in 1 .. (Len(q) + 1) : k = 1 \/ (k - 1 \in 1 .. Len(q) /\ p[k] = q[k - 1])
      <3>1. ASSUME NEW k \in 1 .. (Len(q) + 1), k # 1
            PROVE  k - 1 \in 1 .. Len(q) /\ (k - 1) + 1 = k
        BY <2>1, <3>1
      <3> QED BY <2>1, <3>1, Zenon
    <2>3. 1 \in 1 .. (Len(q) + 1) /\ \A k \in 1 .. Len(q) : k + 1 \in 1 .. (Len(q) + 1)
      BY <2>1
    <2> HIDE DEF p
    <2>4. ASSUME InQueue(p, c) PROVE InQueue(q, c) \/ c = d
      BY <2>1, <2>2, <2>4, Zenon DEF InQueue
    <2>5. ASSUME InQueue(q, c) \/ c = d PROVE InQueue(p, c)
      BY <2>1, <2>3, <2>5, Zenon DEF InQueue
    <2>6. InQueue(p, c) <=> InQueue(q, c) \/ c = d
      BY <2>4, <2>5
    <2> QED BY <2>6 DEF p
  <1>3. ASSUME q # <<>> PROVE InQueue(q, c) <=> c = Head(q) \/ InQueue(Tail(q), c)
    <2> DEFINE t == Tail(q)
    <2>1. /\ DOMAIN q = 1 .. Len(q) /\ Len(q) \in Nat /\ Len(q) >= 1
          /\ Head(q) = q[1] /\ DOMAIN t = 1 .. (Len(q) - 1)
          /\ \A k \in 1 .. (Len(q) - 1) : t[k] = q[k + 1]
      BY <1>3
    <2>2. \A k \in 1 .. Len(q) : k = 1 \/ (k - 1 \in 1 .. (Len(q) - 1) /\ q[k] = t[k - 1])
      <3>1. ASSUME NEW k \in 1 .. Len(q), k # 1
            PROVE  k - 1 \in 1 .. (Len(q) - 1) /\ (k - 1) + 1 = k
        BY <2>1, <3>1
      <3> QED BY <2>1, <3>1, Zenon
    <2>3. 1 \in 1 .. Len(q) /\ \A k \in 1 .. (Len(q) - 1) : k + 1 \in 1 .. Len(q)
      BY <2>1
    <2> HIDE DEF t
    <2>4. ASSUME InQueue(q, c) PROVE c = Head(q) \/ InQueue(t, c)
      BY <2>1, <2>2, <2>4, Zenon DEF InQueue
    <2>5. ASSUME c = Head(q) \/ InQueue(t, c) PROVE InQueue(q, c)
      BY <2>1, <2>3, <2>5, Zenon DEF InQueue
    <2>6. InQueue(q, c) <=> c = Head(q) \/ InQueue(t, c)
      BY <2>4, <2>5
    <2> QED BY <2>6 DEF t
  <1> QED BY <1>1, <1>2, <1>3

\* Somewhere outside the table there is a copy of the command.
Copied(c) ==
    \/ InQueue(cmdQueue, c)
    \/ lora \in {"transmit", "note"} /\ held = c
    \/ \E r \in Callers : sending[r].at # "idle" /\ sending[r].cmd = c
    \/ c \in sentIds

InTable(c) == \E i \in Slots : pendingCmds[i].state # "none" /\ pendingCmds[i].cmd = c

\* The steps of the LoRa task and of the callers copy what is copied already,
\* or what a row holds.
LEMMA LoraCopies ==
    ASSUME IInv, LoraStep, NEW c \in Commands, Copied(c)'
    PROVE  Copied(c) \/ InTable(c)
  <1>q. cmdQueue \in Seq(Commands)
    BY DEF IInv, CommandsTypeOK
  <1>1. CASE Hear
    <2>1. UNCHANGED <<cmdQueue, sending, sentIds, held>> /\ lora' \in {"take", "heard"}
      BY <1>1, Zenon DEF Hear, NothingHeard, HearAck, HearUplink
    <2> QED BY <2>1, Zenon DEF Copied
  <1>2. CASE RxOpportunity
    <2>1. PICK i \in Slots :
            /\ Pending(pendingCmds[i])
            /\ cmdQueue' = IF QueueHasRoom THEN <<pendingCmds[i].cmd>> \o cmdQueue ELSE cmdQueue
      BY <1>2, Zenon DEF RxOpportunity, FirstPendingFor
    <2>2. UNCHANGED <<sending, sentIds, held>> /\ lora' = "take"
      BY <1>2, Zenon DEF RxOpportunity
    <2>3. pendingCmds[i].cmd \in Commands /\ pendingCmds[i].state # "none"
      BY <2>1 DEF IInv, Filled, Pending, Active, Live
    <2>4. InQueue(cmdQueue', c) => InQueue(cmdQueue, c) \/ c = pendingCmds[i].cmd
      BY <1>q, <2>1, <2>3, QueueOperations
    <2> QED BY <2>2, <2>3, <2>4, Zenon DEF Copied, InTable
  <1>3. CASE NoOpportunity \/ NothingToTake \/ BeginCheck \/ SkipCheck
    <2>1. UNCHANGED <<cmdQueue, sending, sentIds, held>>
          /\ lora' \in {"take", "check", "rx", lora}
      BY <1>3, Zenon DEF NoOpportunity, NothingToTake, BeginCheck, SkipCheck
    <2> QED BY <2>1, Zenon DEF Copied
  <1>4. CASE Take
    <2>1. /\ cmdQueue # <<>> /\ cmdQueue' = Tail(cmdQueue)
          /\ lora' = "rx" \/ held' = Head(cmdQueue)
          /\ UNCHANGED <<sending, sentIds>>
      BY <1>4, Zenon DEF Take
    <2>2. Head(cmdQueue) \in Commands
      BY <1>q, <2>1
    <2>3. InQueue(cmdQueue, c) <=> c = Head(cmdQueue) \/ InQueue(Tail(cmdQueue), c)
      BY <1>q, <2>1, <2>2, QueueOperations
    <2> QED BY <2>1, <2>3, Zenon DEF Copied
  <1>5. CASE Transmit
    <2>1. /\ lora = "transmit" /\ sentIds' = sentIds \union {held}
          /\ UNCHANGED <<cmdQueue, sending, held>>
      BY <1>5, Zenon DEF Transmit
    <2> QED BY <2>1, Zenon DEF Copied
  <1>6. CASE TransmitFails \/ NoteSent
    <2>1. UNCHANGED <<cmdQueue, sending, sentIds>> /\ lora' = "check"
      BY <1>6, Zenon DEF TransmitFails, LosesCopy, NoteSent
    <2> QED BY <2>1, Zenon DEF Copied
  <1>7. CASE CheckSlot
    <2> DEFINE row == pendingCmds[checking]
    <2>1. /\ checking \in Slots
          /\ cmdQueue' = IF Unanswered(row) /\ MayRetry(row) /\ QueueHasRoom
                         THEN Append(cmdQueue, row.cmd) ELSE cmdQueue
          /\ UNCHANGED <<sending, sentIds, held>> /\ lora' \in {"rx", lora}
      BY <1>7, Zenon DEF CheckSlot
    <2>2. Unanswered(row) => row.cmd \in Commands /\ row.state # "none"
      BY <2>1 DEF IInv, Filled, Unanswered, Pending, Active, Live
    <2>3. InQueue(cmdQueue', c) =>
            InQueue(cmdQueue, c) \/ (Unanswered(row) /\ c = row.cmd)
      <3> HIDE DEF row
      <3> QED BY <1>q, <2>1, <2>2, QueueOperations
    <2> QED BY <2>1, <2>2, <2>3, Zenon DEF Copied, InTable
  <1> QED BY <1>1, <1>2, <1>3, <1>4, <1>5, <1>6, <1>7 DEF LoraStep

\* The other tasks move copies, or drop them.
LEMMA ElsewhereCopies ==
    ASSUME IInv, Elsewhere, NEW c \in Commands, Copied(c)'
    PROVE  Copied(c)
  <1>q. cmdQueue \in Seq(Commands)
    BY DEF IInv, CommandsTypeOK
  <1>s. sending \in Sendings
    BY DEF IInv, CommandsTypeOK, Sendings
  <1>1. CASE \/ \E r \in Locals, d \in Commands : LocalRefused(r, d)
             \/ \E s \in CloudSeqs, d \in Commands : CloudIssues(s, d)
             \/ CommandsTick \/ UNCHANGED vars
    <2>1. UNCHANGED <<cmdQueue, lora, held, sending, sentIds>>
      BY <1>1, Zenon DEF LocalRefused, Unregistered, CloudIssues, CommandsTick, vars, loraVars
    <2> QED BY <2>1, Zenon DEF Copied
  <1>2. ASSUME NEW r \in Callers, Enqueue(r) PROVE Copied(c)
    <2>1. /\ UNCHANGED <<lora, held, sentIds>> /\ sending[r].at = "queue"
          /\ sending' = [sending EXCEPT ![r] = [at |-> "idle", cmd |-> None]]
          /\ cmdQueue' = Append(cmdQueue, sending[r].cmd)
      BY <1>2, Zenon DEF Enqueue, loraVars
    <2>2. sending[r].cmd \in Commands
      BY <2>1 DEF IInv, Filled
    <2>3. InQueue(cmdQueue', c) => InQueue(cmdQueue, c) \/ c = sending[r].cmd
      BY <1>q, <2>1, <2>2, QueueOperations
    <2>4. ASSUME NEW t \in Callers, sending'[t].at # "idle"
          PROVE  sending'[t] = sending[t]
      BY <1>s, <2>1, <2>4 DEF Sendings
    <2>5. sending[r].at # "idle"
      BY <2>1
    <2> QED BY <2>1, <2>3, <2>4, <2>5, Zenon DEF Copied
  <1>3. ASSUME NEW r \in Callers, EnqueueTimesOut(r) \/ MarkFailed(r) PROVE Copied(c)
    <2>1. /\ UNCHANGED <<lora, held, sentIds, cmdQueue>> /\ sending[r].at # "idle"
          /\ \/ sending' = [sending EXCEPT ![r] = [at |-> "idle", cmd |-> None]]
             \/ sending' = [sending EXCEPT ![r].at = "fail"]
      BY <1>3 DEF EnqueueTimesOut, MarkFailed, loraVars
    <2>2. ASSUME NEW t \in Callers, sending'[t].at # "idle"
          PROVE  sending[t].at # "idle" /\ sending'[t].cmd = sending[t].cmd
      BY <1>s, <2>1, <2>2 DEF Sendings
    <2> QED BY <2>1, <2>2, Zenon DEF Copied
  <1> QED BY <1>1, <1>2, <1>3, Zenon DEF Elsewhere, SendingStep

\* What registration does to the table: an unused row is taken if there is one,
\* and the other rows keep their commands.
LEMMA Registration ==
    ASSUME IInv, NEW c \in Commands, NEW age \in 0 .. CommandTTL, Registers(c, age)
    PROVE  /\ ~Known(c)
           /\ UNCHANGED <<cmdQueue, cloud, lora, held, sentIds>>
           /\ profileOrder' = IF IsMode(c) THEN Append(profileOrder, c) ELSE profileOrder
           /\ \E r \in Callers : sending' = [sending EXCEPT ![r] = [at |-> "queue", cmd |-> c]]
           /\ \E i \in Slots :
                /\ pendingCmds'[i] = NewRow(c, age)
                /\ (\E j \in Slots : pendingCmds[j].state = "none") =>
                     pendingCmds[i].state = "none"
                /\ \A j \in Slots \ {i} :
                     /\ SameRow(pendingCmds'[j], pendingCmds[j])
                     /\ ~Supersedes(c, pendingCmds'[j])
                     /\ pendingCmds'[j].age = pendingCmds[j].age
  <1> DEFINE table == AfterSuperseding(c)
  <1>0. PICK r \in Callers : Register(r, c, age)
    BY Zenon DEF Registers
  <1>1. /\ table \in [Slots -> Rows]
        /\ \A j \in Slots : SameRow(table[j], pendingCmds[j]) /\ ~Supersedes(c, table[j])
    BY Superseding DEF IInv
  <1>2. ASSUME NEW j \in Slots PROVE table[j].age = pendingCmds[j].age
    <2>1. pendingCmds[j] \in Rows
      BY DEF IInv, CommandsTypeOK
    <2>2. [pendingCmds[j] EXCEPT !.state = "superseded"].age = pendingCmds[j].age
      BY <2>1 DEF Rows
    <2>3. table[j] = pendingCmds[j] \/ table[j] = [pendingCmds[j] EXCEPT !.state = "superseded"]
      BY Zenon DEF AfterSuperseding
    <2> QED BY <2>2, <2>3
  <1>3. PICK i \in Slots : Reusable(table, i) /\ pendingCmds' = [table EXCEPT ![i] = NewRow(c, age)]
    BY <1>0, Zenon DEF Register
  <1>4. ASSUME NEW j \in Slots, pendingCmds[j].state = "none" PROVE table[j].state = "none"
    <2>1. table[j] = pendingCmds[j]
      BY <1>4, Zenon DEF AfterSuperseding, Supersedes, Active, Live
    <2> QED BY <1>4, <2>1
  <1> HIDE DEF table
  <1>5. (\E j \in Slots : pendingCmds[j].state = "none") => pendingCmds[i].state = "none"
    BY <1>1, <1>3, <1>4, Zenon DEF Reusable, SameRow
  <1>6. /\ pendingCmds'[i] = NewRow(c, age)
        /\ \A j \in Slots \ {i} : pendingCmds'[j] = table[j]
    BY <1>1, <1>3
  <1>7. /\ ~Known(c)
        /\ UNCHANGED <<cmdQueue, cloud, lora, held, sentIds>>
        /\ profileOrder' = IF IsMode(c) THEN Append(profileOrder, c) ELSE profileOrder
        /\ sending' = [sending EXCEPT ![r] = [at |-> "queue", cmd |-> c]]
    BY <1>0, Zenon DEF Register, loraVars
  <1> QED BY <1>1, <1>2, <1>5, <1>6, <1>7

\* A command is somewhere in the hub, or has been on the air.
Around(c) == InTable(c) \/ Copied(c) \/ InQueue(profileOrder, c)

\* Only registration brings in a command, one at a time.
LEMMA AroundStays ==
    ASSUME IInv, LoraStep \/ Elsewhere, NEW c \in Commands, Around(c)'
    PROVE  Around(c)
  <1>1. Settled /\ UNCHANGED profileOrder
    BY LoraSettles, ElsewhereSettles
  <1>2. InTable(c)' => InTable(c)
    BY <1>1 DEF InTable, Settled, SameRow, Live
  <1>3. Copied(c)' => Copied(c) \/ InTable(c)
    BY LoraCopies, ElsewhereCopies
  <1> QED BY <1>1, <1>2, <1>3, Zenon DEF Around

LEMMA AroundRegistered ==
    ASSUME IInv, NEW d \in Commands, NEW age \in 0 .. CommandTTL, Registers(d, age),
           NEW c \in Commands, Around(c)', c # d
    PROVE  Around(c)
  <1>1. /\ UNCHANGED <<cmdQueue, cloud, lora, held, sentIds>>
        /\ profileOrder' = IF IsMode(d) THEN Append(profileOrder, d) ELSE profileOrder
    BY Registration
  <1>2. PICK r \in Callers : sending' = [sending EXCEPT ![r] = [at |-> "queue", cmd |-> d]]
    BY Registration
  <1>3. PICK i \in Slots : /\ pendingCmds'[i] = NewRow(d, age)
                           /\ \A j \in Slots \ {i} : SameRow(pendingCmds'[j], pendingCmds[j])
    BY Registration
  <1>4. ASSUME NEW t \in Callers, sending'[t].at # "idle", sending'[t].cmd = c
        PROVE  sending[t].at # "idle" /\ sending[t].cmd = c
    BY <1>2, <1>4 DEF IInv, CommandsTypeOK
  <1>5. Copied(c)' => Copied(c)
    BY <1>1, <1>4, Zenon DEF Copied
  <1>6. ASSUME NEW j \in Slots, pendingCmds'[j].state # "none", pendingCmds'[j].cmd = c
        PROVE  InTable(c)
    <2>1. j # i
      BY <1>3, <1>6 DEF NewRow
    <2> QED BY <1>3, <1>6, <2>1 DEF InTable, SameRow, Live
  <1>7. InQueue(profileOrder', c) => InQueue(profileOrder, c)
    BY <1>1, QueueOperations DEF IInv, CommandsTypeOK
  <1> QED BY <1>5, <1>6, <1>7, Zenon DEF Around, InTable
-----------------------------------------------------------------------------
(* Numbers.  The table tells two commands of a collar apart by their numbers *)
(* alone, and the cloud may use the numbers of the local counter.  Of two    *)
(* commands with one number, wherever they are met, one is the cloud's.      *)

CloudKnows(c) == c.seq \in CloudSeqs /\ cloud[c.seq].cmd = c
Numbered ==
    /\ \A c \in Commands : Around(c) => CloudKnows(c) \/ c.seq \in 1 .. localSeq
    /\ \A c, d \in Commands :
         Around(c) /\ Around(d) /\ c.seq = d.seq => c = d \/ CloudKnows(c) \/ CloudKnows(d)

\* The cloud's commands stay what they are.
LEMMA CloudStays ==
    ASSUME IInv, \/ LoraStep \/ Elsewhere
                 \/ \E c \in Commands, age \in 0 .. CommandTTL : Registers(c, age)
    PROVE  /\ \A s \in CloudSeqs : cloud[s].cmd # None => cloud'[s].cmd = cloud[s].cmd
           /\ localSeq' >= localSeq
  <1>1. localSeq \in Int
    BY Bounds DEF IInv, CommandsTypeOK
  <1>2. CASE LoraStep
    <2>1. UNCHANGED <<cloud, localSeq>>
      BY <1>2, Zenon DEF LoraStep, Hear, NothingHeard, HearAck, HearUplink, RxOpportunity,
         NoOpportunity, Take, NothingToTake, Transmit, TransmitFails, LosesCopy, NoteSent,
         BeginCheck,
         SkipCheck, CheckSlot
    <2> QED BY <1>1, <2>1
  <1>3. CASE \E c \in Commands, age \in 0 .. CommandTTL : Registers(c, age)
    <2>1. UNCHANGED cloud
      BY <1>3, Zenon DEF Registers, Register
    <2>2. localSeq' = localSeq + 1 \/ UNCHANGED localSeq
      BY <1>3, Zenon DEF Registers, LocalNumber, CloudNumber
    <2> QED BY <1>1, <2>1, <2>2
  <1>4. CASE \/ \E r \in Locals, c \in Commands : LocalRefused(r, c)
             \/ \E r \in Callers : SendingStep(r)
             \/ UNCHANGED vars
    <2>1. UNCHANGED cloud
      BY <1>4, Zenon DEF LocalRefused, Unregistered, SendingStep, Enqueue, EnqueueTimesOut,
         MarkFailed, vars
    <2>2. localSeq' = localSeq + 1 \/ UNCHANGED localSeq
      BY <1>4, Zenon DEF LocalRefused, Unregistered, SendingStep, Enqueue, EnqueueTimesOut,
         MarkFailed, vars
    <2> QED BY <1>1, <2>1, <2>2
  <1>5. ASSUME NEW s \in CloudSeqs, NEW c \in Commands, CloudIssues(s, c)
        PROVE  /\ \A t \in CloudSeqs : cloud[t].cmd # None => cloud'[t].cmd = cloud[t].cmd
               /\ localSeq' >= localSeq
    <2>1. /\ cloud[s].cmd = None /\ UNCHANGED localSeq
          /\ cloud' = [cloud EXCEPT ![s] = [cloud[s] EXCEPT !.cmd = c]]
      BY <1>5, Zenon DEF CloudIssues
    <2> QED BY <1>1, <2>1 DEF IInv, CommandsTypeOK
  <1>6. CASE CommandsTick
    <2>1. UNCHANGED localSeq
      BY <1>6, Zenon DEF CommandsTick
    <2>2. ASSUME NEW s \in CloudSeqs PROVE cloud'[s].cmd = cloud[s].cmd
      <3> DEFINE entry == cloud[s]
                 older == AtMost(entry.age + 1, CommandTTL)
      <3>1. cloud'[s] = IF entry.cmd = None THEN entry ELSE [entry EXCEPT !.age = older]
        BY <1>6 DEF CommandsTick
      <3>2. [entry EXCEPT !.age = older].cmd = entry.cmd
        <4> HIDE DEF older
        <4> QED BY DEF IInv, CommandsTypeOK
      <3> QED BY <3>1, <3>2, Zenon
    <2> QED BY <1>1, <2>1, <2>2
  <1> QED BY <1>2, <1>3, <1>4, <1>5, <1>6, Zenon DEF Elsewhere

\* A new number is new: of the local counter, or of a command the cloud kept.
LEMMA NumberedStep ==
    ASSUME IInv, DeadlineInv, Numbered, [CommandsNext]_vars
    PROVE  Numbered'
  <1>1. /\ \A s \in CloudSeqs : cloud[s].cmd # None => cloud'[s].cmd = cloud[s].cmd
        /\ localSeq' >= localSeq /\ localSeq \in Nat /\ localSeq' \in 0 .. MaxLocal
    <2>1. CommandsTypeOK'
      BY Step DEF IInv
    <2> QED BY <2>1, CloudStays, StepKinds, Bounds DEF IInv, CommandsTypeOK
  <1>2. \A c \in Commands : CloudKnows(c) => CloudKnows(c)'
    <2>1. None \notin Commands
      BY CommandsAssumption, Bounds DEF None, Commands, Seqs
    <2> QED BY <1>1, <2>1, Zenon DEF CloudKnows
  <1>3. \A c \in Commands : c.seq \in 1 .. localSeq => c.seq \in 1 .. localSeq'
    BY <1>1, Bounds
  <1>4. CASE LoraStep \/ Elsewhere
    <2>1. \A c \in Commands : Around(c)' => Around(c)
      BY <1>4, AroundStays
    <2> QED BY <1>2, <1>3, <2>1, Zenon DEF Numbered
  <1>5. ASSUME NEW d \in Commands, NEW age \in 0 .. CommandTTL, Registers(d, age)
        PROVE  Numbered'
    <2>1. \A c \in Commands : Around(c)' /\ c # d => Around(c)
      BY <1>5, AroundRegistered
    <2>2. \/ d.seq = localSeq + 1 /\ localSeq' = localSeq + 1
          \/ CloudKnows(d)
      BY <1>5 DEF Registers, LocalNumber, CloudNumber, CloudKnows
    <2>3. CloudKnows(d)' \/ d.seq \in 1 .. localSeq'
      BY <1>1, <1>2, <2>2
    <2>4. ASSUME NEW c \in Commands, Around(c), c.seq = d.seq
          PROVE  CloudKnows(c) \/ CloudKnows(d)
      BY <1>1, <2>2, <2>4 DEF Numbered
    <2>5. \A c \in Commands : Around(c)' => CloudKnows(c)' \/ c.seq \in 1 .. localSeq'
      BY <1>2, <1>3, <2>1, <2>3, Zenon DEF Numbered
    <2>6. \A b, c \in Commands :
            Around(b)' /\ Around(c)' /\ b.seq = c.seq
              => b = c \/ CloudKnows(b)' \/ CloudKnows(c)'
      BY <1>2, <2>1, <2>4, Zenon DEF Numbered
    <2> QED BY <2>5, <2>6, Zenon DEF Numbered
  <1> QED BY <1>4, <1>5, StepKinds

\* At first there is no command.
LEMMA InitEmpty == CommandsInit => \A c \in Commands : ~Around(c)
  <1> SUFFICES ASSUME CommandsInit, NEW c \in Commands PROVE ~Around(c)
    OBVIOUS
  <1>1. \A i \in Slots : pendingCmds[i].state = "none"
    BY DEF CommandsInit, EmptyRow
  <1>2. \A r \in Callers : sending[r].at = "idle"
    BY DEF CommandsInit
  <1>3. cmdQueue = <<>> /\ profileOrder = <<>> /\ lora = "rx" /\ sentIds = {}
    BY DEF CommandsInit
  <1>4. ~InQueue(cmdQueue, c) /\ ~InQueue(profileOrder, c)
    BY <1>3 DEF InQueue
  <1> QED BY <1>1, <1>2, <1>3, <1>4 DEF Around, InTable, Copied
-----------------------------------------------------------------------------
(* The order of the profile commands of one collar.                          *)

\* The cloud has given the command's number to no command of that collar.
OwnNumber(c) == \A s \in CloudSeqs : cloud[s].cmd # None => ~SameId(cloud[s].cmd, c)

\* A profile command of the hub's own is not transmitted after a newer one.
SelectionsInOrder ==
    [][\A k, m \in DOMAIN profileOrder :
         (/\ k < m /\ profileOrder[k].target = profileOrder[m].target
          /\ OwnNumber(profileOrder[k]) /\ OwnNumber(profileOrder[m])
          /\ Transmits(profileOrder[k]))
           => profileOrder[m] \notin sentIds]_vars

Later(k, m) ==
    /\ k \in DOMAIN profileOrder /\ m \in DOMAIN profileOrder /\ k < m
    /\ profileOrder[k].target = profileOrder[m].target

\* A local command that is not the last one registered is in no active row, and when
\* it is on its way to the radio no later one has been there.
Ordered ==
    /\ \A k \in DOMAIN profileOrder : IsMode(profileOrder[k])
    /\ \A k, m \in DOMAIN profileOrder : Later(k, m) /\ OwnNumber(profileOrder[k]) =>
         /\ \A i \in Slots :
              SameId(pendingCmds[i].cmd, profileOrder[k]) => ~Active(pendingCmds[i])
         /\ lora = "transmit" /\ held = profileOrder[k] /\ OwnNumber(profileOrder[m])
              => profileOrder[m] \notin sentIds

\* A number the cloud uses it does not give back.
LEMMA OwnNumberStays ==
    ASSUME IInv, \/ LoraStep \/ Elsewhere
                 \/ \E c \in Commands, age \in 0 .. CommandTTL : Registers(c, age)
    PROVE  \A c : OwnNumber(c)' => OwnNumber(c)
  BY CloudStays, Zenon DEF OwnNumber, SameId

\* The LoRa task takes only a command that is active, so no later one exists.
LEMMA OrderStays ==
    ASSUME IInv, Ordered, LoraStep \/ Elsewhere
    PROVE  Ordered'
  <1>1. Settled /\ UNCHANGED profileOrder
    BY LoraSettles, ElsewhereSettles
  <1>2. \A i \in Slots : /\ pendingCmds'[i].cmd = pendingCmds[i].cmd
                         /\ Active(pendingCmds'[i]) => Active(pendingCmds[i])
    BY <1>1 DEF Settled, SameRow, Active
  <1>3. \A k, m : Later(k, m)' <=> Later(k, m)
    BY <1>1 DEF Later
  <1>4. \A c : OwnNumber(c)' => OwnNumber(c)
    BY OwnNumberStays
  <1>5. ASSUME NEW k \in DOMAIN profileOrder, NEW m \in DOMAIN profileOrder, Later(k, m),
               OwnNumber(profileOrder[k]), OwnNumber(profileOrder[m]),
               lora' = "transmit", held' = profileOrder[k]
        PROVE  profileOrder[m] \notin sentIds'
    <2>1. CASE Take
      <3>1. StillPending(Head(cmdQueue)) /\ held' = Head(cmdQueue)
        BY <1>5, <2>1, Zenon DEF Take
      <3>2. PICK i \in Slots : /\ SameId(pendingCmds[i].cmd, profileOrder[k])
                               /\ Active(pendingCmds[i])
        BY <1>5, <3>1 DEF StillPending, Pending, Holds
      <3> QED BY <1>5, <3>2 DEF Ordered
    <2>2. CASE ~Take
      <3>1. lora = "transmit" /\ UNCHANGED <<held, sentIds>>
        BY <1>5, <2>2, Zenon DEF LoraStep, Hear, NothingHeard, HearAck, HearUplink,
             RxOpportunity, NoOpportunity, NothingToTake, Transmit, TransmitFails, LosesCopy,
             NoteSent, BeginCheck, SkipCheck, CheckSlot, Elsewhere, LocalRefused,
             Unregistered, SendingStep,
             Enqueue, EnqueueTimesOut, MarkFailed, CloudIssues, CommandsTick, vars, loraVars
      <3> QED BY <1>5, <3>1 DEF Ordered
    <2> QED BY <2>1, <2>2
  <1>6. ASSUME NEW k \in DOMAIN profileOrder, NEW m \in DOMAIN profileOrder, Later(k, m),
               OwnNumber(profileOrder[k]), NEW i \in Slots,
               SameId(pendingCmds'[i].cmd, profileOrder[k])
        PROVE  ~Active(pendingCmds'[i])
    BY <1>2, <1>6 DEF Ordered
  <1>7. \A k \in DOMAIN profileOrder : IsMode(profileOrder[k])
    BY DEF Ordered
  <1> QED BY <1>1, <1>3, <1>4, <1>5, <1>6, <1>7, Zenon DEF Ordered

\* A new profile command comes last and ends those before it.
LEMMA OrderRegistered ==
    ASSUME IInv, DeadlineInv, Numbered, Ordered,
           NEW d \in Commands, NEW age \in 0 .. CommandTTL, Registers(d, age)
    PROVE  Ordered'
  <1>1. /\ UNCHANGED <<lora, held, sentIds, cloud>>
        /\ profileOrder' = IF IsMode(d) THEN Append(profileOrder, d) ELSE profileOrder
    BY Registration
  <1>2. PICK i \in Slots :
          /\ pendingCmds'[i] = NewRow(d, age)
          /\ \A j \in Slots \ {i} : /\ SameRow(pendingCmds'[j], pendingCmds[j])
                                    /\ ~Supersedes(d, pendingCmds'[j])
    BY Registration
  <1>3. pendingCmds'[i].cmd = d
    BY <1>2 DEF NewRow
  <1>4. \A j \in Slots \ {i} : /\ pendingCmds'[j].cmd = pendingCmds[j].cmd
                               /\ Active(pendingCmds'[j]) => Active(pendingCmds[j])
    BY <1>2 DEF SameRow, Active
  <1>5. \A c : OwnNumber(c)' <=> OwnNumber(c)
    BY <1>1 DEF OwnNumber
  <1>6. None \notin Commands
    BY CommandsAssumption, Bounds DEF None, Commands, Seqs
  <1>7. \A c \in Commands : \A e : CloudKnows(c) /\ SameId(c, e) => ~OwnNumber(e)
    BY <1>6 DEF CloudKnows, OwnNumber
  <1>8. CloudKnows(d) \/ d.seq = localSeq + 1
    BY Zenon DEF Registers, LocalNumber, CloudNumber, CloudKnows
  <1>9. localSeq \in Nat /\ profileOrder \in Seq(Commands)
    BY Bounds DEF IInv, CommandsTypeOK
  \* Another command with the number of a local one would be the cloud's.
  <1>10. ASSUME NEW k \in DOMAIN profileOrder, OwnNumber(profileOrder[k])
         PROVE  /\ ~SameId(d, profileOrder[k])
                /\ \A c \in Commands : Around(c) /\ SameId(c, profileOrder[k])
                                         => c = profileOrder[k]
    <2> DEFINE e == profileOrder[k]
    <2>1. e \in Commands /\ Around(e)
      <3>1. e \in Commands
        BY <1>9
      <3>2. Around(e)
        BY Zenon DEF Around, InQueue
      <3> QED BY <3>1, <3>2
    <2>2. \A c \in Commands : SameId(c, e) => c.seq = e.seq /\ ~CloudKnows(c)
      BY <1>7, <1>10 DEF SameId
    <2>3. ~CloudKnows(e) /\ e.seq \in 1 .. localSeq
      <3>1. SameId(e, e)
        BY DEF SameId
      <3> HIDE DEF e
      <3> QED BY <2>1, <2>2, <3>1 DEF Numbered
    <2> HIDE DEF e
    <2>4. ~SameId(d, e)
      BY <1>8, <1>9, <2>2, <2>3
    <2>5. \A c \in Commands : Around(c) /\ SameId(c, e) => c = e
      BY <2>1, <2>2, <2>3 DEF Numbered
    <2> QED BY <2>4, <2>5 DEF e
  <1>11. OwnNumber(d) => d \notin sentIds
    <2>1. SUFFICES ASSUME OwnNumber(d), d \in sentIds PROVE FALSE
      OBVIOUS
    <2>2. ~CloudKnows(d) /\ Around(d)
      BY <1>7, <2>1 DEF SameId, Around, Copied
    <2> QED BY <1>8, <1>9, <2>2 DEF Numbered
  \* Whoever is older and not superseded is in no active row.
  <1>12. ASSUME NEW k \in DOMAIN profileOrder, OwnNumber(profileOrder[k]), NEW j \in Slots,
                SameId(pendingCmds'[j].cmd, profileOrder[k]), Active(pendingCmds'[j])
         PROVE  /\ SameId(pendingCmds[j].cmd, profileOrder[k]) /\ Active(pendingCmds[j])
                /\ ~(IsMode(d) /\ profileOrder[k].target = d.target)
    <2>1. j # i
      BY <1>3, <1>10, <1>12
    <2>2. /\ SameId(pendingCmds[j].cmd, profileOrder[k]) /\ Active(pendingCmds[j])
          /\ pendingCmds'[j].cmd = pendingCmds[j].cmd
      BY <1>4, <1>12, <2>1
    <2>3. pendingCmds[j].cmd \in Commands /\ Around(pendingCmds[j].cmd)
      BY <2>2 DEF IInv, Filled, Active, Live, Around, InTable
    <2>4. pendingCmds'[j].cmd = profileOrder[k]
      BY <1>10, <1>12, <2>2, <2>3
    <2>5. IsMode(profileOrder[k])
      BY DEF Ordered
    <2> QED BY <1>2, <1>12, <2>1, <2>2, <2>4, <2>5 DEF Supersedes
  <1>13. CASE ~IsMode(d)
    <2>1. profileOrder' = profileOrder
      BY <1>1, <1>13
    <2>2. \A k, m : Later(k, m)' <=> Later(k, m)
      BY <2>1 DEF Later
    <2>3. \A k \in DOMAIN profileOrder : IsMode(profileOrder[k])
      BY DEF Ordered
    <2>4. ASSUME NEW k \in DOMAIN profileOrder, NEW m \in DOMAIN profileOrder, Later(k, m),
                 OwnNumber(profileOrder[k])
          PROVE  /\ \A j \in Slots : SameId(pendingCmds'[j].cmd, profileOrder[k])
                                       => ~Active(pendingCmds'[j])
                 /\ lora' = "transmit" /\ held' = profileOrder[k] /\ OwnNumber(profileOrder[m])
                      => profileOrder[m] \notin sentIds'
      BY <1>1, <1>12, <2>4 DEF Ordered
    <2> QED BY <1>5, <2>1, <2>2, <2>3, <2>4, Zenon DEF Ordered
  <1>14. CASE IsMode(d)
    <2> DEFINE n == Len(profileOrder)
    <2>1. /\ DOMAIN profileOrder = 1 .. n /\ DOMAIN profileOrder' = 1 .. (n + 1)
          /\ profileOrder'[n + 1] = d /\ \A k \in 1 .. n : profileOrder'[k] = profileOrder[k]
          /\ n \in Nat
      BY <1>1, <1>9, <1>14
    <2>2. ASSUME NEW k \in 1 .. (n + 1), NEW m \in 1 .. (n + 1), Later(k, m)'
          PROVE  /\ k \in 1 .. n /\ profileOrder'[k] = profileOrder[k]
                 /\ \/ m \in 1 .. n /\ Later(k, m) /\ profileOrder'[m] = profileOrder[m]
                    \/ m = n + 1 /\ profileOrder'[m] = d /\ profileOrder[k].target = d.target
      <3> HIDE DEF n
      <3> QED BY <2>1, <2>2 DEF Later
    <2>3. ASSUME NEW k \in 1 .. (n + 1), NEW m \in 1 .. (n + 1), Later(k, m)',
                 OwnNumber(profileOrder'[k]),
                 NEW j \in Slots, SameId(pendingCmds'[j].cmd, profileOrder'[k])
          PROVE  ~Active(pendingCmds'[j])
      <3> HIDE DEF n
      <3>1. k \in DOMAIN profileOrder /\ profileOrder'[k] = profileOrder[k]
        BY <2>1, <2>2, <2>3
      <3>2. CASE m \in 1 .. n /\ Later(k, m)
        BY <1>12, <2>1, <2>3, <3>1, <3>2 DEF Ordered
      <3>3. CASE profileOrder[k].target = d.target
        BY <1>12, <1>14, <2>3, <3>1, <3>3
      <3> QED BY <2>2, <2>3, <3>2, <3>3
    <2>4. ASSUME NEW k \in 1 .. (n + 1), NEW m \in 1 .. (n + 1), Later(k, m)',
                 OwnNumber(profileOrder'[k]), OwnNumber(profileOrder'[m]),
                 lora' = "transmit", held' = profileOrder'[k]
          PROVE  profileOrder'[m] \notin sentIds'
      <3> HIDE DEF n
      <3>1. k \in DOMAIN profileOrder /\ profileOrder'[k] = profileOrder[k]
        BY <2>1, <2>2, <2>4
      <3>2. CASE m \in 1 .. n /\ Later(k, m) /\ profileOrder'[m] = profileOrder[m]
        BY <1>1, <2>1, <2>4, <3>1, <3>2 DEF Ordered
      <3>3. CASE profileOrder'[m] = d
        BY <1>1, <1>11, <2>4, <3>3
      <3> QED BY <2>2, <2>4, <3>2, <3>3
    <2>5. ASSUME NEW k \in 1 .. (n + 1) PROVE IsMode(profileOrder'[k])
      <3> HIDE DEF n
      <3>1. k \in 1 .. n \/ k = n + 1
        BY <2>1
      <3> QED BY <1>14, <2>1, <3>1 DEF Ordered
    <2> HIDE DEF n
    <2> QED BY <1>5, <2>1, <2>3, <2>4, <2>5, Zenon DEF Ordered
  <1> QED BY <1>13, <1>14
-----------------------------------------------------------------------------
(* What has been acknowledged.                                               *)

AckedIdOnAir ==
    \A i \in Slots : pendingCmds[i].state = "acked" =>
      \E c \in sentIds : SameId(pendingCmds[i].cmd, c)

\* A row becomes acknowledged only by an acknowledgement.
LEMMA NotAcked ==
    ASSUME NEW row \in Rows, row.state # "acked"
    PROVE  /\ Checked(row).state # "acked" /\ Refreshed(row).state # "acked"
           /\ Aged(row).state # "acked"
           /\ [row EXCEPT !.sent = 0, !.state = "transmitted"].state # "acked"
           /\ [row EXCEPT !.state = "failed"].state # "acked"
           /\ [row EXCEPT !.state = "superseded"].state # "acked"
  <1>1. Checked(row).state # "acked"
    <2>1. CASE Overdue(row)
      <3>1. ~Unanswered(row)
        BY <2>1, Bounds DEF Overdue, Unanswered, Pending, Rows
      <3>2. Checked(row) = [row EXCEPT !.state = "expired"]
        BY <2>1, <3>1, Zenon DEF Checked
      <3> QED BY <3>2 DEF Rows
    <2>2. CASE Unanswered(row)
      <3>1. ~Overdue(row)
        BY <2>2, Bounds DEF Overdue, Unanswered, Pending, Rows
      <3>2. \/ Checked(row) = [row EXCEPT !.retries = row.retries + 1, !.sent = NotSent]
            \/ Checked(row) = RetryLater(row)
            \/ Checked(row) = [row EXCEPT !.waiting = TRUE, !.state = "waiting"]
        BY <2>2, <3>1, Zenon DEF Checked
      <3>3. [row EXCEPT !.retries = row.retries + 1, !.sent = NotSent].state # "acked"
        BY DEF Rows
      <3>4. RetryLater(row).state # "acked"
        BY DEF Rows, RetryLater
      <3>5. [row EXCEPT !.waiting = TRUE, !.state = "waiting"].state # "acked"
        BY DEF Rows
      <3> QED BY <3>2, <3>3, <3>4, <3>5, Zenon
    <2>3. CASE ~Overdue(row) /\ ~Unanswered(row)
      BY <2>3, Zenon DEF Checked
    <2> QED BY <2>1, <2>2, <2>3
  <1>2. Refreshed(row).state # "acked"
    BY DEF Refreshed, Rows
  <1>3. Aged(row).state # "acked"
    <2> DEFINE older == AtMost(row.age + 1, FeedbackTTL)
               longer == IF row.sent = NotSent \/ ~Active(row) THEN row.sent
                         ELSE AtMost(row.sent + 1, AckTimeout)
    <2>1. \A a, b : [row EXCEPT !.age = a, !.sent = b].state = row.state
      BY DEF Rows
    <2>2. Aged(row) = row \/ Aged(row) = [row EXCEPT !.age = older, !.sent = longer]
      BY Zenon DEF Aged
    <2> HIDE DEF older, longer
    <2>3. [row EXCEPT !.age = older, !.sent = longer].state = row.state
      BY DEF Rows
    <2> QED BY <2>2, <2>3, Zenon
  <1>4. [row EXCEPT !.sent = 0, !.state = "transmitted"].state # "acked"
    BY DEF Rows
  <1>5. /\ [row EXCEPT !.state = "failed"].state # "acked"
        /\ [row EXCEPT !.state = "superseded"].state # "acked"
    BY DEF Rows
  <1> QED BY <1>1, <1>2, <1>3, <1>4, <1>5

LEMMA AckedStays ==
    ASSUME IInv, LoraStep \/ Elsewhere, NEW i \in Slots, pendingCmds'[i].state = "acked"
    PROVE  \/ pendingCmds[i].state = "acked"
           \/ \E c \in sentIds : SameId(pendingCmds[i].cmd, c)
  <1>r. pendingCmds \in [Slots -> Rows] /\ pendingCmds[i] \in Rows
    BY DEF IInv, CommandsTypeOK
  <1> SUFFICES ASSUME pendingCmds[i].state # "acked"
               PROVE  \E c \in sentIds : SameId(pendingCmds[i].cmd, c)
    OBVIOUS
  <1>n. /\ Checked(pendingCmds[i]).state # "acked" /\ Refreshed(pendingCmds[i]).state # "acked"
        /\ Aged(pendingCmds[i]).state # "acked"
        /\ [pendingCmds[i] EXCEPT !.sent = 0, !.state = "transmitted"].state # "acked"
        /\ [pendingCmds[i] EXCEPT !.state = "failed"].state # "acked"
    BY <1>r, NotAcked
  <1>1. CASE RxOpportunity
    <2>1. PICK j \in Slots : pendingCmds' = [pendingCmds EXCEPT ![j] = Refreshed(pendingCmds[j])]
      BY <1>1, Zenon DEF RxOpportunity
    <2> QED BY <1>r, <1>n, <2>1
  <1>2. CASE CheckSlot
    <2>1. checking \in Slots
          /\ pendingCmds' = [pendingCmds EXCEPT ![checking] = Checked(pendingCmds[checking])]
      BY <1>2, Zenon DEF CheckSlot
    <2> QED BY <1>r, <1>n, <2>1
  <1>3. ASSUME NEW c \in sentIds, HearAck(c)
        PROVE  \E d \in sentIds : SameId(pendingCmds[i].cmd, d)
    <2>1. pendingCmds'[i] = IF Acknowledges(c, pendingCmds[i])
                            THEN [pendingCmds[i] EXCEPT !.state = "acked"] ELSE pendingCmds[i]
      BY <1>3 DEF HearAck
    <2> QED BY <2>1, Zenon DEF Acknowledges
  <1>4. CASE NoteSent
    <2>1. \/ pendingCmds'[i] = [pendingCmds[i] EXCEPT !.sent = 0, !.state = "transmitted"]
          \/ pendingCmds'[i] = pendingCmds[i]
      BY <1>4 DEF NoteSent
    <2> QED BY <1>n, <2>1, Zenon
  <1>5. ASSUME NEW r \in Callers, MarkFailed(r) PROVE FALSE
    <2>1. \/ pendingCmds'[i] = [pendingCmds[i] EXCEPT !.state = "failed"]
          \/ pendingCmds'[i] = pendingCmds[i]
      BY <1>5 DEF MarkFailed
    <2> QED BY <1>n, <2>1, Zenon
  <1>6. CASE CommandsTick
    <2>1. pendingCmds'[i] = Aged(pendingCmds[i])
      BY <1>6 DEF CommandsTick
    <2> QED BY <1>n, <2>1
  <1>7. CASE \/ NothingHeard \/ (\E d \in Collars : HearUplink(d)) \/ NoOpportunity
             \/ NothingToTake \/ Transmit \/ TransmitFails \/ BeginCheck \/ SkipCheck \/ Take
             \/ \E r \in Locals, c \in Commands : LocalRefused(r, c)
             \/ \E r \in Callers : Enqueue(r) \/ EnqueueTimesOut(r)
             \/ \E s \in CloudSeqs, c \in Commands : CloudIssues(s, c)
             \/ UNCHANGED vars
    <2>1. UNCHANGED pendingCmds
      BY <1>7, Zenon DEF NothingHeard, HearUplink, NoOpportunity, NothingToTake, Transmit,
                         TransmitFails, LosesCopy, BeginCheck, SkipCheck, Take, LocalRefused,
                         Unregistered, Enqueue,
                         EnqueueTimesOut, CloudIssues, vars
    <2> QED BY <2>1
  <1> QED BY <1>1, <1>2, <1>3, <1>4, <1>5, <1>6, <1>7, Zenon
    DEF LoraStep, Hear, Elsewhere, SendingStep

\* And an acknowledgement names something that has been on the air.
LEMMA AckedStep ==
    ASSUME IInv, DeadlineInv, AckedIdOnAir, [CommandsNext]_vars PROVE AckedIdOnAir'
  <1>1. sentIds \subseteq sentIds'
    BY StepKinds, Zenon DEF LoraStep, Hear, NothingHeard, HearAck, HearUplink,
         RxOpportunity, NoOpportunity, Take, NothingToTake, Transmit, TransmitFails, LosesCopy,
         NoteSent, BeginCheck, SkipCheck, CheckSlot, Elsewhere, LocalRefused, Unregistered,
         SendingStep,
         Enqueue, EnqueueTimesOut, MarkFailed, CloudIssues, CommandsTick, vars, Registers, Register
  <1>2. CASE LoraStep \/ Elsewhere
    <2>1. \A i \in Slots : pendingCmds'[i].cmd = pendingCmds[i].cmd
      BY <1>2, LoraSettles, ElsewhereSettles DEF Settled, SameRow
    <2> QED BY <1>1, <1>2, <2>1, AckedStays DEF AckedIdOnAir
  <1>3. ASSUME NEW d \in Commands, NEW age \in 0 .. CommandTTL, Registers(d, age)
        PROVE  AckedIdOnAir'
    <2>1. PICK r \in Callers : Register(r, d, age)
      BY <1>3, Zenon DEF Registers
    <2>2. PICK i \in Slots : pendingCmds' = [AfterSuperseding(d) EXCEPT ![i] = NewRow(d, age)]
      BY <2>1, Zenon DEF Register
    <2>3. AfterSuperseding(d) \in [Slots -> Rows]
      BY Superseding DEF IInv
    <2>4. ASSUME NEW j \in Slots, pendingCmds'[j].state = "acked"
          PROVE  pendingCmds[j].state = "acked" /\ pendingCmds'[j].cmd = pendingCmds[j].cmd
      <3>1. pendingCmds'[j] = AfterSuperseding(d)[j]
        BY <2>2, <2>3, <2>4 DEF NewRow
      <3>2. SameRow(AfterSuperseding(d)[j], pendingCmds[j])
        BY Superseding DEF IInv
      <3>3. [pendingCmds[j] EXCEPT !.state = "superseded"].state # "acked"
        BY DEF IInv, CommandsTypeOK, Rows
      <3>4. \/ AfterSuperseding(d)[j] = pendingCmds[j]
            \/ AfterSuperseding(d)[j] = [pendingCmds[j] EXCEPT !.state = "superseded"]
        BY Zenon DEF AfterSuperseding
      <3> QED BY <2>4, <3>1, <3>2, <3>3, <3>4, Zenon DEF SameRow
    <2> QED BY <1>1, <2>4 DEF AckedIdOnAir
  <1> QED BY <1>2, <1>3, StepKinds
-----------------------------------------------------------------------------
(* Where nothing fails, what has to be transmitted is on its way.            *)

\* An uplink that finds the queue full refreshes the row and queues nothing.
UplinkFindsRoom == [][RxOpportunity => QueueHasRoom]_vars

Needs(row) == Pending(row) /\ row.sent = NotSent /\ ~row.waiting

OnWay(c) ==
    \/ InQueue(cmdQueue, c)
    \/ held # None /\ held = c
    \/ \E r \in Callers : sending[r].at # "idle" /\ sending[r].cmd = c

HandsEmpty ==
    /\ lora \notin {"transmit", "note"} => held = None
    /\ checking # 0 => lora = "check"
WayInv == NotStranded /\ HandsEmpty

\* What is on its way by its identity is there as a command.
LEMMA WayOut ==
    ASSUME IInv, NEW c \in Commands, OnItsWay(c)
    PROVE  \E d \in Commands : OnWay(d) /\ SameId(d, c)
  <1>1. ASSUME NEW k \in DOMAIN cmdQueue, SameId(cmdQueue[k], c)
        PROVE  cmdQueue[k] \in Commands /\ OnWay(cmdQueue[k])
    BY DEF IInv, CommandsTypeOK, OnWay, InQueue
  <1>2. ASSUME held # None PROVE held \in Commands /\ OnWay(held)
    BY <1>2 DEF IInv, CommandsTypeOK, OnWay
  <1>3. ASSUME NEW r \in Callers, sending[r].at # "idle"
        PROVE  sending[r].cmd \in Commands /\ OnWay(sending[r].cmd)
    BY <1>3 DEF IInv, Filled, OnWay
  <1> QED BY <1>1, <1>2, <1>3, Zenon DEF OnItsWay

\* A step keeps NotStranded if it puts a row in need on the way, and takes from
\* the way only what no row needs.
LEMMA WayKept ==
    ASSUME IInv, IInv', NotStranded,
           \A i \in Slots : Needs(pendingCmds'[i]) =>
             \/ Needs(pendingCmds[i]) /\ pendingCmds'[i].cmd = pendingCmds[i].cmd
             \/ OnWay(pendingCmds[i].cmd)',
           \A d \in Commands : OnWay(d) =>
             \/ OnWay(d)'
             \/ \A i \in Slots : SameId(d, pendingCmds'[i].cmd) => ~Needs(pendingCmds'[i])
    PROVE  NotStranded'
  <1> SUFFICES ASSUME NEW i \in Slots, Needs(pendingCmds'[i])
               PROVE  OnItsWay(pendingCmds[i].cmd)'
    BY DEF NotStranded, Needs
  <1>1. pendingCmds'[i].cmd \in Commands
    BY DEF IInv, Filled, Needs, Pending, Active, Live
  <1>2. ASSUME NEW d, OnWay(d)', SameId(d, pendingCmds'[i].cmd)
        PROVE  OnItsWay(pendingCmds[i].cmd)'
    BY <1>2, Zenon DEF OnWay, OnItsWay, InQueue
  <1>3. CASE Needs(pendingCmds[i]) /\ pendingCmds'[i].cmd = pendingCmds[i].cmd
    <2>1. OnItsWay(pendingCmds[i].cmd)
      BY <1>3 DEF NotStranded, Needs
    <2>2. PICK d \in Commands : OnWay(d) /\ SameId(d, pendingCmds[i].cmd)
      BY <1>1, <1>3, <2>1, WayOut
    <2> QED BY <1>2, <1>3, <2>2
  <1>4. CASE OnWay(pendingCmds[i].cmd)'
    BY <1>2, <1>4 DEF SameId
  <1> QED BY <1>3, <1>4

\* Which operations make a row need a transmission.
LEMMA NeedsOfRow ==
    ASSUME NEW row \in Rows
    PROVE  /\ Needs(Checked(row)) =>
                Needs(row) \/ (Unanswered(row) /\ MayRetry(row) /\ QueueHasRoom)
           /\ Needs(Aged(row)) => Needs(row)
           /\ ~Needs([row EXCEPT !.sent = 0, !.state = "transmitted"])
           /\ \A s \in Ended : ~Needs([row EXCEPT !.state = s])
  <1>1. ASSUME NEW s \in Ended PROVE ~Needs([row EXCEPT !.state = s])
    <2>1. [row EXCEPT !.state = s].state = s
      BY DEF Rows
    <2> QED BY <2>1 DEF Needs, Pending, Active, Live, Ended
  <1>2. Needs(Checked(row)) => Needs(row) \/ (Unanswered(row) /\ MayRetry(row) /\ QueueHasRoom)
    <2>1. CASE Overdue(row)
      <3>1. ~Unanswered(row)
        BY <2>1, Bounds DEF Overdue, Unanswered, Pending, Rows
      <3>2. Checked(row) = [row EXCEPT !.state = "expired"]
        BY <2>1, <3>1, Zenon DEF Checked
      <3> QED BY <1>1, <3>2 DEF Ended
    <2>2. CASE Unanswered(row) /\ ~(MayRetry(row) /\ QueueHasRoom)
      <3>1. ~Overdue(row)
        BY <2>2, Bounds DEF Overdue, Unanswered, Pending, Rows
      <3>2. \/ Checked(row) = RetryLater(row)
            \/ Checked(row) = [row EXCEPT !.waiting = TRUE, !.state = "waiting"]
        BY <2>2, <3>1, Zenon DEF Checked
      <3>3. RetryLater(row).waiting = TRUE
        BY DEF Rows, RetryLater
      <3>4. [row EXCEPT !.waiting = TRUE, !.state = "waiting"].waiting = TRUE
        BY DEF Rows
      <3> QED BY <3>2, <3>3, <3>4, Zenon DEF Needs
    <2>3. CASE ~Overdue(row) /\ ~Unanswered(row)
      BY <2>3, Zenon DEF Checked
    <2> QED BY <2>1, <2>2, <2>3
  <1>3. ~Needs([row EXCEPT !.sent = 0, !.state = "transmitted"])
    <2>1. [row EXCEPT !.sent = 0, !.state = "transmitted"].sent = 0
      BY DEF Rows
    <2> QED BY <2>1 DEF Needs, NotSent
  <1>4. ASSUME Needs(Aged(row)) PROVE Needs(row)
    <2> DEFINE older == AtMost(row.age + 1, FeedbackTTL)
               longer == IF row.sent = NotSent \/ ~Active(row) THEN row.sent
                         ELSE AtMost(row.sent + 1, AckTimeout)
               final == [row EXCEPT !.age = older, !.sent = longer]
    <2>1. Aged(row) = row \/ Aged(row) = final
      BY Zenon DEF Aged
    <2>2. older >= row.age /\ (row.sent # NotSent /\ Active(row) => longer # NotSent)
      BY Bounds DEF AtMost, Rows, NotSent
    <2>3. older \in Int /\ row.age \in Int
      BY Bounds DEF AtMost, Rows
    <2> HIDE DEF older, longer
    <2>4. final.state = row.state /\ final.age = older /\ final.sent = longer
          /\ final.waiting = row.waiting
      BY DEF Rows
    <2> HIDE DEF final
    <2>5. CASE Aged(row) = final
      BY <1>4, <2>2, <2>3, <2>4, <2>5, Bounds DEF Needs, Pending, Active
    <2> QED BY <1>4, <2>1, <2>5
  <1> QED BY <1>1, <1>2, <1>3, <1>4

\* The LoRa task drops only copies of what is over, and queues what it retries.
LEMMA LoraWay ==
    ASSUME Faults = {}, IInv, IInv', WayInv, LoraStep, RxOpportunity => QueueHasRoom
    PROVE  WayInv'
  <1>r. pendingCmds \in [Slots -> Rows] /\ cmdQueue \in Seq(Commands)
    BY DEF IInv, CommandsTypeOK
  <1>0. ASSUME UNCHANGED <<cmdQueue, held, sending>>,
               \A i \in Slots : Needs(pendingCmds'[i]) =>
                 Needs(pendingCmds[i]) /\ pendingCmds'[i].cmd = pendingCmds[i].cmd
        PROVE  NotStranded'
    <2>1. \A d \in Commands : OnWay(d) => OnWay(d)'
      BY <1>0, Zenon DEF OnWay
    <2> QED BY <1>0, <2>1, WayKept DEF WayInv
  <1>1. CASE \/ NothingHeard \/ (\E d \in Collars : HearUplink(d)) \/ NoOpportunity
             \/ NothingToTake \/ Transmit \/ BeginCheck \/ SkipCheck
    <2>1. UNCHANGED <<pendingCmds, cmdQueue, held, sending>>
      BY <1>1, Zenon DEF NothingHeard, HearUplink, NoOpportunity, NothingToTake, Transmit,
                         BeginCheck, SkipCheck
    <2>2. HandsEmpty'
      BY <1>1, <2>1 DEF NothingHeard, HearUplink, NoOpportunity, NothingToTake, Transmit,
                         BeginCheck, SkipCheck, HandsEmpty, WayInv
    <2> QED BY <1>0, <2>1, <2>2 DEF WayInv
  <1>2. CASE TransmitFails
    BY <1>2, Zenon DEF TransmitFails, LosesCopy
  <1>3. ASSUME NEW c \in sentIds, HearAck(c) PROVE WayInv'
    <2>1. /\ UNCHANGED <<cmdQueue, held, sending, checking>> /\ lora = "rx" /\ lora' = "heard"
          /\ \A i \in Slots : pendingCmds'[i] = IF Acknowledges(c, pendingCmds[i])
                                               THEN [pendingCmds[i] EXCEPT !.state = "acked"]
                                               ELSE pendingCmds[i]
      BY <1>3 DEF HearAck
    <2>2. ASSUME NEW i \in Slots, Needs(pendingCmds'[i])
          PROVE  Needs(pendingCmds[i]) /\ pendingCmds'[i].cmd = pendingCmds[i].cmd
      <3>1. ~Needs([pendingCmds[i] EXCEPT !.state = "acked"])
        BY <1>r, NeedsOfRow DEF Ended
      <3> QED BY <2>1, <2>2, <3>1, Zenon
    <2>3. HandsEmpty'
      BY <2>1 DEF HandsEmpty, WayInv
    <2> QED BY <1>0, <2>1, <2>2, <2>3 DEF WayInv
  <1>4. CASE NoteSent
    <2>1. /\ UNCHANGED <<cmdQueue, sending, checking>> /\ held' = None /\ lora = "note"
          /\ pendingCmds' = [i \in Slots |->
                            IF Noted(pendingCmds[i], held)
                            THEN [pendingCmds[i] EXCEPT !.sent = 0, !.state = "transmitted"]
                            ELSE pendingCmds[i]]
      BY <1>4, Zenon DEF NoteSent
    <2>2. ASSUME NEW i \in Slots
          PROVE  \/ ~Needs(pendingCmds'[i])
                 \/ ~Noted(pendingCmds[i], held) /\ pendingCmds'[i] = pendingCmds[i]
      <3>1. ~Needs([pendingCmds[i] EXCEPT !.sent = 0, !.state = "transmitted"])
        BY <1>r, NeedsOfRow
      <3>2. pendingCmds'[i] = IF Noted(pendingCmds[i], held)
                            THEN [pendingCmds[i] EXCEPT !.sent = 0, !.state = "transmitted"]
                            ELSE pendingCmds[i]
        BY <2>1
      <3> QED BY <3>1, <3>2, Zenon
    <2>3. ASSUME NEW d \in Commands, OnWay(d), ~OnWay(d)',
                 NEW i \in Slots, SameId(d, pendingCmds'[i].cmd), Needs(pendingCmds'[i])
          PROVE  FALSE
      <3>1. held = d
        BY <2>1, <2>3, Zenon DEF OnWay
      <3>2. pendingCmds'[i] = pendingCmds[i] /\ ~Noted(pendingCmds[i], held)
        BY <2>2, <2>3
      <3>3. Active(pendingCmds[i]) /\ pendingCmds[i].state # "none"
        BY <2>3, <3>2 DEF Needs, Pending, Active, Live
      <3> QED BY <2>3, <3>1, <3>2, <3>3 DEF Noted, Holds, SameId
    <2>4. NotStranded'
      BY <2>2, <2>3, WayKept, Zenon DEF WayInv
    <2> QED BY <2>1, <2>4 DEF WayInv, HandsEmpty
  <1>5. CASE Take
    <2> DEFINE head == Head(cmdQueue)
    <2>1. /\ cmdQueue # <<>> /\ cmdQueue' = Tail(cmdQueue) /\ lora = "take"
          /\ UNCHANGED <<pendingCmds, sending, checking>>
          /\ \/ held' = head /\ lora' = "transmit"
             \/ ~StillPending(head) /\ UNCHANGED held /\ lora' = "rx"
      BY <1>5, Zenon DEF Take
    <2>2. head \in Commands /\ head # None /\ held = None
      <3>1. head \in Commands
        BY <1>r, <2>1
      <3>2. None \notin Commands
        BY CommandsAssumption, Bounds DEF None, Commands, Seqs
      <3> QED BY <2>1, <3>1, <3>2 DEF WayInv, HandsEmpty
    <2>3. ASSUME NEW d \in Commands, OnWay(d), ~OnWay(d)',
                 NEW i \in Slots, SameId(d, pendingCmds[i].cmd), Needs(pendingCmds[i])
          PROVE  FALSE
      <3>1. InQueue(cmdQueue, d) <=> d = head \/ InQueue(Tail(cmdQueue), d)
        BY <1>r, <2>1, <2>2, QueueOperations
      <3>2. d = head /\ held' # head
        BY <2>1, <2>2, <2>3, <3>1, Zenon DEF OnWay
      <3>3. ~StillPending(d)
        BY <2>1, <3>2
      <3>4. pendingCmds[i].state # "none"
        BY <2>3 DEF Needs, Pending, Active, Live
      <3> QED BY <2>3, <3>3, <3>4 DEF StillPending, Needs, Holds, SameId
    <2>4. NotStranded'
      BY <2>1, <2>3, WayKept, Zenon DEF WayInv
    <2> QED BY <2>1, <2>2, <2>4 DEF WayInv, HandsEmpty
  <1>6. CASE RxOpportunity
    <2>1. PICK i \in Slots :
            /\ Pending(pendingCmds[i])
            /\ pendingCmds' = [pendingCmds EXCEPT ![i] = Refreshed(pendingCmds[i])]
            /\ cmdQueue' = <<pendingCmds[i].cmd>> \o cmdQueue
      BY <1>6, Zenon DEF RxOpportunity, FirstPendingFor
    <2>2. UNCHANGED <<sending, held, checking>> /\ lora = "heard" /\ lora' = "take"
      BY <1>6, Zenon DEF RxOpportunity
    <2>3. pendingCmds[i].cmd \in Commands
      BY <2>1 DEF IInv, Filled, Pending, Active, Live
    <2>4. \A d \in Commands :
            InQueue(cmdQueue', d) <=> InQueue(cmdQueue, d) \/ d = pendingCmds[i].cmd
      BY <1>r, <2>1, <2>3, QueueOperations
    <2>5. pendingCmds'[i].cmd = pendingCmds[i].cmd
      BY <1>r, <2>1, RefreshedRow DEF SameRow
    <2>6. OnWay(pendingCmds[i].cmd)'
      BY <2>3, <2>4, <2>5, Zenon DEF OnWay
    <2>7. \A j \in Slots \ {i} : pendingCmds'[j] = pendingCmds[j]
      BY <1>r, <2>1
    <2>8. \A d \in Commands : OnWay(d) => OnWay(d)'
      BY <2>2, <2>4, Zenon DEF OnWay
    <2>9. NotStranded'
      BY <2>6, <2>7, <2>8, WayKept DEF WayInv
    <2> QED BY <2>2, <2>9 DEF WayInv, HandsEmpty
  <1>7. CASE CheckSlot
    <2> DEFINE row == pendingCmds[checking]
               retried == Unanswered(row) /\ MayRetry(row) /\ QueueHasRoom
    <2>1. /\ checking \in Slots
          /\ pendingCmds' = [pendingCmds EXCEPT ![checking] = Checked(row)]
          /\ cmdQueue' = IF retried THEN Append(cmdQueue, row.cmd) ELSE cmdQueue
          /\ UNCHANGED <<sending, held>> /\ lora' \in {"rx", lora}
      BY <1>7, Zenon DEF CheckSlot
    <2>2. retried => row.cmd \in Commands
      BY <2>1 DEF IInv, Filled, Unanswered, Pending, Active, Live
    <2>3. \A d \in Commands :
            InQueue(cmdQueue', d) <=> InQueue(cmdQueue, d) \/ (retried /\ d = row.cmd)
      <3> HIDE DEF retried, row
      <3> QED BY <1>r, <2>1, <2>2, QueueOperations
    <2>4. pendingCmds'[checking] = Checked(row) /\ Checked(row).cmd = row.cmd
      BY <1>r, <2>1, CheckedRow DEF SameRow
    <2>5. Needs(pendingCmds'[checking]) => Needs(row) \/ retried
      BY <1>r, <2>1, <2>4, NeedsOfRow
    <2>6. retried => InQueue(cmdQueue', pendingCmds'[checking].cmd)
      <3> HIDE DEF retried, row
      <3> QED BY <2>2, <2>3, <2>4
    <2>7. \A j \in Slots \ {checking} : pendingCmds'[j] = pendingCmds[j]
      BY <1>r, <2>1
    <2>8. \A d \in Commands : OnWay(d) => OnWay(d)'
      BY <2>1, <2>3, Zenon DEF OnWay
    <2>9. NotStranded'
      <3>1. ASSUME NEW i \in Slots, Needs(pendingCmds'[i])
            PROVE  \/ Needs(pendingCmds[i]) /\ pendingCmds'[i].cmd = pendingCmds[i].cmd
                   \/ OnWay(pendingCmds[i].cmd)'
        <4>1. CASE i = checking
          <5>1. CASE retried
            BY <2>6, <4>1, <5>1, Zenon DEF OnWay
          <5>2. CASE ~retried
            <6> HIDE DEF retried
            <6> QED BY <2>4, <2>5, <3>1, <4>1, <5>2
          <5> QED BY <5>1, <5>2
        <4>2. CASE i # checking
          BY <2>7, <3>1, <4>2
        <4> QED BY <4>1, <4>2
      <3> QED BY <2>8, <3>1, WayKept DEF WayInv
    <2>10. HandsEmpty'
      <3>1. lora = "check" /\ held = None
        BY <2>1, Bounds DEF WayInv, HandsEmpty, Slots
      <3>2. checking' = 0 \/ lora' = lora
        BY <1>7, Zenon DEF CheckSlot
      <3> QED BY <2>1, <3>1, <3>2 DEF HandsEmpty
    <2> QED BY <2>9, <2>10 DEF WayInv
  <1> QED BY <1>1, <1>2, <1>3, <1>4, <1>5, <1>6, <1>7 DEF LoraStep, Hear

\* The callers put copies in the queue, or end the commands they give up.
LEMMA ElsewhereWay ==
    ASSUME Faults = {}, IInv, IInv', WayInv, Elsewhere
    PROVE  WayInv'
  <1>r. pendingCmds \in [Slots -> Rows] /\ cmdQueue \in Seq(Commands) /\ sending \in Sendings
    BY DEF IInv, CommandsTypeOK, Sendings
  <1>h. HandsEmpty'
    <2>1. UNCHANGED <<lora, held, checking>>
      BY Zenon DEF Elsewhere, LocalRefused, Unregistered, SendingStep, Enqueue,
         EnqueueTimesOut, MarkFailed,
                   CloudIssues, CommandsTick, vars, loraVars
    <2> QED BY <2>1 DEF WayInv, HandsEmpty
  <1>0. ASSUME UNCHANGED <<cmdQueue, held, sending>>,
               \A i \in Slots : Needs(pendingCmds'[i]) =>
                 Needs(pendingCmds[i]) /\ pendingCmds'[i].cmd = pendingCmds[i].cmd
        PROVE  NotStranded'
    <2>1. \A d \in Commands : OnWay(d) => OnWay(d)'
      BY <1>0, Zenon DEF OnWay
    <2> QED BY <1>0, <2>1, WayKept DEF WayInv
  <1>1. CASE \/ \E r \in Locals, d \in Commands : LocalRefused(r, d)
             \/ \E s \in CloudSeqs, d \in Commands : CloudIssues(s, d)
             \/ UNCHANGED vars
    <2>1. UNCHANGED <<pendingCmds, cmdQueue, held, sending>>
      BY <1>1, Zenon DEF LocalRefused, Unregistered, CloudIssues, vars, loraVars
    <2> QED BY <1>h, <1>0, <2>1 DEF WayInv
  <1>2. CASE CommandsTick
    <2>1. UNCHANGED <<cmdQueue, held, sending>>
      BY <1>2, Zenon DEF CommandsTick
    <2>2. ASSUME NEW i \in Slots, Needs(pendingCmds'[i])
          PROVE  Needs(pendingCmds[i]) /\ pendingCmds'[i].cmd = pendingCmds[i].cmd
      <3>1. pendingCmds'[i] = Aged(pendingCmds[i])
        BY <1>2 DEF CommandsTick
      <3>2. SameRow(Aged(pendingCmds[i]), pendingCmds[i])
        BY <1>r, AgedRow
      <3> QED BY <1>r, <2>2, <3>1, <3>2, NeedsOfRow DEF SameRow
    <2> QED BY <1>h, <1>0, <2>1, <2>2 DEF WayInv
  <1>3. ASSUME NEW r \in Callers, Enqueue(r) PROVE NotStranded'
    <2>1. /\ UNCHANGED <<pendingCmds, held>> /\ sending[r].at = "queue"
          /\ sending' = [sending EXCEPT ![r] = [at |-> "idle", cmd |-> None]]
          /\ cmdQueue' = Append(cmdQueue, sending[r].cmd)
      BY <1>3, Zenon DEF Enqueue, loraVars
    <2>2. sending[r].cmd \in Commands
      BY <2>1 DEF IInv, Filled
    <2>3. \A d \in Commands : InQueue(cmdQueue', d) <=> InQueue(cmdQueue, d) \/ d = sending[r].cmd
      BY <1>r, <2>1, <2>2, QueueOperations
    <2>4. \A t \in Callers \ {r} : sending'[t] = sending[t]
      BY <1>r, <2>1 DEF Sendings
    <2>5. ASSUME NEW d \in Commands, OnWay(d) PROVE OnWay(d)'
      <3>1. ASSUME NEW t \in Callers, sending[t].at # "idle", sending[t].cmd = d PROVE OnWay(d)'
        <4>1. CASE t = r
          BY <2>3, <3>1, <4>1, Zenon DEF OnWay
        <4>2. CASE t # r
          <5>1. sending'[t] = sending[t]
            BY <2>4, <4>2
          <5> QED BY <3>1, <5>1, Zenon DEF OnWay
        <4> QED BY <4>1, <4>2
      <3> QED BY <2>1, <2>3, <2>5, <3>1, Zenon DEF OnWay
    <2> QED BY <2>1, <2>5, WayKept DEF WayInv
  <1>4. ASSUME NEW r \in Callers, EnqueueTimesOut(r) PROVE NotStranded'
    <2>1. /\ UNCHANGED <<pendingCmds, cmdQueue, held>>
          /\ sending' = [sending EXCEPT ![r].at = "fail"]
      BY <1>4, Zenon DEF EnqueueTimesOut, loraVars
    <2>2. ASSUME NEW t \in Callers, sending[t].at # "idle"
          PROVE  sending'[t].at # "idle" /\ sending'[t].cmd = sending[t].cmd
      BY <1>r, <2>1, <2>2 DEF Sendings
    <2>3. \A d \in Commands : OnWay(d) => OnWay(d)'
      BY <2>1, <2>2, Zenon DEF OnWay
    <2> QED BY <2>1, <2>3, WayKept DEF WayInv
  <1>5. ASSUME NEW r \in Callers, MarkFailed(r) PROVE NotStranded'
    <2>1. /\ UNCHANGED <<cmdQueue, held>> /\ sending[r].at = "fail"
          /\ sending' = [sending EXCEPT ![r] = [at |-> "idle", cmd |-> None]]
          /\ pendingCmds' = [i \in Slots |->
                               IF Fails(pendingCmds[i], sending[r].cmd)
                               THEN [pendingCmds[i] EXCEPT !.state = "failed"]
                               ELSE pendingCmds[i]]
      BY <1>5, Zenon DEF MarkFailed, loraVars
    <2>2. ASSUME NEW i \in Slots
          PROVE  \/ ~Needs(pendingCmds'[i])
                 \/ ~Fails(pendingCmds[i], sending[r].cmd) /\ pendingCmds'[i] = pendingCmds[i]
      <3>1. ~Needs([pendingCmds[i] EXCEPT !.state = "failed"])
        BY <1>r, NeedsOfRow DEF Ended
      <3>2. pendingCmds'[i] = IF Fails(pendingCmds[i], sending[r].cmd)
                              THEN [pendingCmds[i] EXCEPT !.state = "failed"]
                              ELSE pendingCmds[i]
        BY <2>1
      <3> QED BY <3>1, <3>2, Zenon
    <2>3. \A t \in Callers \ {r} : sending'[t] = sending[t]
      BY <1>r, <2>1 DEF Sendings
    <2>4. ASSUME NEW d \in Commands, OnWay(d), ~OnWay(d)',
                 NEW i \in Slots, SameId(d, pendingCmds'[i].cmd), Needs(pendingCmds'[i])
          PROVE  FALSE
      <3>1. sending[r].cmd = d
        <4>1. PICK t \in Callers : sending[t].at # "idle" /\ sending[t].cmd = d
          BY <2>1, <2>4, Zenon DEF OnWay
        <4>2. CASE t = r
          BY <4>1, <4>2
        <4>3. CASE t # r
          <5>1. sending'[t] = sending[t]
            BY <2>3, <4>3
          <5> QED BY <2>4, <4>1, <5>1, Zenon DEF OnWay
        <4> QED BY <4>2, <4>3
      <3>2. pendingCmds'[i] = pendingCmds[i] /\ ~Fails(pendingCmds[i], sending[r].cmd)
        BY <2>2, <2>4
      <3>3. Active(pendingCmds[i]) /\ pendingCmds[i].state # "none"
        BY <2>4, <3>2 DEF Needs, Pending, Active, Live
      <3> QED BY <2>4, <3>1, <3>2, <3>3 DEF Fails, Holds, SameId
    <2> QED BY <2>2, <2>4, WayKept, Zenon DEF WayInv
  <1> QED BY <1>h, <1>1, <1>2, <1>3, <1>4, <1>5, Zenon DEF WayInv, Elsewhere, SendingStep

\* A registered command is with its caller.
LEMMA RegisteredWay ==
    ASSUME IInv, IInv', WayInv,
           NEW c \in Commands, NEW age \in 0 .. CommandTTL, Registers(c, age)
    PROVE  WayInv'
  <1>1. PICK r \in Callers : Register(r, c, age)
    BY Zenon DEF Registers
  <1>2. /\ UNCHANGED <<cmdQueue, lora, held, checking>> /\ sending[r].at = "idle"
        /\ sending' = [sending EXCEPT ![r] = [at |-> "queue", cmd |-> c]]
    BY <1>1, Zenon DEF Register, loraVars
  <1>3. PICK i \in Slots : pendingCmds' = [AfterSuperseding(c) EXCEPT ![i] = NewRow(c, age)]
    BY <1>1, Zenon DEF Register
  <1>4. AfterSuperseding(c) \in [Slots -> Rows]
    BY Superseding DEF IInv
  <1>5. /\ sending'[r] = [at |-> "queue", cmd |-> c]
        /\ \A t \in Callers \ {r} : sending'[t] = sending[t]
    BY <1>2 DEF IInv, CommandsTypeOK
  <1>6. ASSUME NEW d \in Commands, OnWay(d) PROVE OnWay(d)'
    <2>1. ASSUME NEW t \in Callers, sending[t].at # "idle", sending[t].cmd = d PROVE OnWay(d)'
      <3>1. sending'[t] = sending[t]
        BY <1>2, <1>5, <2>1
      <3> QED BY <2>1, <3>1, Zenon DEF OnWay
    <2> QED BY <1>2, <1>6, <2>1, Zenon DEF OnWay
  <1>7. ASSUME NEW j \in Slots, Needs(pendingCmds'[j])
        PROVE  \/ Needs(pendingCmds[j]) /\ pendingCmds'[j].cmd = pendingCmds[j].cmd
               \/ OnWay(pendingCmds[j].cmd)'
    <2>1. CASE j = i
      <3>1. pendingCmds'[j].cmd = c
        BY <1>3, <1>4, <2>1 DEF NewRow
      <3>2. sending'[r].at # "idle" /\ sending'[r].cmd = c
        BY <1>5
      <3> QED BY <3>1, <3>2, Zenon DEF OnWay
    <2>2. CASE j # i
      <3>1. pendingCmds'[j] = AfterSuperseding(c)[j]
        BY <1>3, <1>4, <2>2
      <3>2. ~Needs([pendingCmds[j] EXCEPT !.state = "superseded"])
        BY NeedsOfRow DEF IInv, CommandsTypeOK, Ended
      <3>3. \/ AfterSuperseding(c)[j] = pendingCmds[j]
            \/ AfterSuperseding(c)[j] = [pendingCmds[j] EXCEPT !.state = "superseded"]
        BY Zenon DEF AfterSuperseding
      <3> QED BY <1>7, <3>1, <3>2, <3>3, Zenon
    <2> QED BY <2>1, <2>2
  <1>8. NotStranded'
    BY <1>6, <1>7, WayKept, Zenon DEF WayInv
  <1>9. HandsEmpty'
    BY <1>2 DEF WayInv, HandsEmpty
  <1> QED BY <1>8, <1>9 DEF WayInv
-----------------------------------------------------------------------------
(* The theorems.                                                           *)

LEMMA InitIInv == CommandsInit => IInv
  <1> SUFFICES ASSUME CommandsInit PROVE IInv
    OBVIOUS
  <1>1. EmptyRow \in Rows /\ ~Active(EmptyRow)
    BY Bounds DEF EmptyRow, Rows, States, NotSent, Active, Live
  <1>2. pendingCmds \in [Slots -> Rows] /\ \A i \in Slots : pendingCmds[i] = EmptyRow
    BY <1>1 DEF CommandsInit
  <1>3. CommandsTypeOK
    BY <1>2, Bounds DEF CommandsInit, CommandsTypeOK
  <1>4. Filled
    BY <1>2 DEF CommandsInit, Filled, EmptyRow
  <1>5. OneProfilePerCollar
    BY <1>1, <1>2 DEF OneProfilePerCollar
  <1> QED BY <1>3, <1>4, <1>5 DEF IInv

\* The inductive invariant holds of every state: the next two theorems are
\* two of its conjuncts.
THEOREM Invariance == CommandsSpec => []IInv
  <1>1. IInv /\ [CommandsNext]_vars => IInv'
    BY Step
  <1> QED BY InitIInv, <1>1, PTL DEF CommandsSpec

\* The table, the queue and the LoRa task only ever hold well-formed commands:
\* in particular retries stays within CMD_MAX_RETRIES and the queue within its
\* length, whatever the interleaving and whatever fails.
THEOREM TypeCorrect == CommandsSpec => []CommandsTypeOK
  <1>1. IInv => CommandsTypeOK
    BY DEF IInv
  <1> QED BY Invariance, <1>1, PTL

\* However many collars, callers and slots there are, a collar never has two
\* active profile commands (sendCommandFind's supersession).
THEOREM OneProfile == CommandsSpec => []OneProfilePerCollar
  <1>1. IInv => OneProfilePerCollar
    BY DEF IInv
  <1> QED BY Invariance, <1>1, PTL

\* A command that is over (acknowledged, superseded, expired or failed) stays
\* so until its row is given to another command or its feedback is too old to
\* be shown, whatever copies of it are still queued and whatever fails.
THEOREM NothingComesBack == CommandsSpec => NoResurrection
  <1>1. IInv /\ [CommandsNext]_vars =>
          [\A i \in Slots :
             pendingCmds[i].state \in Ended =>
               \/ /\ pendingCmds'[i].state = pendingCmds[i].state
                  /\ pendingCmds'[i].cmd = pendingCmds[i].cmd
               \/ /\ pendingCmds'[i].state = "queued"
                  /\ \/ ~SameId(pendingCmds'[i].cmd, pendingCmds[i].cmd)
                     \/ pendingCmds[i].age >= FeedbackTTL]_vars
    BY Step DEF Kept
  <1> QED BY Invariance, <1>1, PTL DEF CommandsSpec, NoResurrection

\* What the cloud has is in step with the rows.
LEMMA DeadlineInvariance == CommandsSpec => []DeadlineInv
  <1>1. IInv /\ CommandsInit => DeadlineInv
    <2> SUFFICES ASSUME IInv, CommandsInit PROVE DeadlineInv
      OBVIOUS
    <2>1. CloudNumbered
      BY DEF CommandsInit, CloudNumbered
    <2>2. \A i \in Slots : pendingCmds[i].state = "none"
      BY DEF CommandsInit, EmptyRow
    <2> QED BY <2>1, <2>2 DEF DeadlineInv, RowsAsOld
  <1>2. IInv /\ IInv' /\ DeadlineInv /\ [CommandsNext]_vars => DeadlineInv'
    BY DeadlineStep
  <1> QED BY Invariance, <1>1, <1>2, PTL DEF CommandsSpec

\* The hub never keeps a cloud command longer than the cloud does, however
\* often the cloud returns it and whatever row it is given: it is registered
\* with the age it has (queueCloudCommandResponse's deadline), and no step
\* makes a row younger.
THEOREM DeadlinesKept == CommandsSpec => []CloudDeadlineKept
  <1>1. DeadlineInv => CloudDeadlineKept
    BY DEF DeadlineInv, RowsAsOld, CloudDeadlineKept, Pending, Active, Live
  <1> QED BY DeadlineInvariance, <1>1, PTL

\* Of two commands with one number one is the cloud's.
LEMMA NumberedInvariance == CommandsSpec => []Numbered
  <1>0. CommandsInit => Numbered
    BY InitEmpty DEF Numbered
  <1>1. IInv /\ DeadlineInv /\ Numbered /\ [CommandsNext]_vars => Numbered'
    BY NumberedStep
  <1> QED BY Invariance, DeadlineInvariance, <1>0, <1>1, PTL DEF CommandsSpec

\* Whatever the numbers: of an acknowledged command, collar and number have
\* been on the air (handleAck compares nothing else).
THEOREM AckedWasOnAir == CommandsSpec => []AckedIdOnAir
  <1>1. CommandsInit => AckedIdOnAir
    BY DEF CommandsInit, EmptyRow, AckedIdOnAir
  <1>2. IInv /\ DeadlineInv /\ AckedIdOnAir /\ [CommandsNext]_vars => AckedIdOnAir'
    BY AckedStep
  <1> QED BY Invariance, DeadlineInvariance, <1>1, <1>2, PTL DEF CommandsSpec

\* An acknowledged command has itself been on the air, or another command with its
\* collar and number was, one of the two given out by the hub and one by the cloud:
\* handleAck is wrong only where the two numberings meet.
THEOREM AckedWasSent == CommandsSpec => []AckMeansSent
  <1>1. IInv /\ DeadlineInv /\ Numbered /\ AckedIdOnAir => AckMeansSent
    <2> SUFFICES ASSUME IInv, DeadlineInv, Numbered, AckedIdOnAir,
                        NEW i \in Slots, pendingCmds[i].state = "acked",
                        pendingCmds[i].cmd \notin sentIds
                 PROVE  \E d \in sentIds : /\ SameId(pendingCmds[i].cmd, d)
                                           /\ FromCloud(pendingCmds[i].cmd) # FromCloud(d)
      BY Zenon DEF AckMeansSent
    <2>1. PICK d \in sentIds : SameId(pendingCmds[i].cmd, d)
      BY DEF AckedIdOnAir
    <2> DEFINE c == pendingCmds[i].cmd
    <2>2. c \in Commands /\ d \in Commands /\ c # d /\ c.seq = d.seq
      BY <2>1 DEF IInv, CommandsTypeOK, Filled, SameId
    <2>3. Around(c) /\ Around(d)
      BY DEF Around, Copied, InTable
    <2> HIDE DEF c
    <2>4. CloudKnows(c) \/ CloudKnows(d)
      BY <2>2, <2>3 DEF Numbered
    <2>5. ~(CloudKnows(c) /\ CloudKnows(d))
      BY <2>2 DEF CloudKnows
    <2>6. \A e \in Commands : FromCloud(e) <=> CloudKnows(e)
      <3>1. None \notin Commands
        BY CommandsAssumption, Bounds DEF None, Commands, Seqs
      <3>2. \A e \in Commands, s \in CloudSeqs : cloud[s].cmd = e => e.seq = s
        BY <3>1 DEF DeadlineInv, CloudNumbered
      <3> QED BY <3>2 DEF FromCloud, CloudKnows
    <2>7. FromCloud(c) # FromCloud(d)
      BY <2>2, <2>4, <2>5, <2>6
    <2> QED BY <2>1, <2>7 DEF c
  <1> QED BY <1>1, Invariance, DeadlineInvariance, NumberedInvariance, AckedWasOnAir, PTL

\* Of the profile commands a web page or the console sent to one collar, with
\* numbers the cloud has not used for that collar, an older one is not transmitted
\* once a newer one has been on the air: however few rows there are, whatever fails,
\* and whatever copies are queued, retried or given up.
THEOREM LocalSelectionsInOrder == CommandsSpec => SelectionsInOrder
  <1>1. CommandsInit => Ordered
    BY DEF CommandsInit, Ordered
  <1>2. IInv /\ DeadlineInv /\ Numbered /\ Ordered /\ [CommandsNext]_vars => Ordered'
    BY StepKinds, OrderStays, OrderRegistered
  <1>3. Ordered /\ [CommandsNext]_vars =>
          [\A k, m \in DOMAIN profileOrder :
             (/\ k < m /\ profileOrder[k].target = profileOrder[m].target
              /\ OwnNumber(profileOrder[k]) /\ OwnNumber(profileOrder[m])
              /\ Transmits(profileOrder[k]))
               => profileOrder[m] \notin sentIds]_vars
    BY DEF Ordered, Later, Transmits
  <1> QED BY Invariance, DeadlineInvariance, NumberedInvariance, <1>1, <1>2, <1>3, PTL
    DEF CommandsSpec, SelectionsInOrder

\* Where nothing fails and no uplink of a collar finds the queue full, a command
\* that has to be transmitted is always in the queue, with its caller, or in the
\* hands of the LoRa task.  (An uplink that finds it full refreshes the row, by
\* queuePendingCommandForDevice, and queues nothing.)
THEOREM NothingStranded ==
    ASSUME Faults = {}
    PROVE  CommandsSpec /\ UplinkFindsRoom => []NotStranded
  <1>1. CommandsInit => WayInv
    <2> SUFFICES ASSUME CommandsInit PROVE WayInv
      OBVIOUS
    <2>1. \A i \in Slots : ~Pending(pendingCmds[i])
      BY DEF CommandsInit, EmptyRow, Pending, Active, Live
    <2> QED BY <2>1 DEF CommandsInit, WayInv, NotStranded, HandsEmpty
  <1>2. IInv /\ IInv' /\ DeadlineInv /\ WayInv /\ [CommandsNext]_vars
        /\ [RxOpportunity => QueueHasRoom]_vars
          => WayInv'
    <2> SUFFICES ASSUME IInv, IInv', DeadlineInv, WayInv, [CommandsNext]_vars,
                        [RxOpportunity => QueueHasRoom]_vars
                 PROVE  WayInv'
      OBVIOUS
    <2>1. RxOpportunity => QueueHasRoom
      <3>1. RxOpportunity => vars' # vars
        BY DEF RxOpportunity, vars
      <3> QED BY <3>1
    <2> QED BY <2>1, LoraWay, ElsewhereWay, RegisteredWay, StepKinds
  <1>3. WayInv => NotStranded
    BY DEF WayInv
  <1> QED BY Invariance, DeadlineInvariance, <1>1, <1>2, <1>3, PTL DEF CommandsSpec, UplinkFindsRoom
=============================================================================
