-------------------------- MODULE P4Control_proofs --------------------------
(***************************************************************************)
(* Theorems about the remote control of the Home Hub (P4Control), for      *)
(* every history of revisions and any number of changes and faults: what   *)
(* the cloud is told was in effect, or overruled by a local client, and is *)
(* kept, the number kept fits the contents kept with it, and the           *)
(* controller has one role at a time.                                      *)
(***************************************************************************)
EXTENDS P4Control, TLAPS

LEMMA EditsFacts ==
    /\ Len(Edits) \in Nat /\ 0 \in Revisions
    /\ \A rev \in Revisions : rev # 0 => Edits[rev] \in BOOLEAN
  BY P4ControlAssumption DEF Revisions

LEMMA InitTypes == Init => TypeOK
  <1> SUFFICES ASSUME Init PROVE TypeOK
    OBVIOUS
  <1>1. PICK m \in Modes : desired = [on |-> TRUE, mode |-> m, scan |-> FALSE]
    BY DEF Init
  <1>2. 0 \in 0 .. MaxChanges /\ 0 \in 0 .. MaxFaults
    BY P4ControlAssumption
  <1>3. flash \in Held
    BY EditsFacts DEF Init, Held, Switch
  <1> QED BY <1>1, <1>2, <1>3, EditsFacts DEF Init, TypeOK, Modes, Place
-----------------------------------------------------------------------------
(* Types.                                                                  *)

\* Budgets are spent within their bounds.
LEMMA Budgets ==
    ASSUME TypeOK, Changes \/ Faults \/ (\E ok \in BOOLEAN : Outcome(ok)) \/ UNCHANGED used
    PROVE  changes' \in 0 .. MaxChanges /\ faults' \in 0 .. MaxFaults
  BY P4ControlAssumption DEF TypeOK, Changes, Faults, Outcome, used

\* What flash may hold after a save has the type of what was saved.
LEMMA SavedTypes ==
    ASSUME TypeOK, NEW new \in Held, NEW ok \in BOOLEAN, Saves(new, ok)
    PROVE  flash' \in Held
  BY DEF Saves, TypeOK, Held

SyncStates == [pc : {"idle", "report", "send", "poll", "parse", "await", "queue"},
               rev : Revisions]

LEMMA SyncTypes == ASSUME TypeOK, Edit \/ SyncTask PROVE TypeOK'
  <1> USE DEF SyncOnly, tick, shared, ble, used, cloud, history, At, Place
  <1>1. CASE Edit
    BY <1>1, EditsFacts DEF Edit, TypeOK, Revisions
  <1>2. CASE Copies
    BY <1>2 DEF Copies, TypeOK
  <1>3. ASSUME NEW due \in BOOLEAN, Exchanges(due) PROVE TypeOK'
    <2>1. sync' \in SyncStates
      BY <1>3, EditsFacts DEF Exchanges, TypeOK, SyncStates
    <2> QED BY <1>3, <2>1 DEF Exchanges, TypeOK, SyncStates
  <1>4. ASSUME NEW arrives \in BOOLEAN, NEW answered \in BOOLEAN, Reports(arrives, answered)
        PROVE  TypeOK'
    <2>1. sync' \in SyncStates
      BY <1>4, EditsFacts DEF Reports, TypeOK, SyncStates
    <2>2. changes' \in 0 .. MaxChanges /\ faults' \in 0 .. MaxFaults
      BY <1>4, Budgets DEF Reports
    <2>3. told' \in Revisions
      BY <1>4 DEF Reports, TypeOK, SyncStates
    <2> QED BY <1>4, <2>1, <2>2, <2>3 DEF Reports, TypeOK, SyncStates
  <1>5. ASSUME NEW due \in BOOLEAN, NEW answered \in BOOLEAN, Polls(due, answered)
        PROVE  TypeOK'
    <2>1. sync' \in SyncStates
      BY <1>5, EditsFacts DEF Polls, TypeOK, SyncStates
    <2>2. changes' \in 0 .. MaxChanges /\ faults' \in 0 .. MaxFaults
      BY <1>5, Budgets DEF Polls
    <2>3. told' \in Revisions
      BY <1>5 DEF Polls, TypeOK, SyncStates
    <2> QED BY <1>5, <2>1, <2>2, <2>3 DEF Polls, TypeOK, SyncStates
  <1>6. CASE Parses
    <2>1. sync' \in SyncStates
      BY <1>6, EditsFacts DEF Parses, TypeOK, SyncStates
    <2>2. awaiting' \in BOOLEAN
      BY <1>6 DEF Parses, TypeOK
    <2> QED BY <1>6, <2>1, <2>2 DEF Parses, TypeOK, SyncStates
  <1>7. CASE Awaits \/ Queues
    <2>1. sync' \in SyncStates
      BY <1>7, EditsFacts DEF Awaits, Queues, TypeOK, SyncStates
    <2>2. sync.rev \in Revisions
      BY DEF TypeOK
    <2> QED BY <1>7, <2>1, <2>2 DEF Awaits, Queues, TypeOK, SyncStates
  <1> QED BY <1>1, <1>2, <1>3, <1>4, <1>5, <1>6, <1>7 DEF SyncTask

LEMMA UiTypes == ASSUME TypeOK, UiTask PROVE TypeOK'
  <1> USE DEF UiOnly, tick, shared, ble, used, cloud, history, Ticks
  <1>1. CASE Enables \/ Directs
    <2>1. desired' \in [on : BOOLEAN, mode : Modes, scan : BOOLEAN]
      <3>1. CASE Enables
        BY <3>1 DEF Enables, TypeOK, Held, Switch
      <3>2. CASE Directs
        <4>1. PICK scan \in BOOLEAN : scan = (desired.scan /\ seen.mode # "home")
          OBVIOUS
        <4>2. desired' = [desired EXCEPT !.mode = seen.mode, !.scan = scan]
          BY <3>2, <4>1 DEF Directs
        <4> QED BY <4>2 DEF TypeOK
      <3> QED BY <1>1, <3>1, <3>2
    <2> QED BY <1>1, <2>1 DEF Enables, Directs, TypeOK
  <1>2. CASE NotSettled \/ Acknowledged
    BY <1>2, EditsFacts DEF NotSettled, Acknowledged, TypeOK
  <1>3. CASE Acknowledges
    BY <1>3 DEF Acknowledges, TypeOK, Held, Switch
  <1>4. ASSUME NEW ok \in BOOLEAN, Takes(ok) PROVE TypeOK'
    <2>1. queue # 0 /\ queue' = 0 /\ 0 \in Revisions
          /\ UNCHANGED <<latest, told, mode, sync, ble, ui, seen, status, awaiting, force, webAsks,
                         desired, reached, overruled>>
      BY <1>4, EditsFacts DEF Takes, Revisions
    <2>2. Proposed(queue) \in Held
      BY <2>1, EditsFacts DEF Proposed, Held, Switch, TypeOK
    <2>3. flash' \in Held /\ set' \in Held /\ pending' \in Revisions
          /\ changes' \in 0 .. MaxChanges /\ faults' \in 0 .. MaxFaults
      <3>1. CASE queue <= set.rev
        BY <1>4, <3>1 DEF Takes, TypeOK
      <3>2. CASE ~(queue <= set.rev)
        <4>1. /\ Saves(Proposed(queue), ok)
              /\ set' = IF ok THEN Proposed(queue) ELSE set
              /\ pending' = IF ok THEN queue ELSE pending
          BY <1>4, <3>2 DEF Takes, Pending
        <4>2. Outcome(ok)
          BY <4>1 DEF Saves
        <4> QED BY <2>2, <4>1, <4>2, SavedTypes, Budgets DEF TypeOK
      <3> QED BY <3>1, <3>2
    <2> QED BY <2>1, <2>3 DEF TypeOK
  <1>5. ASSUME NEW ok \in BOOLEAN, Serves(ok) PROVE TypeOK'
    <2>1. ui' = "enable" /\ webAsks' = {} /\ seen' = [rev |-> status.rev, mode |-> mode]
          /\ UNCHANGED <<latest, told, mode, sync, ble, pending, status, queue, awaiting, force,
                         desired, reached>>
      BY <1>5 DEF Serves
    <2>2. flash' \in Held /\ set' \in Held /\ overruled' \subseteq Revisions
          /\ changes' \in 0 .. MaxChanges /\ faults' \in 0 .. MaxFaults
      <3>1. CASE webAsks = {}
        BY <1>5, <3>1 DEF Serves, TypeOK
      <3>2. CASE webAsks # {}
        <4> DEFINE on == CHOOSE x \in webAsks : TRUE
                   new == [set EXCEPT !.ble.on = on, !.ble.local = TRUE]
        <4>1. /\ Saves(new, ok) /\ set' = IF ok THEN new ELSE set
              /\ overruled' = IF ok THEN overruled \cup {pending} ELSE overruled
          BY <1>5, <3>2 DEF Serves
        <4>2. on \in BOOLEAN
          BY <3>2 DEF TypeOK
        <4> HIDE DEF on
        <4>3. new \in Held
          BY <4>2 DEF TypeOK, Held, Switch
        <4> HIDE DEF new
        <4>4. Outcome(ok)
          BY <4>1 DEF Saves
        <4> QED BY <4>1, <4>3, <4>4, SavedTypes, Budgets DEF TypeOK
      <3> QED BY <3>1, <3>2
    <2> QED BY <2>1, <2>2 DEF TypeOK
  <1>6. ASSUME NEW ok \in BOOLEAN, IsSettled(ok) PROVE TypeOK'
    <2> DEFINE new == [set EXCEPT !.rev = pending]
    <2>1. /\ reached' \in {reached, reached \cup {pending}} /\ Saves(new, ok)
          /\ ui' \in {"status", "take"}
          /\ set' = [set EXCEPT !.rev = IF ok THEN pending ELSE seen.rev]
          /\ UNCHANGED <<latest, told, mode, sync, ble, pending, seen, status, queue, awaiting,
                         force, webAsks, desired, overruled>>
      BY <1>6 DEF IsSettled, Confirms
    <2>2. new \in Held /\ set' \in Held
      BY <2>1 DEF TypeOK, Held
    <2> HIDE DEF new
    <2>3. Outcome(ok)
      BY <2>1 DEF Saves
    <2> QED BY <2>1, <2>2, <2>3, SavedTypes, Budgets DEF TypeOK
  <1> QED BY <1>1, <1>2, <1>3, <1>4, <1>5, <1>6 DEF UiTask

LEMMA OtherTypes ==
    ASSUME TypeOK, Web \/ ScanTimesOut \/ ModeMoves
    PROVE  TypeOK'
  <1> USE DEF Others, tick, shared, ble, used, cloud, history
  <1>1. ASSUME NEW on \in BOOLEAN, WebBluetooth(on) PROVE TypeOK'
    BY <1>1, Budgets DEF WebBluetooth, TypeOK
  <1>2. CASE WebScans
    <2>1. desired' \in [on : BOOLEAN, mode : Modes, scan : BOOLEAN]
      BY <1>2 DEF WebScans, TypeOK
    <2> QED BY <1>2, <2>1, Budgets DEF WebScans, TypeOK
  <1>3. CASE ScanTimesOut
    <2>1. desired' \in [on : BOOLEAN, mode : Modes, scan : BOOLEAN]
      BY <1>3 DEF ScanTimesOut, TypeOK
    <2> QED BY <1>3, <2>1 DEF ScanTimesOut, TypeOK
  <1>4. CASE ModeMoves
    BY <1>4, Budgets DEF ModeMoves, TypeOK, Modes
  <1> QED BY <1>1, <1>2, <1>3, <1>4 DEF Web

LEMMA BleTypes ==
    ASSUME TypeOK, BleTask \/ HostStarts \/ HostSyncs \/ HostResets
    PROVE  TypeOK'
  <1> USE DEF BleOnly, tick, shared, used, cloud, history
  <1>1. CASE Looks
    BY <1>1 DEF Looks, TypeOK, Wanted
  <1>2. CASE StopsRadio \/ Stopped \/ NothingToStop \/ Begun \/ NothingToBegin
    BY <1>2 DEF StopsRadio, Stopped, NothingToStop, Begun, NothingToBegin, TypeOK
  <1>3. CASE StopRefused
    <2>1. PICK ok \in BOOLEAN : Outcome(ok)
      BY <1>3 DEF StopRefused
    <2> QED BY <1>3, <2>1, Budgets DEF StopRefused, TypeOK
  <1>4. ASSUME NEW role \in Roles, NEW ok \in BOOLEAN, Begins(role, ok) PROVE TypeOK'
    <2>1. PICK fine \in BOOLEAN : Outcome(fine)
      BY <1>4 DEF Begins
    <2> QED BY <1>4, <2>1, Budgets DEF Begins, TypeOK
  <1>5. CASE HostStarts \/ HostSyncs
    BY <1>5 DEF HostStarts, HostSyncs, TypeOK
  <1>6. CASE HostResets
    <2>1. desired' \in [on : BOOLEAN, mode : Modes, scan : BOOLEAN]
      BY <1>6 DEF HostResets, TypeOK
    <2> QED BY <1>6, <2>1, Budgets DEF HostResets, TypeOK
  <1> QED BY <1>1, <1>2, <1>3, <1>4, <1>5, <1>6 DEF BleTask

LEMMA RebootTypes == ASSUME TypeOK, Reboots PROVE TypeOK'
  <1>1. flash \in Held /\ flash.rev \in Revisions /\ flash.ble.on \in BOOLEAN /\ 0 \in Revisions
    BY EditsFacts DEF TypeOK, Held, Switch, Revisions
  <1> QED BY <1>1, Budgets DEF Reboots, TypeOK, Place, Modes, cloud, history

LEMMA TypeStep == TypeOK /\ [Next]_vars => TypeOK'
  <1>1. ASSUME TypeOK, UNCHANGED vars PROVE TypeOK'
    BY <1>1 DEF vars, cloud, tick, shared, ble, used, history, TypeOK
  <1> QED BY <1>1, SyncTypes, UiTypes, OtherTypes, BleTypes, RebootTypes DEF Next

\* Every variable keeps its type, for every history of revisions and any budget of
\* changes and faults.
THEOREM TypeCorrect == Spec => []TypeOK
  <1> QED BY InitTypes, TypeStep, PTL DEF Spec
-----------------------------------------------------------------------------
(* The numbers of revisions.                                               *)

\* What the cloud was told, the UI reports, RAM and flash hold and was ever made
\* follow one another; only after a save that failed may flash be ahead of RAM.
Ordered ==
    /\ told <= status.rev
    /\ status.rev <= set.rev /\ set.rev <= latest
    /\ status.rev <= flash.rev /\ flash.rev <= latest

\* A revision on its way to the UI is no older than a number in RAM or flash.
Coming ==
    /\ pending # 0 => set.rev <= pending /\ flash.rev <= pending
    /\ pending <= latest /\ queue <= latest
    /\ queue # 0 => set.rev <= queue /\ flash.rev <= queue /\ pending <= queue
    /\ sync.pc \in {"parse", "await", "queue"} =>
          /\ set.rev <= sync.rev /\ flash.rev <= sync.rev /\ pending <= sync.rev
          /\ queue <= sync.rev /\ sync.rev <= latest
    /\ sync.pc \in {"await", "queue"} => sync.rev # 0

\* What the tasks hold in hand is not ahead of what they copied; between the save and
\* the acknowledgement RAM and flash hold the revision that is pending.
Copied ==
    /\ sync.pc \in {"report", "send"} => sync.rev <= status.rev
    /\ ui \in {"enable", "direct", "settle"} => seen.rev = status.rev
    /\ ui \in {"status", "flags"} => pending # 0 /\ set.rev = pending /\ flash.rev = pending

\* Where no local client has set a switch it is that of the revision it comes from.
Owns(switch) == switch.from # 0 /\ ~switch.local => switch.on = Edits[switch.from]

\* The switches in RAM and flash are no older than either number: a save that fails may
\* put the number of one beside the switch of the other.  While a revision is pending
\* the switch in RAM is its own, that in flash may come from a later one.
Fits ==
    /\ set.ble.from >= set.rev /\ set.ble.from >= flash.rev
    /\ flash.ble.from >= set.rev /\ flash.ble.from >= flash.rev
    /\ pending # 0 => set.ble.from = pending /\ flash.ble.from >= pending
    /\ Owns(set.ble) /\ Owns(flash.ble)

\* A number that is kept, reported or told is that of a revision that was found in
\* effect or overruled; while it is pending and overruled, that is recorded, and from
\* bluetooth::apply on the radio is told the switch in RAM.
Vouched(rev) == rev # 0 => rev \in reached \cup overruled
Proven ==
    /\ Vouched(told) /\ Vouched(status.rev) /\ Vouched(set.rev) /\ Vouched(flash.rev)
    /\ sync.pc \in {"report", "send"} => Vouched(sync.rev)
    /\ pending # 0 /\ set.ble.local => pending \in overruled
    /\ ui \in {"direct", "settle"} => desired.on = set.ble.on

NumbersInv == TypeOK /\ Ordered /\ Coming /\ Copied /\ Fits /\ Proven

\* The numbers, for the provers: natural numbers.
LEMMA Numbers ==
    ASSUME TypeOK
    PROVE  /\ {latest, told, pending, queue} \subseteq Nat
           /\ {flash.rev, flash.ble.from, set.rev, set.ble.from, status.rev, seen.rev,
               sync.rev} \subseteq Nat
  BY EditsFacts DEF TypeOK, Held, Switch, Revisions

LEMMA NumbersInit == Init => NumbersInv
  BY InitTypes DEF Init, NumbersInv, Ordered, Coming, Copied, Fits, Owns, Proven, Vouched, Place

LEMMA NumbersKept ==
    ASSUME NumbersInv, TypeOK', UNCHANGED <<cloud, flash, tick, status, queue, sync, history>>,
           desired'.on = desired.on
    PROVE  NumbersInv'
  BY DEF NumbersInv, Ordered, Coming, Copied, Fits, Owns, Proven, Vouched, cloud, tick, history

LEMMA NumbersSync == ASSUME NumbersInv, Edit \/ SyncTask PROVE NumbersInv'
  <1> USE DEF SyncOnly, tick, shared, history, At, Place, Ordered, Coming, Copied, Fits, Owns,
             Proven, Vouched
  <1>0. TypeOK /\ TypeOK'
    BY SyncTypes DEF NumbersInv
  <1>1. CASE Edit
    BY <1>0, <1>1, Numbers DEF Edit, NumbersInv
  <1>2. CASE Copies
    BY <1>0, <1>2, Numbers DEF Copies, NumbersInv, TypeOK
  <1>3. ASSUME NEW due \in BOOLEAN, Exchanges(due) PROVE NumbersInv'
    <2>1. sync'.pc = "poll" \/ (sync'.pc = "send" /\ sync'.rev = sync.rev)
      BY <1>0, <1>3 DEF Exchanges, TypeOK
    <2> QED BY <1>0, <1>3, <2>1, Numbers DEF Exchanges, NumbersInv
  <1>4. ASSUME NEW arrives \in BOOLEAN, NEW answered \in BOOLEAN, Reports(arrives, answered)
        PROVE  NumbersInv'
    BY <1>0, <1>4, Numbers DEF Reports, NumbersInv
  <1>5. ASSUME NEW due \in BOOLEAN, NEW answered \in BOOLEAN, Polls(due, answered)
        PROVE  NumbersInv'
    BY <1>0, <1>5, Numbers DEF Polls, NumbersInv
  <1>6. CASE Parses
    <2>1. sync'.pc = "idle" \/ (sync'.pc = "await" /\ sync'.rev = sync.rev /\ sync.rev > status.rev)
      BY <1>0, <1>6 DEF Parses, News, TypeOK
    <2> QED BY <1>0, <1>6, <2>1, Numbers DEF Parses, NumbersInv
  <1>7. CASE Awaits
    <2>1. sync'.pc = "queue" /\ sync'.rev = sync.rev
      BY <1>0, <1>7 DEF Awaits, TypeOK
    <2> QED BY <1>0, <1>7, <2>1, Numbers DEF Awaits, NumbersInv
  <1>8. CASE Queues
    BY <1>0, <1>8, Numbers DEF Queues, NumbersInv
  <1> QED BY <1>1, <1>2, <1>3, <1>4, <1>5, <1>6, <1>7, <1>8 DEF SyncTask

\* What flash may hold after a save, number and switch apart.
LEMMA SavedNumbers ==
    ASSUME NEW new \in Held, NEW ok \in BOOLEAN, Saves(new, ok)
    PROVE  /\ ok => flash' = new
           /\ flash'.rev \in {flash.rev, new.rev} /\ flash'.ble \in {flash.ble, new.ble}
  BY DEF Saves

LEMMA NumbersUi == ASSUME NumbersInv, UiTask PROVE NumbersInv'
  <1> USE DEF UiOnly, cloud, tick, shared, history, Ticks
  <1>0. TypeOK /\ TypeOK'
    BY UiTypes DEF NumbersInv
  <1>1. CASE Enables \/ Directs \/ NotSettled
    <2>1. ui' = "direct" => desired'.on = set.ble.on
      BY <1>0, <1>1 DEF Enables, Directs, NotSettled, TypeOK
    <2>2. ui' = "settle" => ui = "direct" /\ desired'.on = desired.on
      BY <1>0, <1>1 DEF Enables, Directs, NotSettled, TypeOK
    <2>3. /\ ui' # "status" /\ ui' # "flags"
          /\ ui' \in {"direct", "settle"} => seen'.rev = status'.rev
          /\ UNCHANGED <<cloud, sync, flash, set, pending, status, queue, history>>
      BY <1>0, <1>1 DEF Enables, Directs, NotSettled, NumbersInv, Copied
    <2> QED BY <1>0, <1>1, <2>1, <2>2, <2>3
            DEF NumbersInv, Ordered, Coming, Copied, Fits, Owns, Proven, Vouched, Enables,
                Directs, NotSettled
  <1>2. CASE Acknowledges
    <2>1. status'.rev = pending
      BY <1>0, <1>2, Numbers DEF Acknowledges, NumbersInv, Ordered, Copied
    <2> QED BY <1>0, <1>2, <2>1, Numbers
            DEF Acknowledges, NumbersInv, Ordered, Coming, Copied, Fits, Owns, Proven,
                Vouched
  <1>3. CASE Acknowledged
    BY <1>0, <1>3, Numbers DEF Acknowledged, NumbersInv, Ordered, Coming, Copied, Fits,
                                   Owns, Proven, Vouched
  <1>4. ASSUME NEW ok \in BOOLEAN, Takes(ok) PROVE NumbersInv'
    <2>1. queue # 0 /\ queue' = 0 /\ ui = "take"
          /\ UNCHANGED <<latest, told, sync, ui, seen, status, desired, history>>
      BY <1>4 DEF Takes
    <2>2. CASE queue <= set.rev
      BY <1>0, <1>4, <2>1, <2>2, Numbers DEF Takes, NumbersInv, Ordered, Coming, Copied, Fits,
                                               Owns, Proven, Vouched
    <2>3. CASE ~(queue <= set.rev)
      <3> DEFINE new == Proposed(queue)
      <3>1. /\ Saves(new, ok)
            /\ set' = IF ok THEN new ELSE set
            /\ pending' = IF ok THEN queue ELSE pending
        BY <1>4, <2>3 DEF Takes, Pending
      <3>2. /\ new \in Held /\ new.rev = set.rev
            /\ new.ble.from = queue /\ ~new.ble.local /\ Owns(new.ble)
        BY <1>0, <2>1, EditsFacts DEF Proposed, Held, Switch, TypeOK, Owns
      <3> HIDE DEF new
      <3> QED BY <1>0, <2>1, <2>3, <3>1, <3>2, Numbers, SavedNumbers
              DEF NumbersInv, Ordered, Coming, Copied, Fits, Owns, Proven, Vouched
    <2> QED BY <2>2, <2>3
  <1>5. ASSUME NEW ok \in BOOLEAN, Serves(ok) PROVE NumbersInv'
    <2>1. /\ ui' = "enable" /\ seen'.rev = status.rev
          /\ UNCHANGED <<latest, told, sync, pending, status, queue, reached>>
      BY <1>5 DEF Serves
    <2>2. CASE webAsks = {}
      <3>1. UNCHANGED <<flash, set, overruled>>
        BY <1>5, <2>2 DEF Serves
      <3> QED BY <1>0, <2>1, <3>1, Numbers
              DEF NumbersInv, Ordered, Coming, Copied, Fits, Owns, Proven, Vouched
    <2>3. CASE webAsks # {}
      <3> DEFINE on == CHOOSE x \in webAsks : TRUE
                 new == [set EXCEPT !.ble.on = on, !.ble.local = TRUE]
      <3>1. /\ Saves(new, ok) /\ set' = IF ok THEN new ELSE set
            /\ overruled' = IF ok THEN overruled \cup {pending} ELSE overruled
        BY <1>5, <2>3 DEF Serves
      <3>2. on \in BOOLEAN
        BY <1>0, <2>3 DEF TypeOK
      <3> HIDE DEF on
      <3>3. /\ new \in Held /\ new.rev = set.rev
            /\ new.ble.from = set.ble.from /\ new.ble.local
        BY <1>0, <3>2 DEF TypeOK, Held, Switch
      <3> HIDE DEF new
      <3> QED BY <1>0, <2>1, <3>1, <3>3, Numbers, SavedNumbers
              DEF NumbersInv, Ordered, Coming, Copied, Fits, Owns, Proven, Vouched
    <2> QED BY <2>2, <2>3
  <1>6. ASSUME NEW ok \in BOOLEAN, IsSettled(ok) PROVE NumbersInv'
    <2> DEFINE new == [set EXCEPT !.rev = pending]
    <2>1. /\ ui = "settle" /\ pending # 0
          /\ reached' = IF desired.on = Edits[pending] THEN reached \cup {pending} ELSE reached
          /\ Saves(new, ok)
          /\ ui' = IF ok THEN "status" ELSE "take"
          /\ set' = [set EXCEPT !.rev = IF ok THEN pending ELSE seen.rev]
          /\ UNCHANGED <<latest, told, sync, pending, seen, status, queue, desired, overruled>>
      BY <1>6 DEF IsSettled, Confirms
    <2>2. new \in Held /\ new.rev = pending /\ new.ble = set.ble
      BY <1>0 DEF TypeOK, Held
    <2>3. set'.ble = set.ble /\ set'.rev = IF ok THEN pending ELSE seen.rev
      BY <1>0, <2>1 DEF TypeOK, Held
    <2> HIDE DEF new
    <2>4. Vouched(pending)'
      BY <1>0, <2>1, Numbers DEF NumbersInv, Fits, Owns, Proven, Vouched
    <2> QED BY <1>0, <2>1, <2>2, <2>3, <2>4, Numbers, SavedNumbers
            DEF NumbersInv, Ordered, Coming, Copied, Fits, Owns, Proven, Vouched
  <1> QED BY <1>1, <1>2, <1>3, <1>4, <1>5, <1>6 DEF UiTask

LEMMA NumbersReboot == ASSUME NumbersInv, Reboots PROVE NumbersInv'
  <1>1. TypeOK /\ TypeOK'
    BY RebootTypes DEF NumbersInv
  <1> QED BY <1>1, Numbers DEF Reboots, NumbersInv, Ordered, Coming, Copied, Fits, Owns, Proven,
                               Vouched, Place, cloud, history

LEMMA NumbersStep == NumbersInv /\ [Next]_vars => NumbersInv'
  <1> SUFFICES ASSUME NumbersInv, [Next]_vars PROVE NumbersInv'
    OBVIOUS
  <1>1. TypeOK'
    BY TypeStep DEF NumbersInv
  <1>2. CASE Web \/ ScanTimesOut \/ ModeMoves
    BY <1>1, <1>2, NumbersKept
    DEF Web, WebBluetooth, WebScans, ScanTimesOut, ModeMoves, Others, shared, NumbersInv, TypeOK
  <1>3. CASE BleTask \/ HostStarts \/ HostSyncs \/ HostResets
    <2>1. BleOnly
      BY <1>3 DEF BleTask, Looks, StopsRadio, Stopped, StopRefused, NothingToStop, Begins, Begun,
                  NothingToBegin, HostStarts, HostSyncs, HostResets
    <2>2. desired'.on = desired.on
      BY <1>3 DEF BleTask, Looks, StopsRadio, Stopped, StopRefused, NothingToStop, Begins, Begun,
                  NothingToBegin, HostStarts, HostSyncs, HostResets, NumbersInv, TypeOK
    <2> QED BY <1>1, <2>1, <2>2, NumbersKept DEF BleOnly, shared
  <1>4. CASE UNCHANGED vars
    BY <1>1, <1>4, NumbersKept DEF vars, shared
  <1> QED BY <1>2, <1>3, <1>4, NumbersSync, NumbersUi, NumbersReboot DEF Next

LEMMA NumbersInvariance == Spec => []NumbersInv
  <1> QED BY NumbersInit, NumbersStep, PTL DEF Spec

\* A revision the cloud is told is applied was found in effect or had been overruled by
\* a local client, and its number is kept, for every history of revisions, failed saves
\* and reboots (main.cpp: the number is saved only after the radio settled, the status
\* changes only after the save).
THEOREM ToldTruly == Spec => []ToldIsTrue
  <1>1. NumbersInv => ToldIsTrue
    BY Numbers DEF NumbersInv, Ordered, Proven, Vouched, ToldIsTrue
  <1> QED BY <1>1, NumbersInvariance, PTL

\* The switch kept is never that of a revision older than the number kept with it, and
\* unless a local client has set it, it is that revision's, whichever keys a save that
\* fails has written (home_hub_settings_store.cpp: save).
THEOREM NumberFits == Spec => []NumberFitsContents
  <1>1. NumbersInv => NumberFitsContents
    BY DEF NumbersInv, Fits, Owns, NumberFitsContents
  <1> QED BY <1>1, NumbersInvariance, PTL
-----------------------------------------------------------------------------
(* The roles of the controller.                                            *)

\* The worker wants one role at most, and one flag at most is set.
OneWanted == worker.wants # Roles /\ flags # Roles

\* The radio does nothing that no flag says, but for the role the worker has just begun.
RadioKnown == radio \subseteq flags \cup (IF worker.pc = "begun" THEN worker.wants ELSE {})

\* A role is begun when no flag is set, and ended on the radio before on the flag.
InTurn ==
    /\ worker.pc = "begun" => flags = {}
    /\ worker.pc = "stopped" => radio \subseteq worker.wants

RolesInv == TypeOK /\ OneWanted /\ RadioKnown /\ InTurn

\* Nothing is wanted in both modes.
LEMMA OneModeWanted == Wanted \subseteq Roles /\ Wanted # Roles
  BY DEF Wanted, Roles

LEMMA RolesInit == Init => RolesInv
  BY InitTypes DEF Init, RolesInv, OneWanted, RadioKnown, InTurn, Roles

LEMMA RolesKept ==
    ASSUME RolesInv, TypeOK', UNCHANGED <<flags, radio, worker>>
    PROVE  RolesInv'
  BY DEF RolesInv, OneWanted, RadioKnown, InTurn

LEMMA RolesBle ==
    ASSUME RolesInv, BleTask \/ HostStarts \/ HostSyncs \/ HostResets
    PROVE  RolesInv'
  <1>0. /\ TypeOK /\ TypeOK' /\ radio \subseteq Roles /\ flags \subseteq Roles
        /\ worker \in [pc : {"look", "stop", "stopped", "begin", "begun"}, wants : SUBSET Roles]
    BY BleTypes DEF RolesInv, TypeOK
  <1> USE DEF RolesInv, OneWanted, RadioKnown, InTurn
  <1>1. CASE Looks
    <2>1. /\ worker'.pc \in {"stop", "begin"} /\ worker'.wants = Wanted
          /\ worker.pc = "look" /\ UNCHANGED <<flags, radio>>
      BY <1>1 DEF Looks
    <2> QED BY <1>0, <2>1, OneModeWanted
  <1>2. CASE StopsRadio
    <2>1. worker'.pc = "stopped" /\ worker'.wants = worker.wants
      BY <1>0, <1>2 DEF StopsRadio
    <2>2. worker.pc = "stop" /\ radio' = radio \ Stale /\ flags' = flags
      BY <1>2 DEF StopsRadio
    <2> QED BY <1>0, <2>1, <2>2 DEF Stale
  <1>3. CASE Stopped
    <2>1. worker'.pc = "begin" /\ worker'.wants = worker.wants
      BY <1>0, <1>3 DEF Stopped
    <2>2. worker.pc = "stopped" /\ flags' = flags \cap worker.wants /\ radio' = radio
      BY <1>3 DEF Stopped
    <2> QED BY <1>0, <2>1, <2>2
  <1>4. CASE StopRefused \/ NothingToStop
    <2>1. worker'.pc = "begin" /\ worker'.wants = worker.wants
      BY <1>0, <1>4 DEF StopRefused, NothingToStop
    <2>2. worker.pc = "stop" /\ UNCHANGED <<flags, radio>>
      BY <1>4 DEF StopRefused, NothingToStop
    <2> QED BY <1>0, <2>1, <2>2
  <1>5. ASSUME NEW role \in Roles, NEW ok \in BOOLEAN, Begins(role, ok) PROVE RolesInv'
    <2>1. /\ worker.pc = "begin" /\ flags = {} /\ flags' = flags
          /\ radio' = IF ok THEN radio \cup {role} ELSE radio
          /\ worker' = IF ok THEN [pc |-> "begun", wants |-> {role}]
                             ELSE [pc |-> "look", wants |-> {}]
      BY <1>5 DEF Begins, MayBegin
    <2>2. {role} # Roles /\ Roles # {}
      BY DEF Roles
    <2> QED BY <1>0, <2>1, <2>2
  <1>6. CASE Begun
    <2>1. /\ worker.pc = "begun" /\ flags' = flags \cup worker.wants /\ radio' = radio
          /\ worker' = [pc |-> "look", wants |-> {}]
      BY <1>6 DEF Begun
    <2>2. Roles # {}
      BY DEF Roles
    <2> QED BY <1>0, <2>1, <2>2
  <1>7. CASE NothingToBegin
    <2>1. Roles # {}
      BY DEF Roles
    <2> QED BY <1>0, <1>7, <2>1 DEF NothingToBegin
  <1>8. CASE HostStarts \/ HostSyncs
    BY <1>0, <1>8 DEF HostStarts, HostSyncs
  <1>9. CASE HostResets
    <2>1. Roles # {}
      BY DEF Roles
    <2> QED BY <1>0, <1>9, <2>1 DEF HostResets
  <1> QED BY <1>1, <1>2, <1>3, <1>4, <1>5, <1>6, <1>7, <1>8, <1>9 DEF BleTask

LEMMA RolesStep == RolesInv /\ [Next]_vars => RolesInv'
  <1> SUFFICES ASSUME RolesInv, [Next]_vars PROVE RolesInv'
    OBVIOUS
  <1>1. TypeOK'
    BY TypeStep DEF RolesInv
  <1>2. CASE Edit \/ Web \/ ScanTimesOut \/ ModeMoves
    BY <1>1, <1>2, RolesKept
    DEF Edit, Web, WebBluetooth, WebScans, ScanTimesOut, ModeMoves, Others, ble
  <1>3. CASE SyncTask
    <2>1. UNCHANGED ble
      BY <1>3 DEF SyncTask, Copies, Exchanges, Reports, Polls, Parses, Awaits, Queues, SyncOnly
    <2> QED BY <1>1, <2>1, RolesKept DEF ble
  <1>4. CASE UiTask
    <2>1. UNCHANGED ble
      BY <1>4 DEF UiTask, Enables, Directs, NotSettled, Acknowledges, Acknowledged, Takes, Serves,
                  IsSettled, UiOnly
    <2> QED BY <1>1, <2>1, RolesKept DEF ble
  <1>5. CASE Reboots
    <2>1. Roles # {}
      BY DEF Roles
    <2> QED BY <1>1, <1>5, <2>1 DEF Reboots, RolesInv, OneWanted, RadioKnown, InTurn
  <1>6. CASE UNCHANGED vars
    BY <1>1, <1>6, RolesKept DEF vars, ble
  <1> QED BY <1>2, <1>3, <1>4, <1>5, <1>6, RolesBle DEF Next

\* The controller never beacons and scans at the same time, however the mode moves
\* while the worker acts on what it has evaluated, and whatever calls and resets fail
\* it (home_hub_bluetooth.cpp: control_task).
THEOREM RolesTakeTurns == Spec => []OneRole
  <1>1. RolesInv => OneRole
    BY DEF RolesInv, OneWanted, RadioKnown, InTurn, TypeOK, OneRole
  <1> QED BY <1>1, RolesInit, RolesStep, PTL DEF Spec
=============================================================================
