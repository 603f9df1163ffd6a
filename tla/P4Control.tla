------------------------------ MODULE P4Control ------------------------------
(***************************************************************************)
(* Remote control of the ESP32-P4 Home Hub: a revision of its settings,    *)
(* made in the cloud, is fetched and reported by the network task          *)
(* (home_hub_cloud.cpp), kept and applied by the tick of the UI task       *)
(* (main.cpp), carried out by the Bluetooth worker on top of NimBLE        *)
(* (home_hub_bluetooth.cpp), and told to the cloud once it is in effect.   *)
(* The local web server may change the Bluetooth preference and ask for a  *)
(* scan (home_hub_web.cpp).                                                *)
(*                                                                         *)
(* Of a revision's contents only the Bluetooth switch is kept: it is the   *)
(* one that takes another task to carry out.  Time is not modelled: a poll *)
(* or a report may fall due at any moment.                                 *)
(***************************************************************************)
EXTENDS Naturals, Sequences

CONSTANTS
    Edits,          \* bound: the revisions made in the cloud, each the switch it sets
    MaxChanges,     \* bound: changes of mode and requests of local web clients
    MaxFaults,      \* bound: exchanges, saves and controller calls that fail, controller
                    \* resets and reboots
    MaxEvents       \* bound: revisions, changes and faults together

ASSUME P4ControlAssumption ==
    Edits \in Seq(BOOLEAN) /\ {MaxChanges, MaxFaults, MaxEvents} \subseteq Nat

VARIABLES
    latest,      \* cloud: the last revision made
    told,        \* cloud: the last applied_revision reported
    flash,       \* NVS: cloud_rev, and bt_en with where it comes from: the revision and,
                 \* if it has replaced that revision's switch, a local web client
    set,         \* ui.settings, the same
    pending,     \* ui.pending_cloud_control_revision, 0 when not valid
    ui, seen,    \* where the UI tick is, and its copy of the cloud status
    status,      \* g_status: applied_settings_revision, bluetooth_enabled
    mode,        \* g_status.effective_mode
    queue,       \* g_controls: the one revision it holds, 0 when empty
    awaiting,    \* g_control_pending
    force,       \* g_force_self_report
    sync,        \* the network task: where it is, the revision it works with
    webAsks,     \* g_requested_bluetooth
    desired,     \* g_desired_enabled, g_desired_mode, g_scan_deadline_us
    host,        \* NimBLE: off, reset, synced
    flags,       \* of g_advertising, g_scanning: those that are set
    radio,       \* the roles the controller carries out
    worker,      \* control_task: where it is and what it has evaluated
    reached,     \* history: the revisions found settled with their own switch in effect
    overruled,   \* history: the revisions whose switch a local web client replaced while
                 \* they were pending
    changes,     \* changes so far
    faults       \* faults so far

cloud == <<latest, told>>
history == <<reached, overruled>>
tick == <<set, pending, ui, seen>>
shared == <<status, queue, awaiting, force>>
ble == <<host, flags, radio, worker>>
used == <<changes, faults>>
vars == <<cloud, flash, tick, shared, mode, sync, webAsks, desired, ble, history, used>>

Modes == {"home", "away"}
Roles == {"beacon", "scan"}
Revisions == 0 .. Len(Edits)
Switch == [on : BOOLEAN, from : Revisions, local : BOOLEAN]
Held == [rev : Revisions, ble : Switch]

MoreEvents == latest + changes + faults < MaxEvents
Changes == MoreEvents /\ changes < MaxChanges /\ changes' = changes + 1 /\ UNCHANGED faults
Faults == MoreEvents /\ faults < MaxFaults /\ faults' = faults + 1 /\ UNCHANGED changes
Outcome(ok) == IF ok THEN UNCHANGED used ELSE Faults

\* Where the network task is; the revision it works with is set where one is.
At(place) == sync.pc = place
Place(place) == [pc |-> place, rev |-> 0]

Init ==
    /\ latest = 0 /\ told = 0
    /\ flash = [rev |-> 0, ble |-> [on |-> TRUE, from |-> 0, local |-> FALSE]]
    /\ set = flash /\ pending = 0
    /\ ui = "take" /\ seen = [rev |-> 0, mode |-> "home"]
    /\ status = [rev |-> 0, ble |-> TRUE] /\ mode = "home"
    /\ queue = 0 /\ awaiting = FALSE /\ force = FALSE
    /\ sync = Place("idle")
    /\ webAsks = {}
    /\ desired \in [on : {TRUE}, mode : Modes, scan : {FALSE}]
    /\ host = "off" /\ flags = {} /\ radio = {}
    /\ worker = [pc |-> "look", wants |-> {}]
    /\ reached = {} /\ overruled = {}
    /\ changes = 0 /\ faults = 0
-----------------------------------------------------------------------------
(* The cloud                                                                *)

Edit ==
    /\ latest < Len(Edits) /\ MoreEvents
    /\ latest' = latest + 1
    /\ UNCHANGED <<told, flash, tick, shared, mode, sync, webAsks, desired, ble, history, used>>
-----------------------------------------------------------------------------
(* The network task: post_hub_presence, poll_hub_settings_if_due            *)

SyncOnly == UNCHANGED <<latest, flash, tick, mode, webAsks, desired, ble, history>>

Copies ==
    /\ At("idle")
    /\ sync' = [pc |-> "report", rev |-> status.rev]
    /\ SyncOnly /\ UNCHANGED <<told, shared, used>>

\* The request for a report is consumed here, whatever becomes of the report.
\* Without one the report may not be due.
Exchanges(due) ==
    /\ At("report")
    /\ due \/ ~force
    /\ force' = FALSE
    /\ sync' = IF due THEN [sync EXCEPT !.pc = "send"] ELSE Place("poll")
    /\ SyncOnly /\ UNCHANGED <<told, status, queue, awaiting, used>>

\* The cloud takes the report; the answer, which carries the latest revision, may
\* be lost.
Reports(arrives, answered) ==
    /\ At("send")
    /\ answered => arrives
    /\ Outcome(answered)
    /\ told' = IF arrives THEN sync.rev ELSE told
    /\ sync' = IF answered THEN [pc |-> "parse", rev |-> latest] ELSE Place("poll")
    /\ SyncOnly /\ UNCHANGED shared

\* fetch_hub_settings, when a poll is due.
Polls(due, answered) ==
    /\ At("poll")
    /\ ~answered => due
    /\ Outcome(answered)
    /\ sync' = IF due /\ answered THEN [pc |-> "parse", rev |-> latest]
                                  ELSE Place("idle")
    /\ SyncOnly /\ UNCHANGED <<told, shared>>

\* parse_control_settings
\* (_OnceOnly: a revision is not queued again while one is awaited.)
News_OnceOnly(rev) == rev > status.rev /\ ~awaiting
News(rev) == rev > status.rev

Parses ==
    /\ At("parse")
    /\ sync' = IF News(sync.rev) THEN [sync EXCEPT !.pc = "await"] ELSE Place("idle")
    /\ awaiting' = (awaiting /\ sync.rev > status.rev)
    /\ SyncOnly /\ UNCHANGED <<told, status, queue, force, used>>

Awaits ==
    /\ At("await")
    /\ awaiting' = TRUE
    /\ sync' = [sync EXCEPT !.pc = "queue"]
    /\ SyncOnly /\ UNCHANGED <<told, status, queue, force, used>>

Queues ==
    /\ At("queue")
    /\ queue' = sync.rev
    /\ sync' = Place("idle")
    /\ SyncOnly /\ UNCHANGED <<told, status, awaiting, force, used>>

-----------------------------------------------------------------------------
(* One tick of the UI task                                                  *)

Ticks(from, to) == ui = from /\ ui' = to
UiOnly == UNCHANGED <<cloud, mode, sync, ble>>

\* settings_store::save goes on after a key that fails, so what a failed save leaves
\* is old or new key by key.
Saves(new, ok) ==
    /\ Outcome(ok)
    /\ IF ok THEN flash' = new
             ELSE flash' \in [rev : {flash.rev, new.rev}, ble : {flash.ble, new.ble}]

\* (_Confirmed: the new revision number is kept at once.)
Proposed_Confirmed(rev) ==
    [rev |-> rev, ble |-> [on |-> Edits[rev], from |-> rev, local |-> FALSE]]
Proposed(rev) ==
    [rev |-> set.rev, ble |-> [on |-> Edits[rev], from |-> rev, local |-> FALSE]]

\* (_Regardless: a revision that could not be saved is pending as well.)
Pending_Regardless(rev, ok) == rev
Pending(rev, ok) == IF ok THEN rev ELSE pending

Takes(ok) ==
    /\ ui = "take" /\ queue # 0
    /\ queue' = 0
    /\ IF queue <= set.rev
         THEN ok /\ UNCHANGED <<flash, set, pending, used>>
         ELSE /\ Saves(Proposed(queue), ok)
              /\ set' = IF ok THEN Proposed(queue) ELSE set
              /\ pending' = Pending(queue, ok)
    /\ UiOnly /\ UNCHANGED <<ui, seen, status, awaiting, force, webAsks, desired, history>>

\* takeRequestedBluetooth, then the status the rest of the tick works with
Serves(ok) ==
    /\ Ticks("take", "enable") /\ queue = 0
    /\ webAsks' = {}
    /\ IF webAsks = {}
         THEN ok /\ UNCHANGED <<flash, set, overruled, used>>
         ELSE LET new == [set EXCEPT !.ble.on = CHOOSE on \in webAsks : TRUE, !.ble.local = TRUE]
              IN  /\ Saves(new, ok)
                  /\ set' = IF ok THEN new ELSE set
                  /\ overruled' = IF ok THEN overruled \cup {pending} ELSE overruled
    /\ seen' = [rev |-> status.rev, mode |-> mode]
    /\ UiOnly /\ UNCHANGED <<pending, shared, desired, reached>>

\* bluetooth::apply: the switch, then the mode
Enables ==
    /\ Ticks("enable", "direct")
    /\ desired' = [desired EXCEPT !.on = set.ble.on]
    /\ UiOnly /\ UNCHANGED <<flash, set, pending, seen, shared, webAsks, history, used>>

Directs ==
    /\ Ticks("direct", "settle")
    /\ desired' = [desired EXCEPT !.mode = seen.mode, !.scan = @ /\ seen.mode # "home"]
    /\ UiOnly /\ UNCHANGED <<flash, set, pending, seen, shared, webAsks, history, used>>

\* should_advertise, should_scan, status().settled
Wanted ==
    {r \in Roles : IF r = "beacon" THEN desired.on /\ desired.mode = "home"
                                   ELSE desired.mode # "home" /\ desired.scan}
Settled == host = "synced" /\ flags = Wanted

NotSettled ==
    /\ Ticks("settle", "take")
    /\ pending = 0 \/ ~Settled
    /\ UiOnly /\ UNCHANGED <<flash, set, pending, seen, shared, webAsks, desired, history, used>>

Confirms(ok) == ok

\* The radio has settled to the switch in force, which need not be the revision's: a
\* web client may have replaced it in this tick or since the revision was taken.
IsSettled(ok) ==
    /\ ui = "settle" /\ pending # 0 /\ Settled
    /\ reached' = IF desired.on = Edits[pending] THEN reached \cup {pending} ELSE reached
    /\ Saves([set EXCEPT !.rev = pending], ok)
    /\ ui' = IF Confirms(ok) THEN "status" ELSE "take"
    /\ set' = [set EXCEPT !.rev = IF Confirms(ok) THEN pending ELSE seen.rev]
    /\ UiOnly /\ UNCHANGED <<pending, seen, shared, webAsks, desired, overruled>>

\* acknowledgeControlUpdate: the status, then the two flags
Acknowledges ==
    /\ Ticks("status", "flags")
    /\ status' = IF pending >= status.rev THEN [rev |-> pending, ble |-> set.ble.on] ELSE status
    /\ UiOnly /\ UNCHANGED <<flash, set, pending, seen, queue, awaiting, force, webAsks, desired,
                             history, used>>

Acknowledged ==
    /\ Ticks("flags", "take")
    /\ awaiting' = FALSE /\ force' = TRUE
    /\ pending' = 0
    /\ UiOnly /\ UNCHANGED <<flash, set, seen, status, queue, webAsks, desired, history, used>>
-----------------------------------------------------------------------------
(* The web server, and the mode the network task is in                      *)

Others == UNCHANGED <<cloud, flash, tick, shared, sync, ble, history>>

WebBluetooth(on) ==
    /\ Changes
    /\ webAsks = {} /\ webAsks' = {on}
    /\ Others /\ UNCHANGED <<mode, desired>>

\* requestScan
WebScans ==
    /\ Changes
    /\ host = "synced" /\ desired.mode # "home"
    /\ desired' = [desired EXCEPT !.scan = TRUE]
    /\ Others /\ UNCHANGED <<mode, webAsks>>

ScanTimesOut ==
    /\ desired.scan
    /\ desired' = [desired EXCEPT !.scan = FALSE]
    /\ Others /\ UNCHANGED <<mode, webAsks, used>>

ModeMoves ==
    /\ Changes
    /\ mode' = IF mode = "home" THEN "away" ELSE "home"
    /\ Others /\ UNCHANGED <<webAsks, desired>>
-----------------------------------------------------------------------------
(* The Bluetooth worker (control_task) and the NimBLE host                  *)

BleOnly == UNCHANGED <<cloud, flash, tick, shared, mode, sync, webAsks, history>>

\* One round of the worker's loop, when it has something to do.  What it evaluates
\* here it acts upon later.
Looks ==
    /\ worker.pc = "look" /\ host = "synced"
    /\ flags \ Wanted # {} \/ (Wanted # {} /\ flags = {})
    /\ worker' = [pc |-> IF flags \ Wanted # {} THEN "stop" ELSE "begin", wants |-> Wanted]
    /\ BleOnly /\ UNCHANGED <<desired, host, flags, radio, used>>

Stale == flags \ worker.wants

\* stop_advertising, stop_passive_scan: the radio first, then the flag.
StopsRadio ==
    /\ worker.pc = "stop" /\ Stale \cap radio # {}
    /\ radio' = radio \ Stale
    /\ worker' = [worker EXCEPT !.pc = "stopped"]
    /\ BleOnly /\ UNCHANGED <<desired, host, flags, used>>

Stopped ==
    /\ worker.pc = "stopped"
    /\ flags' = flags \cap worker.wants
    /\ worker' = [worker EXCEPT !.pc = "begin"]
    /\ BleOnly /\ UNCHANGED <<desired, host, radio, used>>

\* The radio does not end the role: it fails, or it has no such role.  The flag
\* stays.
StopRefused ==
    /\ worker.pc = "stop" /\ Stale # {}
    /\ Outcome(Stale \cap radio = {})
    /\ worker' = [worker EXCEPT !.pc = "begin"]
    /\ BleOnly /\ UNCHANGED <<desired, host, flags, radio>>

NothingToStop ==
    /\ worker.pc = "stop" /\ Stale = {}
    /\ worker' = [worker EXCEPT !.pc = "begin"]
    /\ BleOnly /\ UNCHANGED <<desired, host, flags, radio, used>>

\* (_OtherRole: a role that is still on is not asked about.)
MayBegin_OtherRole(role) == role \notin flags
MayBegin(role) == flags = {}

\* begin_advertising, begin_passive_scan; a controller that is not up refuses.
Begins(role, ok) ==
    /\ worker.pc = "begin" /\ role \in worker.wants /\ MayBegin(role)
    /\ ok => host = "synced"
    /\ Outcome(ok \/ host # "synced")
    /\ radio' = IF ok THEN radio \cup {role} ELSE radio
    /\ worker' = IF ok THEN [pc |-> "begun", wants |-> {role}] ELSE [pc |-> "look", wants |-> {}]
    /\ BleOnly /\ UNCHANGED <<desired, host, flags>>

Begun ==
    /\ worker.pc = "begun"
    /\ flags' = flags \cup worker.wants
    /\ worker' = [pc |-> "look", wants |-> {}]
    /\ BleOnly /\ UNCHANGED <<desired, host, radio, used>>

NothingToBegin ==
    /\ worker.pc = "begin" /\ \A role \in worker.wants : ~MayBegin(role)
    /\ worker' = [pc |-> "look", wants |-> {}]
    /\ BleOnly /\ UNCHANGED <<desired, host, flags, radio, used>>

\* initialize_stack succeeds; on_sync
HostStarts ==
    /\ host = "off"
    /\ host' = "reset"
    /\ BleOnly /\ UNCHANGED <<desired, flags, radio, worker, used>>

HostSyncs ==
    /\ host = "reset"
    /\ host' = "synced"
    /\ BleOnly /\ UNCHANGED <<desired, flags, radio, worker, used>>

\* on_reset: the controller has dropped every role.
HostResets ==
    /\ host = "synced"
    /\ Faults
    /\ host' = "reset" /\ flags' = {} /\ radio' = {}
    /\ desired' = [desired EXCEPT !.scan = FALSE]
    /\ BleOnly /\ UNCHANGED worker
-----------------------------------------------------------------------------
\* A reboot: main loads the settings, cloud::start and bluetooth::start take them, the
\* latter with the mode selected, which is not kept here: it may be either.
Reboots ==
    /\ Faults
    /\ set' = flash /\ pending' = 0
    /\ ui' = "take" /\ seen' = [rev |-> flash.rev, mode |-> "home"]
    /\ status' = [rev |-> flash.rev, ble |-> flash.ble.on] /\ mode' = "home"
    /\ queue' = 0 /\ awaiting' = FALSE /\ force' = FALSE
    /\ sync' = Place("idle")
    /\ webAsks' = {}
    /\ desired' \in [on : {flash.ble.on}, mode : Modes, scan : {FALSE}]
    /\ host' = "off" /\ flags' = {} /\ radio' = {}
    /\ worker' = [pc |-> "look", wants |-> {}]
    /\ UNCHANGED <<cloud, flash, history>>

SyncTask ==
    \/ Copies \/ Parses \/ Awaits \/ Queues
    \/ \E due \in BOOLEAN : Exchanges(due)
    \/ \E arrives, answered \in BOOLEAN : Reports(arrives, answered)
    \/ \E due, answered \in BOOLEAN : Polls(due, answered)

UiTask ==
    \/ Enables \/ Directs \/ NotSettled \/ Acknowledges \/ Acknowledged
    \/ \E ok \in BOOLEAN : Takes(ok) \/ Serves(ok) \/ IsSettled(ok)

BleTask ==
    \/ Looks \/ StopsRadio \/ Stopped \/ StopRefused \/ NothingToStop \/ Begun \/ NothingToBegin
    \/ \E role \in Roles, ok \in BOOLEAN : Begins(role, ok)

Web == (\E on \in BOOLEAN : WebBluetooth(on)) \/ WebScans

Next ==
    \/ Edit \/ SyncTask \/ UiTask \/ BleTask \/ Web
    \/ ScanTimesOut \/ ModeMoves
    \/ HostStarts \/ HostSyncs \/ HostResets \/ Reboots

Spec == Init /\ [][Next]_vars

\* The three tasks run, the host starts and synchronizes again, a scan ends, a
\* report falls due again and again, and an exchange takes longer than the UI task
\* needs to empty the queue.
FairSpec ==
    /\ Spec
    /\ WF_vars(SyncTask) /\ WF_vars(UiTask) /\ WF_vars(BleTask)
    /\ WF_vars(HostStarts) /\ WF_vars(HostSyncs) /\ WF_vars(ScanTimesOut)
    /\ SF_vars(Exchanges(TRUE)) /\ SF_vars(\E ok \in BOOLEAN : Serves(ok))
-----------------------------------------------------------------------------
\* Every variable has its type.
TypeOK ==
    /\ latest \in Revisions /\ told \in Revisions
    /\ flash \in Held /\ set \in Held /\ pending \in Revisions
    /\ ui \in {"take", "enable", "direct", "settle", "status", "flags"}
    /\ seen \in [rev : Revisions, mode : Modes]
    /\ status \in [rev : Revisions, ble : BOOLEAN] /\ mode \in Modes
    /\ queue \in Revisions /\ awaiting \in BOOLEAN /\ force \in BOOLEAN
    /\ sync \in [pc : {"idle", "report", "send", "poll", "parse", "await", "queue"},
                 rev : Revisions]
    /\ webAsks \in SUBSET BOOLEAN
    /\ desired \in [on : BOOLEAN, mode : Modes, scan : BOOLEAN]
    /\ host \in {"off", "reset", "synced"}
    /\ flags \subseteq Roles /\ radio \subseteq Roles
    /\ worker \in [pc : {"look", "stop", "stopped", "begin", "begun"}, wants : SUBSET Roles]
    /\ reached \subseteq Revisions /\ overruled \subseteq Revisions
    /\ changes \in 0 .. MaxChanges /\ faults \in 0 .. MaxFaults

\* A revision the cloud is told is applied was found in effect with its own switch, or
\* a local client had replaced that switch since the hub took the revision, and its
\* number is kept: no save that fails and no reboot between the steps makes a revision
\* look applied that was never tried (main.cpp: the old number is saved with the new
\* contents, the acknowledgement follows the save).
ToldIsTrue ==
    /\ told # 0 => told \in reached \cup overruled
    /\ told <= flash.rev

\* The switch kept is never that of a revision older than the number kept with it, and
\* where no local client has set it, it is that revision's, although a save that fails
\* leaves some keys old and some new (main.cpp: a revision becomes pending only when
\* its contents were saved whole; home_hub_settings_store.cpp: save).
NumberFitsContents ==
    /\ flash.ble.from >= flash.rev
    /\ flash.ble.from # 0 /\ ~flash.ble.local => flash.ble.on = Edits[flash.ble.from]

\* The controller never beacons and scans at the same time
\* (home_hub_bluetooth.cpp, control_task: the role to end first, and only then
\* the other one, also when the controller refuses to end it).
OneRole == radio # Roles

\* When edits cease the cloud is told the latest revision, although answers, saves
\* and controller calls failed and the hub rebooted, except where a controller
\* reset has left a flag that no longer says what the radio does
\* (home_hub_cloud.cpp, home_hub_bluetooth.cpp: every step is tried again).
FlagStays == <>[](flags \ radio # {})
RevisionTold == <>[](told = latest) \/ FlagStays
============================================================================
