# Formal models of BluepawsV4

Bluepaws is a cat tracker. Collars (nRF52840 with LoRa and cellular, or a
Walter LTE board) report positions to a hub (ESP32-S3, `hub/platformio`), which
keeps them in a flash journal, shows them on a local web page, relays them to a
Supabase cloud, and carries commands back. The *Home Hub* (ESP32-P4,
`hub/esp-idf-p4`) with its touch screen and its smaller sister
(`hub/esp-idf-s3`) display what the cloud has; a Next.js dashboard does the same
in a browser.

This directory holds TLA+ models of that program, translated from its source,
the TLC configurations that check them, and TLAPS proofs. Line numbers refer to
`src/`; `M` stands for `hub/platformio/src/main.cpp`, `C` for
`collar/src/main.cpp`, `W` for `collar/walter/src/main.cpp`, `P` for
`hub/esp-idf-p4/main/main.cpp`.

## Inventory

| component | state it keeps | operations | what is hard |
|---|---|---|---|
| Hub network task (`M:702-826`, `wifi_failover.h`) | `hubCommProfile`, the failover policy, `modeChangePending`, `networkQueue`, access point, Home-beacon permission | take and apply a mode request, tick the policy, publish connectivity | web server and console ask at once; `millis()` wraps; the link drops between reading and publishing; the access point fails to start |
| Hub BLE task (`M:2687-2725`, `M:2850-2895`) | role, advertising | compute role, apply role, scan | profile and permission are written by another task and read twice; the stack ends advertising on its own |
| Hub command delivery (`M:179-198`, `M:984-1256`, `M:2031-2160`, `M:3203-3392`) | `pendingCmds`, `cmdQueue`, LoRa task's program counter | register, queue, transmit, acknowledge, retry, wait for the collar, expire | four tasks, two mutexes with time-outs, a queue that fills, radio errors, acknowledgements matched by number |
| Hub journal and storage task (`offline_journal.cpp`, `M:1483-1505`) | per-collar circular files, `nextId_`, noted devices, storage queue | number, append, update verdict, collect pending, recover at boot | power loss between numbering and writing; slots reused while the cloud is asked |
| Hub cloud relay (`M:2951-3181`) | cloud queue, request in flight | post live packet, replay a batch, write verdicts | lost answers, batch-level and item-level refusals, polling beside relay |
| Hub settings and presence (`hub_presence_impl.h`), Off-Grid PIN (`offline_access.cpp`) | settings revision; attempts, block time, sessions | poll, apply, report; unlock, authorize | a report must wait for the BLE task; wrapping clock |
| Collar profiles and Lost mode (`C`) | profile, parameters, find beacon, Lost flag and start, state record in RAM and flash | apply profile, run Lost mode, save, boot | two tasks preempt each other inside applying and saving; resets |
| Collar cycle (`C`) | phase, packet buffer, receipt window, failure count, cellular request | scan, fix, report, listen, retry, answer commands, ask for LTE | late receipts, commands inside the window, the modem's task, checkpoints of the number |
| Walter collar (`W`) | requests of the console, radios, block of packet numbers, profile | session, cycle, fix, upload, apply and acknowledge commands, diagnostics | every modem call may fail or be cancelled; NVS writes fail; a command comes again |
| Home Hub network task (`home_hub_cloud.cpp`) | event bits, saved settings, reconnect timer, driver | reconfigure, scan, rejoin, start the hotspot, serve | event handler, timer, UI task and network task on two cores |
| Home Hub remote control (`home_hub_cloud.cpp`, `P`, `home_hub_bluetooth.cpp`) | settings revision in cloud, queue, RAM, flash; Bluetooth roles | poll, apply, save, carry out, report | three tasks and a Bluetooth host; lost answers, failed saves, resets |
| Home Hub and S3 settings (`P:3644-4325`, `esp-idf-s3/main/main.cpp`, settings store) | settings in RAM and NVS, editor, picked network waiting for a password | pick, edit, cancel, verify, scan a code, change mode | half-made changes, saves that fail in the middle, resets |
| Home Hub screen (`P`) | page, orientation, drawer, tray, popups, dialogs, backlight | taps, timers, fades, inactivity, rebuilds | several timers and animations over one screen |
| Map of both ESP-IDF hubs (`map_engine.cpp`, `P:471-602`, S3) | viewport, tile slots, pixel buffers, images | refresh, decode, pan, zoom, pinch, follow, rebuild | slots and buffers are reused while shown |
| Home Hub camera (`home_hub_camera.cpp`) | two tasks and the flags between them | start, stop, change profile, decode, announce | tasks end at their own pace; flags are cleared and set from three places |
| Cloud command queue, ingestion (`supabase/`) | command rows; packets by identity | queue, claim, acknowledge, expire; accept, duplicate, conflict | environment of the models above |
| Shared protocol, web dashboard, tools, boards | none, or user interface | encode; display | not modelled |

How they interact. Inside the hub, web server, serial console and cloud task
call `requestHubMode` (a queue of one to the network task) and
`sendCommandFind` (table under `pendingMutex`, then `cmdQueue` to the LoRa
task). The LoRa task numbers each packet and queues it for the storage task,
which queues it for the cloud task. The network task tells the others through
shared variables. On the collar, `cycleTask`, the Arduino loop and the modem's
task share the profile, the packet buffer and the state record; what they get
from the hub are receipts and commands. In the Home Hub the UI task owns the
settings; the network task gets them through `applyNetworkSettings` and an
event bit, hands revisions back through a queue of one, and the Bluetooth task
follows what the UI task desires.

What makes each component correct: Off-Grid is a latch only a confirmed request
opens; the Home beacon is on the air only at home (a collar that hears it stops
reporting); one mode request at a time; a command that is over stays over, a
stale profile selection is never transmitted after a newer one, every command
ends; a local id, where a packet gets one, names one packet, what flash says of it
is what the cloud said, and a durable packet is resolved in the end; Lost mode ends,
profile, parameters and beacon agree, and flash holds what the last save left; the
report that is sent again is the report; a packet number is used once; an
acknowledged command is in force; no request to the Home Hub's network task is lost
and it gets linked again; the cloud is told a revision only when it was in force or a
local client has overruled it, and in the end; a password stays with its network, and
flash holds what RAM holds; the screen shows what it says. Several of these hold only
with exceptions the code makes; each property names its own, and Findings says what
they mean. `PROJECT.json` lists the hazards behind them, each at its line, also
those no property covers.

## Modules

| module | what it is |
|---|---|
| `WifiFailover` | the pure policy of `wifi_failover.h`: `Begin`, `OffGrid`, `Tick` return the policy and the radio operation to perform. Differences of clock readings are taken modulo `ClockMod` as `uint32_t` does |
| `HubNetwork` | `networkTask` as six program points, `requestHubMode` and its callers' check as three steps, the Wi-Fi driver and the clock |
| `OffGridLatch` | abstract specification: searching, online, Off-Grid; Off-Grid is left only by a consent, one consent serves one change |
| `HubBeacon` | `bleTask` beside `HubNetwork`: computing a role and applying it are two steps that read the shared variables separately |
| `HubNetwork_proofs` | the tasks behind the radio: inductive invariants of `HubNetwork`, `HubBeacon` and `P4Network`, twelve theorems, among them that `HubNetwork` implements `OffGridLatch` and keeps what is proved of it with the BLE task beside it |
| `HubCommands`, `HubCommands_proofs` | the command table, the queue, callers and the LoRa task; a step is what one task does between two points where another can act. Eight theorems |
| `JournalRelay`, `JournalRelay_proofs` | numbering, storage task, flash journal, cloud task with live path and replay, power loss and `begin()`. Three theorems |
| `CollarModes`, `CollarModes_proofs` | two tasks of the nRF52840 collar apply profiles; Lost mode, its timer, the state record and resets. Four theorems |
| `CollarReports`, `CollarReports_proofs` | a cycle of that collar with its receipt window, retry, commands, failure count and the modem's task. Three theorems |
| `WalterCollar`, `WalterCollar_proofs` | worker and console of the Walter collar, radios, packet numbers, commands of the cloud. Four theorems |
| `P4Network` | the Home Hub's network task, event handler, reconnect timer and UI task |
| `P4Control`, `P4Control_proofs` | a settings revision from the cloud to the Bluetooth controller and back. Four theorems |
| `HubSettings` | settings of both ESP-IDF hubs in RAM and flash, with the screens that edit them |
| `HubMap` | viewport, tile slots and gestures of both ESP-IDF hubs |
| `P4Screen` | pages, drawer, tray, popups, dialogs, backlight and screen saver of the Home Hub |
| `P4Camera` | camera task, decoder task and camera page of the Home Hub |
| `HubScreens_proofs` | `HubMap`, `HubSettings`, `P4Screen` and `P4Camera`, which share no state: an inductive invariant for each, ten theorems |
| `MC...` | model values, small definitions and symmetry for TLC. `MCHubScreens` puts the four user-interface modules side by side, `MCHubTasks` the network task and the command delivery of the hub |

A definition whose name ends in `_Something` (for instance `Located_BySlot`)
is a variant of the definition beside it with a plausible bug: the property it
is listed with in `PROJECT.json` fails when it is used instead. No variant is
part of a specification.

### HubNetwork and the code

`net` is `networkTask`'s position in one iteration of its loop. `NetSample` is
line 770 (`now = millis()`), `NetReceive` 771, `NetApply` 773-783 with
`MayApply` the check of 774, `NetTick` 784 and `NetPublish` 787-825. `Perform`
is the lambda of 732-765 together with `setHubCommunicationsProfile` (537-546)
and `applyWifiRoleForCurrentProfile` (548-575); the profile it selects is
written in the same step. `RequestCheck` is the check of the web handler
(2757-2785), `RequestFlag` line 703 and `RequestSend` 704-710, so two
requesters interleave between them. `LinkUp` and `LinkDown` are the driver: it
associates only while the policy has asked it to, loses the link at any moment,
and reports a disconnect late or at once. `OffGridLatch` is implemented under
the refinement `LatchMode`, `Consented`.

Left out: the scan for known networks and mDNS (they only feed the status
page), and the split between the two writes of the profile inside one `NetApply`.

### HubBeacon and the code

`BleCompute` is the top of the loop with the comparison, `BleApply` is
`applyBleRoleForCurrentProfile`. `BleCentralConnects` is the BLE stack: the
GATT server `initBLE` creates accepts connections, and a connection ends the
advertising. `previousRole` is what `bleTask` compares with: the role it computed
before the last application, which need not be the one that was applied. A loop of
`bleTask` takes 0.1 s, or 2 s when it scans, so it loops at least once between two
ticks (`bleLooped`). Scanning and power are left out.

### HubCommands and the code

A row is `pending_cmd_t`; `active` and `state` are assigned together in the
code and are one field here. `createdAtMs` is an age, `sentAtMs` the ticks since
the transmission (`NotSent` for 0). `Register` is one stretch under
`pendingMutex` (3244-3299): look for the identity, supersede, choose a slot,
fill it. `Enqueue`, `EnqueueTimesOut` and `MarkFailed` are what follows.
`HearAck` is `handleAck`, `RxOpportunity` is `queuePendingCommandForDevice`,
`Take` to `NoteSent` are loraTask's transmit branch, `BeginCheck` to `CheckSlot`
are `checkPendingAcks` with the mutex held from slot to slot (`checking`).
The cloud is the environment: it issues a command, ages it, and returns it with
any uplink until its deadline. Time is counted in ticks; a row's age stops at
`FeedbackTTL`.

### JournalRelay and the code

`HearPacket` is `handlePacket`'s numbering and queueing, `NextLocalId` with the
answer 0 of a mutex that is not free (`MutexHeld`); `StorageTake`,
`StorageAppend`, `StorageFails`, `StorageRelay` are `storageTask` with
`append`. `LiveTake` to `PostFails` are `cloudTask`'s live path, `ReplayBegin`
and `ReplayAnswered` are `replayPendingJournal` with the batch endpoint
(`ingest-position-batch/index.ts`; `Refused` are the records for which it refuses the
whole batch), `Mark` and `MarkFails` are
`applyJournalVerification` and `updateSyncState`, one record at a time.
`PowerLoss` loses everything in RAM and runs `begin()`: `IdAfterBoot` is the
counter it recovers, `NotedAtBoot` the devices it finds. LittleFS makes a write
whole or not at all, so no record is torn. `collectPending` is one step although
it takes the journal's mutex file by file: what it misses is collected the next
time, and a record it collects may be overwritten after it in the model as well.
`answered` and `written` are history variables. The web page's table of
devices, and the LoRa receipt, are not modelled.

Faults: `"number"` (`nextLocalId()` waits 100 ms for the mutex, which `append` and
`updateSyncState` may hold for longer, and the packet goes on with the id 0, in slot 0
of its collar's file), `"append"` (journal mutex not got, or write failed), `"update"` (the
same for a verdict), `"auth"` (the cloud refuses this hub: `cloudTask` takes any
4xx but 408 and 429 as final, so a good live packet may be marked rejected).
A packet's kind is what the cloud makes of it: `"good"`, `"refused"` for itself, or
`"malformed"`, which it cannot decode.

### CollarModes and the code

`cycleTask` has the highest priority of the collar's tasks and gives way only where it
blocks, so its `applyProfile` is one step up to the flash operations of `collarStateSave`;
the Arduino loop is preempted anywhere, so each assignment of its `applyProfile` and each
field of its save is a step (`at`). `Boot` is `setup` with `collarStateLoad`,
`LostTimeout` and `LostLoop` are `runLostMode`, `Write` and the steps before it
`collarStateSave`. A save may fail wherever the code can: the file is not removed, the
open fails or the write stops short (`Remove`, `Write`), or the file system was not there
at boot (`collarStateReady`), when nothing is saved until the next reset. Histories:
`lostFor`, the time really spent in Lost mode; `raced`, whether both tasks were ever
inside an application at once, where the code promises nothing and profile and parameters
may indeed disagree; `saved`, what the last save left, the whole record, no file, or the
earlier one. PowerSave and Debug differ from Normal in periods only and are one profile.

### CollarReports and the code

`phase` is `cycleTask` in one cycle: scan for the home beacon, fix, build and
send the report, `listenForCommands`, the two flash operations of a save (`Removes`,
`Writes`, after which `resume` says where the task goes on), the answer to a command,
and what follows the window. Either operation may fail and the task goes on all the
same. `Missed` is `noteUplinkAckResult` for a window without
receipt, `Escalates` its comparison with the profile's threshold, `AfterAnswer`
what the answer to a command leaves in the packet buffer, and the modem's task
is three states. The hub is the environment: it has or has not received a
packet, and its receipts and commands arrive late, in any order or never. A boot that
does not get its file system is in `CollarModes` only.

### WalterCollar and the code

`pc` is where `worker()` is, `job` the request it serves. `Requests`, `Stop` and
`Configures` are the console's `command()`. `Cycle` to `Close` are `cycle()` with
`settleGnss`, `nextSequence`, `noteLoRaFailure`, `testLteOnly`, the upload and the
listen window; `Assist`, `Register` and `Cleanup` the diagnostics (`registerOnly`
before the library is started, `refreshGnssAssistance`). A radio that could not
be confirmed off is taken as seen to when the next request is typed, as the
console's message demands. Packet numbers are kept relative to the lowest number
never used, so that the state space is finite although numbers only grow. The
cloud's queue is modelled from `claim` and `acknowledge` in `supabase/`.

### P4Network and the code

`pc` is where `sync_task` is, in steps between accesses to what it shares: the
bits of `g_wifi`, `g_station_allowed`, the driver. `Hears` and
`HandlerEnds` are the event handler, which updates its two bits in two steps
(`handling`), `TimerFires` and `TimerConnects` the reconnect timer with the test
it makes before it acts, `UiSignals` the second half of a request of the UI task. `Serves`
stands for everything the task does with the cloud while it is linked, which is
`P4Control`'s subject. Driver calls fail in `MaxFailures` places.

### P4Control and the code

`latest` is a revision made in the cloud. `sync` polls, parses and queues it
(`home_hub_cloud.cpp:620-946`), `ui` is the tick of the UI task that saves and
applies it (`P:750-830`), `worker` is `control_task`, which ends a role before it
begins the other, and the report carries it back once `status` says it is in
effect. Of the contents only the Bluetooth switch is kept, with the revision it comes
from and whether a local web client has replaced it since (`Switch`), where the code
keeps only the value and, beside it, a number. A failed save leaves each of the two
keys old or new (`Saves`, for `settings_store::save`, which goes on after a key it
cannot write). `IsSettled` compares the radio with the switch in force, as the code
does, whoever set it. Histories: `reached`, the revisions that were found settled with
their own switch in effect; `overruled`, those whose switch a local client replaced
while they were pending.

### HubSettings and the code

Of the settings two networks and the mode are kept; a password is the name of
the network it was typed for, so a password under another name can be seen. The
Home Hub edits `ui.settings` in place: a picked network enters them without its
password (`PickerAsks`), `settings_keyboard_event` commits or takes it back
(`EditorReady`, `EditorCancelled`), the tray may rebuild the page without either
(`ModalTornDown`). The S3 hub edits a copy and commits it (`Commits`), and saves
the old settings over it when it cannot. A failed save writes any subset of the
keys (`Written`). Histories: `overtaken`, a half-made change was saved by
another setting or its editor torn down; `torn`, a reset loaded a half-written
network.

### HubMap and the code

`RefreshP4` is `refresh_map_tiles`: it moves entries and buffers to the slots
where they are needed (`SourceIndices`, `Reordered`), decodes the rest, and shows,
hides or leaves alone each image. `RefreshS3` requests what changed and
`LoadNextTile` decodes one tile per timer tick. The gestures are those of
`map_pressed`, `map_pressing` and `map_released`. One dimension stands for two.

### P4Screen and the code

One action per control, popup timer, fade, tray event and tick of `update_ui`.
`Reached` says what a finger can reach: the page's controls under no dialog, and
the tray's buttons until its closing animation has ended. `UpdateUi` is the part
of `update_ui` about inactivity, with the mode the web page asked for
(`WebRequests` is `hub_mode_handler`, which holds one request at a time). A
rebuild is part of the step that asks for it: LVGL runs it before the next
touch.

### P4Camera and the code

`capture` and `decoder` are the two tasks, by program point between accesses to
shared flags; `ui` tells whether the page is inside `start()` or `setMode()`.
There is room for two tasks of each kind, so that one may outlive its successor's
start. `missed` is history: a result came while the profile was switched, the page
that showed it was rebuilt, or the text found earlier could not be cleared because
`g_lock` was not got in 100 ms (`Clears`).

## Runs

| run | question | instance | why it is enough |
|---|---|---|---|
| `hub_tasks` | is Off-Grid a latch, has the flag one owner, is the beacon allowed only at home; has a collar one active profile command, was what is acknowledged sent unless two numbers meet, does what is over stay over | two requesters, two networks, budget 2, clock wraps at 3; two collars, two kinds of command, equal numbers of hub and cloud, queue of one, every fault, transmissions less than a tick apart | two requesters race for the flag, the queue of one and the check, and the wrap falls inside a search; the command queue fills, mutexes time out, acknowledgements of the other collar, and of the other command with the same number, arrive |
| `beacon` | is a roaming hub silent in the end, does a search end, does an Off-Grid hub get its access point | no requester, two networks, budget 3 | failover alone changes the profile among all three values |
| `commands` | is a pending command on its way, are deadlines kept, is a newer profile command never overtaken, does every command end | one collar, a local and a cloud command, two rows, queue of two, no faults | both callers, superseding, retry, waiting and expiry occur |
| `journal` | do ids and verdicts stay right, does the journal drain | one collar, file of two slots, three packets, good or malformed, one power loss, all faults | the file wraps, so verdicts meet reused slots; packets without an id lie among the numbered ones; the crash falls at every point |
| `collar_modes` | does Lost mode keep its two hours, do profile and beacon agree, does flash hold what the last save left | one tick of Lost mode, one reset, one failure of the file system | applications of both tasks overlap at every point, before and after the reset; any one flash operation fails, or the boot |
| `collar_reports` | is the report what is sent again, is LTE asked for in bounded groups, is it attempted | three packets, one command, one reset, one failure, a checkpoint every second number | a late receipt, a command in the window and a reset meet in one window |
| `walter` | numbers once, one radio, acknowledged means in force, Lost mode ends | two cloud commands, one console request, one reset, blocks of two | a block ends, is reserved with a failure, and is lost by a reset |
| `p4_network` | is no request lost, does the link return | one change of settings, one scan, one move of a network, one failed call, event queue of one | each of the four meets every point of the task |
| `p4_control` | is what the cloud is told true, and told in the end; do roles exclude each other | two revisions, one local change, two faults, three of these together | a newer revision overtakes one half applied, or a local request replaces its switch, with saves failing or a reset in between |
| `screens` | tiles, settings, overlays, camera | a world of three rows, two zooms; one network name; one card; two tasks of each kind, two codes | see below |
| `journal_history` | ends in a violation, see Findings | two collars, file of two slots | |
| `beacon_requested` | ends in a violation, see Findings | as `beacon`, with one requester and one network | |

`screens` runs four modules that share no state, one in each behaviour (`scene`); their
product is left out, as no step of one reads the other. `hub_tasks` does the same with two
(`part`), counts collars and requesters up to symmetry, and tells states apart by the
variables of the part that moves (`TasksView`), less two the network task only writes,
which no step and no property of that run reads. Refused commands and failed transmissions
happen in `hub_tasks` only, as `commands` has neither faults nor more commands than rows.
In `screens`, the map has one tile without a file and one that decodes at times, four
slots for a view and its margin. With one network name every way a password can come to
belong to the wrong network still occurs, because the empty name counts as one; an
instance with two names (2 042 208 states of `HubSettings` alone) was checked once,
without an error.

### Bounds

Every bound is a CONSTANT named in its module: `RecoveryTicks`, `ClockMod` (HubNetwork),
`MaxLocal`, `NumSlots`, `QueueLen`, the times and `MaxRetries` (HubCommands),
`MaxPackets`, `MaxCrashes` and the sizes (JournalRelay), `MaxReboots`, `MaxFailures`,
`MaxSeq`, `MaxCommands`, `MaxPolls`, `MaxChanges` (collars), `MaxApplies`, `MaxScans`,
`MaxMoves`, `MaxFailures`, `MaxQueue` (P4Network), `MaxChanges`, `MaxFaults`, `MaxEvents`
(P4Control), `Workers` (P4Camera). Four bounds are in a definition: `Fails` of
`CollarModes` looks at no failure once the two tasks have overlapped (nothing is said of
flash from then on), `Fails` of `CollarReports` at none after the last reset, the only
reader of the file; `MaxLag` and `ReplyTicks` of `HubNetwork` are one tick (an iteration
takes 10 ms and a tick stands for 0.5 s or more), and `Outcome` of `HubSettings` lets no
save fail after one that failed until one succeeds or the hub is reset.

### Fairness

- `HubNetwork`, `HubBeacon`: FreeRTOS schedules the network task and the BLE
  task and time passes (weak). An access point that is retried every five
  seconds starts in the end (strong, `NetPublish /\ hubApEnabled'`).
- `HubCommands`: the LoRa task and a caller inside `sendCommandFind` are
  scheduled (weak), and time passes. `CommandsTick` waits for points of the LoRa loop that
  are reached again and again, hence strong fairness.
- `JournalRelay`: both tasks, and strong fairness per record on an answer to a
  replay and on a successful write of a verdict: a fault may repeat but not for
  ever. `PendingResolved` also assumes the uplink stays up, and that no record is to be
  replayed for which the cloud refuses the whole batch (`Blocked`, see Findings).
- `CollarModes`: both tasks run; time passes and a window ends at its deadline
  however often something else happens (strong). `CollarReports`: `cycleTask` and
  the modem's task. `WalterCollar`: the worker alone.
- `P4Network`: event handler, timer and the driver's drops (weak); `sync_task`
  when it waits for room in the queue, and an association that keeps being tried
  on a network in range (strong).
- `P4Control`: the three tasks, the host's start and synchronisation (weak); a
  report falls due again and again and an exchange works once in a while
  (strong), as every step is tried again.

Users, collars, hubs and networks out of range owe nothing anywhere.

## Findings

Two runs end in a violation. `journal_history`: `offline_journal.h:7` says
a noisy collar cannot evict another collar's history. The slot is the local id
modulo 100 and ids are shared by all collars, so foreign traffic decides where a
collar's packets meet.

`beacon_requested`: `docs/firmware/home-hub/HOME_HUB_RUNTIME_DECISIONS.md:46` says
`bleTask` advertises the Home beacon in Home mode or scans in Portable and Off-Grid
modes. `bleTask` computes a role, `applyBleRoleForCurrentProfile` (`M:2687`) reads
profile and permission again and applies what it finds, and `previousRole` (`M:2854-2868`)
keeps the role that was computed. A portable hub computes the scanning role; before it is
applied the hub connects to its primary network, so the beacon is started; before the next
loop it goes Off-Grid on request, where the role computed is the scanning one again, equal
to `previousRole`. Nothing is applied, and the beacon stays on the air until the role
changes. It takes a request: a hub nobody asks for another mode, once it has come home,
stays there until half of a recovery budget is spent, so `bleTask` loops in between
(theorem `ScannersAreSilent`). With requests, silence in the end (`RoamingSilent`) fails
for the same reason, which is why `beacon` has no requester.

Met while modelling, without a run of their own:

- `M:772` says an HTTP reply leaves before the radio changes. A request made
  between the clock sample (770) and the queue read (771) is younger than the
  sample, its unsigned age wraps and it is applied at once.
- `M:2846` says Home advertising is restarted periodically. The role is applied
  only when it changes, so an advertising a central ended stays off.
- `M:1024` says a command that is over is never transmitted, but the mutex is
  released before `loraMutex` is awaited, so it can be (it does not come back to
  life: `NoResurrection`).
- `docs/protocol/COLLAR_DOWNLINK_COMMANDS.md:156` says a newer profile command
  cancels older ones so that a stale selection cannot be applied later. That holds
  (`NoStaleProfile`) while the superseded command keeps its row. A command of the
  cloud that has lost its row to another is no longer recognised (`M:3248`): the next
  time the cloud returns it, it is registered anew and supersedes the newer selection.
  It takes more than `MAX_PENDING_CMDS` (16) commands within the deadline; the run
  has a row for every command, and an instance with a command more than rows
  violates the property.
- Hub and cloud number their commands independently, both from 1 (`M:3213`,
  `supabase/migrations/20260824181500_add_device_command_queue.sql:139-165`), and
  `handleAck` (`M:1081`) compares collar and number only: where the numbers meet, the
  acknowledgement of one command ends the other, which may never have been on the air.
  `AckMeansSent` says that this is the only way to that.
- `M:1216` takes a row without a transmission for one that is still queued. After
  a failed transmission it is in no queue and waits for the collar's next uplink
  or its expiry. An LED find is of type `PKT_CMD_MODE` (`M:3386`), so it
  supersedes a pending profile selection (`M:3259`).
- `offline_journal.cpp:87`: `nextLocalId()` answers 0 when another task has the
  journal's mutex for more than 100 ms, as `updateSyncState` may with up to 100 file
  opens, and `M:1316` uses the answer unchecked. Such packets of a collar share the id 0
  and the slot 0 of its file: one replaces another, or a packet whose id is a multiple
  of 100, and a verdict asked for one is written to the next. `IdNamesOnePacket` and
  `VerdictIsTheClouds` hold for packets with an id, also beside such packets.
- One record the batch endpoint cannot decode, or one with the id 0
  (`ingest-position-batch/index.ts:78-81`), makes the whole batch a 400, which the hub
  retries with the same oldest records (`M:3103`): once such a record is among them
  nothing drains. `PendingResolved` excepts a journal that holds one (`Blocked`).
- A reboot in Lost mode restarts its two hours (`C:455`); a profile command
  accepted in the last window of Lost mode is overridden by the fallback (`C:671`).
- `C:960-986`: what `InternalFS.remove` returns is not looked at, and a save that fails
  after it is not tried again. A failed open or a short write leaves no file, so a reset
  restores the defaults, Lost mode included; a file that could not be removed, or a file
  system that was not there at an earlier boot, may bring back a profile the collar had
  left. `FlashCurrent` says which of these a save has left.
- `P:795-818`: a local client's Bluetooth request that is taken in the same tick, or
  while a revision is pending, replaces the revision's switch; `settled` then compares
  the radio with the client's switch, and the revision is reported as applied, although
  the radio may never have been in the state it asked for (the comment at `P:765-767`
  says that is what the number waits for). `ToldIsTrue` says that only a revision so
  overruled is reported without having been in effect.
- `home_hub_settings_store.cpp:97-120`: a save that fails at one key goes on with the
  next. The number of a revision may so be in flash beside a switch that a local client
  has set and was told could not be saved, or the other way round; what is kept with the
  number is the revision's own switch, a later revision's or a local client's
  (`NumberFitsContents`), as a revision becomes pending only when its contents were
  saved whole.
- `home_hub_cloud.cpp:922`: the reconnect timer tests `g_station_allowed` and then
  connects, so a hub configured Off-Grid in between makes one more attempt.
- `P:4195`: a picked network waits in `ui.settings` for its password. If the tray
  rebuilds the page meanwhile, `settings_wifi_pending_password` stays set: the
  network is kept without a password, a later save makes it permanent, and the
  Cancel of any later editor writes the remembered network back, into the
  secondary network if that editor was for anything but the primary password.
  A save by another setting while the password editor is open makes the
  half-made change permanent as well, and the Cancel then leaves RAM and flash
  apart (`overtaken`).
- `home_hub_settings_store.cpp:91`: keys are written one by one, so a failed save
  followed by a reset can pair a new name with an old password (`torn`).
- The S3 hub keeps the old password when the name is typed over, and offers it
  for a scanned network; `PairIntact` is about the Home Hub for that reason. A mode set from the
  S3's web page stays in RAM when it could not be saved.
- Camera: QR, photo and QR again while a decode is under way leaves the
  recognition deaf until the profile changes once more, and where the text of an
  earlier code could not be cleared in 100 ms (`home_hub_camera.cpp:571`, `:618`) the
  same code read again is no news (both `missed`); a change of
  theme on the camera page hides a code that was found; a preview whose decoder
  cannot be allocated shows no sign of it.
- Map: images hidden while the view was smaller stay hidden in the two
  northernmost rows of the world (`Northernmost`), and a tile whose decoding failed
  is not tried again before the view changes.
- Pages for launcher, summary, overview and diagnostics exist in `P` but no
  control opens them.

## Proofs

`HubNetwork_proofs` proves, for any set of requesters, any choice of configured
networks, any budget and any clock wider than the budget (`FailoverAssumption`,
`NetworkAssumption`), `TypeOK`, `LatchAgrees`, `BeaconMeansHome`,
`RecoveryBounded`, `FlagHasOneOwner`, `OffGridLatched`, `OneDeadline` and
`LatchSpec`; of these the runs check `BeaconMeansHome`, `FlagHasOneOwner` and
`LatchSpec`. `IInv` adds two facts to the invariants: `Configured` (a hub that
searches or is online has a network configured; without it a lost link could
lead from online straight to Off-Grid, which the latch does not do) and
`OneOwner`, which says with sets who holds the flag, where `FlagHasOneOwner`
counts. The lemmas about `Begin`, `OffGrid` and `Tick` say which pairs of phase
and radio operation they return (`Starts`, `Ticks`); `Performed` says what a
radio operation does to profile and beacon. All other steps are `Quiet`: they
leave profile and phase alone. For the refinement, a step that applies a request
is the latch's `Spend`: by `OneOwner` nobody else holds a request, so no consent
is left after it; `NetReceive` moves consent from the queue to the network task
and is a stutter.

With the BLE task beside it the network task still takes the same steps
(`BeaconKeepsNetwork`: `BeaconSpec => Spec`), so all of this holds of `HubBeacon` too,
and `BeaconTypes` adds its own variables. `ScannersAreSilent` proves `ScannerSilent`
for a hub that nobody asks for another mode (`Requesters = {}`) and a budget of more
than two ticks (`RecoveryTicks > 2`; the code has 30 s, and a tick covers a loop of
`bleTask`, at most 2 s). Both hypotheses are needed: `beacon_requested` shows it for the
first, and with two ticks half a budget is over after one. `ScanInv` says that a
scanning role computed before the hub came home is overtaken only while it has just come
home (`JustHome`, at most one tick old), and that a hub that is not at home and has
nothing to apply is not on the air.

Of `P4Network` the same module proves `WifiTypeOK` and `NoLostRequest`, for any number of
changes, scans and failed calls and any queue of events (`P4NetworkAssumption`). The
inductive invariant is `Remembered /\ Awaited`: `NoLostRequest` is about the moments at
which the task waits, and follows from what holds at all others, that a setting not yet
read is announced by a bit, by a caller that is about to set it, or is about to be read.

`HubCommands_proofs` proves, for any number of collars, rows and callers, any
times and any set of faults, `CommandsTypeOK`, `OneProfilePerCollar`,
`CloudDeadlineKept`, `NoResurrection` and `AckedIdOnAir` (a transmitted command had the
identity of every acknowledged one), from `CommandsAssumption` alone. The inductive invariant
`IInv` adds `Filled` to the first two: a row in use, a copy held by the LoRa
task and a caller that is sending all have a command. `CommandsTypeOK` is not inductive
without it (an acknowledgement or a retry would put `None` into the queue).
Every step but `Register` is shown to leave every row *settled* (`Settled`): it
keeps its command, and its outcome if the command is over. Only `Register`
gives a row away, and it supersedes whatever active profile command its collar
has in the same stretch under the mutex. `OneProfilePerCollar` and
`NoResurrection` follow from that for all actions at once. A settled row does not get
younger either, which is what `CloudDeadlineKept` needs: `DeadlineInv` says it of
every used row, also of those that are over, and that the cloud's commands have the
numbers they are filed under.

`AckedWasSent` (`AckMeansSent`) needs no more: an acknowledged command was itself on the
air, or another with its collar and number was, one of the two the hub's and one the
cloud's. The proof follows the identity from the transmission (`AckedIdOnAir`) and, with
`Numbered`, from an identity to one command of each side. `LocalSelectionsInOrder`
(`SelectionsInOrder`) says of the selections web page and console sent to a collar, with
numbers the cloud has not used there, that an older one is not transmitted once a newer
one has been on the air, for any number of rows and any fault: `Ordered` says that of
those selections only the last can be active, and that one on its way to the radio has
not been overtaken on the air. It says nothing of the cloud's selections, whose numbers
come again with every uplink; for them `NoStaleProfile` is checked in `commands`, and
fails when a row is given away (Findings).

`NothingStranded` (`NotStranded`) is about a hub without faults whose uplinks find room
in the queue (`UplinkFindsRoom`, a condition on behaviours): an uplink that finds it full
starts the command afresh without queueing it (`M:1188`), so it waits for the next one.
`WayInv` adds to `NotStranded` when the LoRa task's hands are empty.
`MCHubCommands.cfg` meets both conditions.

`JournalRelay_proofs` proves, for any number of collars, slots, packets and power losses
and any set of faults, `TypeOK`, `IdNamesOnePacket` and `VerdictIsTheClouds`, from
`JournalAssumption` alone; both speak of ids other than 0, and hold with any number of
packets that have none. `IInv` needs `Numbered` (every id held in RAM or flash is below
`nextId`, which never outruns the packets heard): the counter recovered at boot is only
compared with flash, and that is enough because RAM is empty at that moment. `Unjudged`
says that records on their way to flash have no verdict yet, `AnswersGiven` that a verdict
still to be written was the cloud's answer. All steps but `HearPacket` only copy records
that exist (`OnlyCopies`), and `HearPacket` gives an id above all others or 0, which gives
`IdNamesOnePacket`; with it, the id that `locate()` compares is enough for the verdict to
reach the right packet.

`CollarModes_proofs` proves, for any length of Lost mode and any number of resets and
failures of the file system
(`CollarModesAssumption`), `TypeOK`, `LostBounded`, `ModesAgree` and `FlashCurrent`.
`TimerCovers` relates the history `lostFor` to the timer: what has been spent in Lost
mode is at most what the timer shows, or the timer is up. The other two follow from
`InTurn`: as long as the tasks have not overlapped, one of them is quiet, and the
program point of the other says how much of a profile is already written (`Stages`)
and which of RAM and flash holds the whole record, whatever failed (`Record`).

`CollarReports_proofs` proves, for any profiles, thresholds, packets, commands, resets
and failed saves (`CollarReportsAssumption`), `TypeOK`, `WindowKeepsReport` and
`FallbackPaced`. `Awaited` says that a window waits for the number of the report in
the buffer; `TypeOK` is not inductive without it, as a retry must have a number.
`Counted` says that no count of failures, in RAM or in flash, exceeds the windows
that went unanswered, and `Going` that a save knows where the task goes on.

`WalterCollar_proofs` proves, for any profiles, block of numbers, commands, changes
and resets (`WalterAssumption`), `TypeOK`, `NumberOnce`, `AckedInForce` and
`OneRadio`. `NumbersInOrder` orders the numbers used, reserved and stored.
`AckInForce` says what a collar about to acknowledge has applied. For the radios,
`OneRequest` says that the console is refused while a request is served, and
`RadioInv` where in a cycle each radio may still be on: only after a reset, or when
the console has stopped the worker.

`P4Control_proofs` proves, for any history of revisions, changes and faults
(`P4ControlAssumption`), `TypeOK`, `ToldIsTrue`, `NumberFitsContents` and `OneRole`.
`NumbersInv` orders the revision numbers held in eight places between the cloud and
flash (`Ordered`, `Coming`, `Copied`): after a save that failed flash may be ahead of
RAM, and what is on its way is never older than what was in effect. `Fits` compares
each switch, in RAM and in flash, with both numbers, since a save that fails key by key
may put the number of one beside the switch of the other; `Owns` says whose switch it
is. `Proven` says of every number kept, reported or told that its revision was in effect
or overruled. `RolesInv` says how radio, flags and the
worker's copy follow one another.

`HubScreens_proofs` proves, for any cats, workers and codes
(`P4CameraAssumption`), `CameraTypeOK`, `OneWorker`, `CodeAnnounced` and `OneOverlay`,
and for any names and modes (`HubSettingsAssumption`) `PairIntact` and `Durable`;
`ScreenTypeCorrect` and `SettingsTypeCorrect` are the types of those two.
`OpensAlone` reserves the decoder for the task that is about to create it. `FoundHasText`
and `TextIsTold` follow a code from the decoder to the page. `OverlayInv` adds to
`OneOverlay` that what is shown has a timer or a fade that takes it away. For the
settings, `Offered` says that what a picked network replaced is as intact as what is
in the settings, since Cancel writes it back, and `Waiting` what flash holds while a
picked network waits for its password.

For the map, it proves `ShownIsRight` for every layer, world, size of the view, number of
slots and set of files (`HubMapAssumption`). `SourcesDiffer` is the lemma about the
algorithm: the order `refresh_map_tiles` chooses is a permutation of the slots, whatever
they hold, because what is left over is handed out by rank and ranks tell elements apart
(`Ranks`). `MapInv` then says that no two slots share a buffer, that a valid slot's tile
is in its buffer, that a shown image lies where its slot's tile belongs unless the view
waits for a refresh, and that on the S3 a slot that waits is hidden and waits for the tile
of the view as it is now, which `load_next_tile` relies on.

`NothingBlank` proves `VisibleShown` under one more assumption, `MapSlotsAssumption`:
the Home Hub has an image for every tile of a view with its margin. The code justifies
it: `kMaximumVisibleTiles` is 36 (`map_engine.h:14`), and views of 784 x 406 and
464 x 726 need 35 and 30 tiles; `MCHubScreens` meets it with no image to spare. On the
Home Hub a refresh shows and hides images only when the tiles in the slots change, so
what is shown depends on earlier refreshes. `NoBlanks` needs no history for it:
`ShownBlock` says that whatever grid the slots hold, the images of the tiles in it as
far as a view reaches are not hidden, whatever view comes to use them, and `Current` that
the tiles in view are the ones one place further in the grid. On the S3, `AskedOrShown`
says that a tile of the view is in its slot or still to be decoded. `VisibleShown` says
nothing of the two northernmost rows, where it fails (Findings).

Only model-checked is liveness under fairness, which is out of the proof system's
reach: `SearchEnds`, `OffGridHasAp`, `RoamingSilent`, `EveryCommandEnds`,
`PendingResolved`, `LostEnds` (of both collars), `RequestServed`, `UplinkReturns` and
`RevisionTold`; and `NoStaleProfile`, of which `LocalSelectionsInOrder` proves the hub's
own part. Every other invariant and action property of the runs that pass is stated by a
theorem.

## Not modelled

- Settings and presence of the ESP32-S3 hub (`hub_presence_impl.h`): the same
  exchange as the Home Hub's, which is `P4Control`.
- The Off-Grid PIN (`offline_access.cpp`): one mutex around a counter.
- Cloud functions and migrations, except as the environment's answers: row
  locks and roles are the database's.
- Protocol encoding, GNSS time parsing, `ui_icons.cpp` (image data), layout and
  text of the pages, page and tile serving, firmware updates: nothing in them
  interacts.
- Web dashboard, tools and simulators.

## Plan

What would come next, in this order:

1. `hub_presence_impl.h` beside `P4Control`, which models the same exchange in the
   other hub, with the wait for a settled beacon that `HubBeacon` can leave unanswered.
2. The cloud's command queue as a module of its own, so that the numbers that meet the
   hub's are given out by a model of the migration.
