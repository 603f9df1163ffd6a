------------------------------ MODULE P4Network ------------------------------
(***************************************************************************)
(* Wi-Fi on the ESP32-P4 Home Hub (hub/esp-idf-p4/main/home_hub_cloud.cpp):*)
(* the network task sync_task, the Wi-Fi event handler, the timer that     *)
(* reconnects the station, and the requests of the UI task (new settings,  *)
(* a scan).                                                                *)
(*                                                                         *)
(* The four run on two cores, so what one does between two accesses to     *)
(* shared state is a step.  They meet in the bits of one event group, in   *)
(* g_station_allowed and in the driver, whose events are queued.  Network  *)
(* 0 is the primary (home) network and 1 the secondary.  What the task     *)
(* does with the cloud while it is connected is one step here.             *)
(***************************************************************************)
EXTENDS Naturals, Sequences

CONSTANTS
    Choices,        \* the settings a user may save
    MaxQueue,       \* capacity of the event loop's queue
    MaxApplies,     \* bound: settings saved
    MaxScans,       \* bound: scans requested
    MaxMoves,       \* bound: networks coming into or going out of range
    MaxFailures     \* bound: driver calls that fail

Networks == {0, 1}
Modes == {"home", "portable", "offgrid"}
Settings == [mode : Modes, nets : SUBSET Networks]

ASSUME P4NetworkAssumption ==
    /\ Choices \subseteq Settings /\ Choices # {}
    /\ MaxQueue \in Nat \ {0}
    /\ {MaxApplies, MaxScans, MaxMoves, MaxFailures} \subseteq Nat

VARIABLES
    saved,       \* g_network_settings
    bits,        \* g_wifi
    allowed,     \* g_station_allowed
    effective,       \* g_effective: effective_mode, automatic_off_grid
    scan,        \* g_wifi_scan->state
    pc, after,   \* where sync_task is, and where it goes after a scan
    settings, index, offGrid, tried,            \* its locals
    asking,      \* what the UI task has written and not yet signalled
    handling,    \* the event half handled
    timer,       \* the reconnect timer is armed, its callback is past its test
    started,     \* g_wifi_initialized
    radio,       \* driver: started, AP, station configuration, link
    events,      \* driver events not yet handled
    range,       \* networks in range
    used         \* the bounds' counters

sync == <<pc, after, settings, index, offGrid, tried>>
driver == <<radio, events>>
wifiVars == <<saved, bits, allowed, effective, scan, sync, asking, handling, timer, started, driver,
              range, used>>

Bits == {"connected", "reconfigure", "disconnected", "scan"}
Links == {"idle", "trying", "up"}
Places == {"start", "dead", "top", "hotspot", "wait", "rejoin", "serve", "pause", "clearScan", "scan",
           "clear", "read", "prepare", "stop", "configure"}
Other(n) == 1 - n

\* modeAllowsNetwork, preferredNetwork, effectiveModeForNetwork
Usable(s) ==
    CASE s.mode = "home" -> s.nets
      [] s.mode = "portable" -> s.nets \cap {1}
      [] s.mode = "offgrid" -> {}
Preferred(s) == IF s.mode = "portable" THEN 1 ELSE 0
EffectiveModeFor(n) == IF n = 1 THEN "portable" ELSE "home"

First(s) ==
    IF Usable(s) = {} \/ Preferred(s) \in Usable(s) THEN Preferred(s) ELSE Other(Preferred(s))

Within(name, bound) == used[name] < bound
Use(name) == used' = [used EXCEPT ![name] = @ + 1]

\* The locals of sync_task that follow from settings s.
Adopt(s) ==
    /\ settings' = s
    /\ index' = First(s)
    /\ offGrid' = (Usable(s) = {})
    /\ tried' = (First(s) # Preferred(s) \/ Other(Preferred(s)) \notin Usable(s))

Effective(n, off) == IF off THEN "offgrid" ELSE EffectiveModeFor(n)

WifiInit ==
    /\ saved \in Choices
    /\ bits = {} /\ allowed = FALSE
    /\ effective = "home"
    /\ scan = "idle"
    /\ pc = "start" /\ after = "top"
    /\ settings = saved /\ index = First(saved) /\ offGrid = FALSE /\ tried = FALSE
    /\ asking = {} /\ handling = "none" /\ timer = {} /\ started = FALSE
    /\ radio = [on |-> FALSE, ap |-> FALSE, net |-> 0, link |-> "idle"]
    /\ events = << >>
    /\ range = Networks
    /\ used = [applies |-> 0, scans |-> 0, moves |-> 0, failures |-> 0]
-----------------------------------------------------------------------------
(* The driver and the air                                                   *)

Post(e) == Len(events) < MaxQueue /\ events' = Append(events, e)

\* esp_wifi_connect; an attempt made while the radio is stopped, or while the
\* station is connected or trying, changes nothing.
Connected(r) == IF r.on /\ r.link = "idle" THEN [r EXCEPT !.link = "trying"] ELSE r

Associates ==
    /\ radio.link = "trying" /\ radio.net \in range
    /\ Post("ip")
    /\ radio' = [radio EXCEPT !.link = "up"]
    /\ UNCHANGED <<saved, bits, allowed, effective, scan, sync, asking, handling, timer,
                   started, range, used>>

\* An attempt finds nothing, or the network is lost.
Drops ==
    /\ radio.link # "idle" /\ radio.net \notin range
    /\ Post("lost")
    /\ radio' = [radio EXCEPT !.link = "idle"]
    /\ UNCHANGED <<saved, bits, allowed, effective, scan, sync, asking, handling, timer,
                   started, range, used>>

Move(n) ==
    /\ Within("moves", MaxMoves)
    /\ range' = IF n \in range THEN range \ {n} ELSE range \cup {n}
    /\ Use("moves")
    /\ UNCHANGED <<saved, bits, allowed, effective, scan, sync, asking, handling, timer, started,
                   driver>>
-----------------------------------------------------------------------------
(* wifi_event, in the event loop's task                                     *)

Handles(e, to) ==
    /\ handling = "none"
    /\ events # << >> /\ Head(events) = e
    /\ events' = Tail(events)
    /\ handling' = to

StationStarted ==
    /\ Handles("start", "none")
    /\ radio' = IF allowed THEN Connected(radio) ELSE radio
    /\ UNCHANGED <<saved, bits, allowed, effective, scan, sync, asking, timer, started, range,
                   used>>

\* The two updates of the bits: first the one that is no longer true is cleared.
Update(e, half) ==
    CASE e = "lost" /\ half = 1 -> bits \ {"connected"}
      [] e = "lost" /\ half = 2 -> bits \cup {"disconnected"}
      [] e = "ip" /\ half = 1 -> bits \ {"disconnected"}
      [] e = "ip" /\ half = 2 -> bits \cup {"connected"}

Hears(e) ==
    /\ Handles(e, e)
    /\ bits' = Update(e, 1)
    /\ timer' = IF e = "ip" THEN timer \ {"armed"} ELSE timer
    /\ UNCHANGED <<saved, allowed, effective, scan, sync, asking, started, radio, range,
                   used>>

\* A lost link also schedules a reconnect, if the station may have one.
HandlerEnds ==
    /\ handling # "none"
    /\ handling' = "none"
    /\ bits' = Update(handling, 2)
    /\ timer' = IF handling = "lost" /\ allowed THEN timer \cup {"armed"} ELSE timer
    /\ UNCHANGED <<saved, allowed, effective, scan, sync, asking, started, driver, range, used>>

\* reconnect_station: the timer's task looks at the flag and then connects.
TimerFires ==
    /\ "armed" \in timer
    /\ timer' = IF allowed THEN {"firing"} ELSE timer \ {"armed"}
    /\ UNCHANGED <<saved, bits, allowed, effective, scan, sync, asking, handling, started,
                   driver, range, used>>
TimerConnects ==
    /\ "firing" \in timer
    /\ timer' = timer \ {"firing"}
    /\ radio' = Connected(radio)
    /\ UNCHANGED <<saved, bits, allowed, effective, scan, sync, asking, handling, started,
                   events, range, used>>
-----------------------------------------------------------------------------
(* The UI task: applyNetworkSettings and requestWifiScan write, then signal *)

UiWrites(s) ==
    /\ asking = {} /\ Within("applies", MaxApplies)
    /\ saved' = s
    /\ asking' = {"reconfigure"}
    /\ Use("applies")
    /\ UNCHANGED <<bits, allowed, effective, scan, sync, handling, timer, started, driver,
                   range>>
UiScans ==
    /\ asking = {} /\ Within("scans", MaxScans)
    /\ started /\ scan # "scanning"
    /\ scan' = "scanning"
    /\ asking' = {"scan"}
    /\ Use("scans")
    /\ UNCHANGED <<saved, bits, allowed, effective, sync, handling, timer, started, driver,
                   range>>
UiSignals ==
    /\ asking # {}
    /\ bits' = bits \cup asking
    /\ asking' = {}
    /\ UNCHANGED <<saved, allowed, effective, scan, sync, handling, timer, started, driver,
                   range, used>>
-----------------------------------------------------------------------------
(* sync_task                                                                *)

SyncKeeps == UNCHANGED <<saved, asking, handling, range>>
LocalsKept == UNCHANGED <<settings, index, offGrid, tried>>
Go(from, to) == pc = from /\ pc' = to

\* start_wifi decides as a reconfiguration does.
StartsWifi ==
    /\ Go("start", "configure")
    /\ Adopt(settings)
    /\ effective' = Effective(index', offGrid')
    /\ UNCHANGED <<bits, allowed, scan, after, timer, started, driver, used>>
    /\ SyncKeeps

Top ==
    /\ Go("top", IF offGrid /\ Usable(settings) = {} THEN "hotspot" ELSE "wait")
    /\ bits' = bits \ {"disconnected"}
    /\ effective' = IF pc' = "hotspot" THEN Effective(index, TRUE) ELSE effective
    /\ UNCHANGED <<allowed, scan, after, timer, started, driver, used>>
    /\ LocalsKept /\ SyncKeeps

\* Without a station there is no timeout; the wait clears what it returns.
HotspotWakes ==
    /\ bits \cap {"reconfigure", "scan"} # {}
    /\ Go("hotspot", IF "scan" \in bits THEN "scan" ELSE "read")
    /\ after' = IF "reconfigure" \in bits THEN "read" ELSE "top"
    /\ bits' = bits \ {"reconfigure", "scan"}
    /\ UNCHANGED <<allowed, effective, scan, timer, started, driver, used>>
    /\ LocalsKept /\ SyncKeeps

\* The wait for a link leaves the bits alone; they are cleared afterwards.
WaitWakes ==
    /\ \/ "scan" \in bits /\ Go("wait", "clearScan")
       \/ "scan" \notin bits /\ "reconfigure" \in bits /\ Go("wait", "clear")
       \/ /\ bits \cap {"scan", "reconfigure"} = {} /\ "connected" \in bits
          /\ Go("wait", IF offGrid THEN "rejoin" ELSE "serve")
    /\ after' = "top"
    /\ UNCHANGED <<bits, allowed, effective, scan, timer, started, driver, used>>
    /\ LocalsKept /\ SyncKeeps

\* Fifteen seconds or more without a link, more than it takes to begin a first
\* attempt: try the other network once, then open the hotspot and go on trying
\* both.
WaitTimesOut ==
    /\ \A i \in DOMAIN events : events[i] # "start"
    /\ bits \cap {"scan", "reconfigure", "connected"} = {}
    /\ Go("wait", "stop")
    /\ \/ /\ ~offGrid /\ ~tried /\ Other(index) \in Usable(settings)
          /\ index' = Other(index) /\ tried' = TRUE /\ offGrid' = FALSE
          /\ effective' = Effective(index', FALSE)
       \/ /\ ~offGrid /\ (tried \/ Other(index) \notin Usable(settings))
          /\ offGrid' = TRUE
          /\ effective' = Effective(index, TRUE)
          /\ UNCHANGED <<index, tried>>
       \/ /\ offGrid
          /\ index' = IF Other(index) \in Usable(settings) THEN Other(index) ELSE index
          /\ UNCHANGED <<offGrid, tried, effective>>
    /\ UNCHANGED <<bits, allowed, scan, after, settings, timer, started, driver, used>>
    /\ SyncKeeps

\* A known uplink is back: the automatic hotspot is closed.
Rejoins ==
    /\ Go("rejoin", "pause")
    /\ \/ /\ radio' = [radio EXCEPT !.ap = FALSE]
          /\ offGrid' = FALSE
          /\ tried' = (index # Preferred(settings))
          /\ effective' = Effective(index, FALSE)
          /\ UNCHANGED used
       \/ /\ Within("failures", MaxFailures) /\ Use("failures")
          /\ UNCHANGED <<radio, offGrid, tried, effective>>
    /\ UNCHANGED <<bits, allowed, scan, after, settings, index, timer, started, events>>
    /\ SyncKeeps

\* Presence, settings poll and snapshot; note_result.
Serves ==
    /\ Go("serve", "pause")
    /\ effective' \in {effective, Effective(index, FALSE)}
    /\ UNCHANGED <<bits, allowed, scan, after, timer, started, driver, used>>
    /\ LocalsKept /\ SyncKeeps

\* The pause before the next exchange, cut short by a request or a lost link.
PauseEnds ==
    /\ Go("pause", IF "scan" \in bits THEN "clearScan" ELSE "top")
    /\ after' = "top"
    /\ UNCHANGED <<bits, allowed, effective, scan, timer, started, driver, used>>
    /\ LocalsKept /\ SyncKeeps

ScanBegins ==
    /\ Go("clearScan", "scan")
    /\ bits' = bits \ {"scan"}
    /\ UNCHANGED <<allowed, effective, scan, after, timer, started, driver, used>>
    /\ LocalsKept /\ SyncKeeps
ScanEnds ==
    /\ pc = "scan" /\ pc' = after
    /\ scan' = "done"
    /\ UNCHANGED <<bits, allowed, effective, after, timer, started, driver, used>>
    /\ LocalsKept /\ SyncKeeps

\* apply_runtime_reconfiguration: the request is cleared before the settings
\* are read, and stale link bits after that.
ClearsRequest ==
    /\ Go("clear", "read")
    /\ bits' = bits \ {"reconfigure", "connected"}
    /\ UNCHANGED <<allowed, effective, scan, after, timer, started, driver, used>>
    /\ LocalsKept /\ SyncKeeps
ReadsSettings ==
    /\ Go("read", "prepare")
    /\ Adopt(saved)
    /\ UNCHANGED <<bits, allowed, effective, scan, after, timer, started, driver, used>>
    /\ SyncKeeps
\* (_Forgets: every bit is cleared, a new request included.)
LinkBits_Forgets == Bits
LinkBits == {"connected", "disconnected"}
Prepares ==
    /\ Go("prepare", "stop")
    /\ bits' = bits \ LinkBits
    /\ effective' = Effective(index, offGrid)
    /\ UNCHANGED <<allowed, scan, after, timer, started, driver, used>>
    /\ LocalsKept /\ SyncKeeps

\* configure_wifi: the station is forbidden and the timer stopped, the radio
\* is stopped, which may cost a link, configured, and started again, by when
\* the station is allowed.
Stops ==
    /\ Go("stop", "configure")
    /\ allowed' = FALSE
    /\ timer' = timer \ {"armed"}
    /\ IF radio.link = "idle" THEN UNCHANGED events ELSE Post("lost")
    /\ radio' = [radio EXCEPT !.on = FALSE, !.link = "idle"]
    /\ UNCHANGED <<bits, effective, scan, after, started, used>>
    /\ LocalsKept /\ SyncKeeps

\* The hotspot runs exactly while offGrid; the station is enabled for a network
\* with a name, but not in explicit Off-Grid.
\* (_PrimaryOnly: only the home network is ever configured.)
Station_PrimaryOnly == settings.mode # "offgrid" /\ index = 0 /\ 0 \in settings.nets
Station == settings.mode # "offgrid" /\ index \in settings.nets
Reconfigured == [radio EXCEPT !.ap = offGrid, !.net = IF Station THEN index ELSE @]
Launches ==
    /\ Go("configure", "top")
    /\ allowed' = Station
    /\ radio' = [Reconfigured EXCEPT !.on = TRUE]
    /\ Post("start")
    /\ started' = TRUE
    /\ UNCHANGED <<bits, effective, scan, after, timer, used>>
    /\ LocalsKept /\ SyncKeeps
\* A driver call fails.  The first time, sync_task deletes itself for good.
ConfigureFails ==
    /\ pc = "configure"
    /\ Within("failures", MaxFailures) /\ Use("failures")
    /\ pc' = IF started THEN "top" ELSE "dead"
    /\ allowed' = FALSE
    /\ UNCHANGED <<bits, effective, scan, after, timer, started, driver>>
    /\ LocalsKept /\ SyncKeeps
-----------------------------------------------------------------------------
SyncStep ==
    StartsWifi \/ Top \/ HotspotWakes \/ WaitWakes \/ WaitTimesOut \/ Rejoins \/ Serves \/ PauseEnds
        \/ ScanBegins \/ ScanEnds \/ ClearsRequest \/ ReadsSettings \/ Prepares \/ Stops
        \/ Launches \/ ConfigureFails
EventStep == StationStarted \/ (\E e \in {"lost", "ip"} : Hears(e)) \/ HandlerEnds

WifiNext ==
    \/ SyncStep \/ EventStep
    \/ TimerFires \/ TimerConnects
    \/ Associates \/ Drops
    \/ UiSignals \/ UiScans
    \/ \E s \in Choices : UiWrites(s)
    \/ \E n \in Networks : Move(n)

WifiSpec == WifiInit /\ [][WifiNext]_wifiVars

\* The tasks run, and sync_task gets its turn when it waits for room in the
\* queue; an attempt that keeps being made on a network in range succeeds.
\* Users and networks owe nothing.
WifiFairSpec ==
    /\ WifiSpec
    /\ SF_wifiVars(SyncStep) /\ WF_wifiVars(EventStep)
    /\ WF_wifiVars(TimerFires \/ TimerConnects) /\ WF_wifiVars(UiSignals)
    /\ WF_wifiVars(Drops) /\ SF_wifiVars(Associates)
-----------------------------------------------------------------------------
WifiTypeOK ==
    /\ {saved, settings} \subseteq Settings
    /\ bits \subseteq Bits
    /\ {allowed, offGrid, tried, started} \subseteq BOOLEAN
    /\ effective \in Modes
    /\ scan \in {"idle", "scanning", "done"}
    /\ pc \in Places
    /\ after \in {"top", "read"}
    /\ index \in Networks
    /\ asking \subseteq {"reconfigure", "scan"}
    /\ handling \in {"none", "lost", "ip"}
    /\ timer \subseteq {"armed", "firing"}
    /\ radio \in [on : BOOLEAN, ap : BOOLEAN, net : Networks, link : Links]
    /\ events \in Seq({"start", "lost", "ip"}) /\ Len(events) <= MaxQueue
    /\ range \subseteq Networks

\* No request is lost, in spite of requests made while the task is busy, scanning
\* or in the middle of an earlier one: while it waits it works on what was saved
\* last, and nobody waits for a scan, or a request is on its way.
NoLostRequest ==
    pc \in {"hotspot", "wait", "pause"} =>
        /\ settings = saved \/ "reconfigure" \in bits \cup asking
        /\ scan # "scanning" \/ "scan" \in bits \cup asking

\* A hub that can reach one of its networks gets linked again, in spite of the
\* attempts on the other one and of driver calls that failed in between.
UplinkReturns ==
    \A n \in Networks : []<>(radio.link = "up" \/ n \notin range \cap Usable(saved) \/ pc = "dead")
=============================================================================
