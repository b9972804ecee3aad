------------------------------ MODULE WifiStation ------------------------------
(* The radio, the station on it and its service, Network/WiFiRadio and          *)
(* Network/WiFiIP: joining an access point, the monitor that reports and         *)
(* retries, a change of profile, and scans, for which ESP-NOW steps aside.       *)
(*                                                                            *)
(* Commands come from two tasks; the loop, the monitor and the event loop of     *)
(* ESP-IDF are tasks of their own.  What a task has left to do is todo[task], a  *)
(* sequence of steps, and a step is what the code does at once or under one      *)
(* lock.                                                                         *)
EXTENDS Sequences, FiniteSets

CONSTANTS
    Reachable,    \* the networks there are
    TooLong,      \* a network whose name does not fit the driver's configuration
    None          \* no network, no client

Tasks == {"app", "remote", "loop", "monitor"}

Profile(ssid, tx) == [ssid |-> ssid, tx |-> tx]

VARIABLES
    radio,    \* the radio runs, and was reported to run
    drv,      \* the driver: configuration, link, whether it scans, its events
    sta,      \* the station and its service
    mon,      \* the task of the monitor, from its creation to its end
    handling, \* the event handler is between two steps of a lost link
    scan,     \* the state of the scan
    esp,      \* the service of ESP-NOW
    todo      \* per task, the steps left

Idle(task) == todo[task] = <<>>
Does(task, kind) == ~Idle(task) /\ Head(todo[task])[1] = kind
Argument(task) == Head(todo[task])[2]
Then(task, steps) == todo' = [todo EXCEPT ![task] = steps \o Tail(@)]
Instead(task, steps) == todo' = [todo EXCEPT ![task] = steps]

-------------------------------------------------------------------------------
(* The driver.                                                                  *)

Posting(d, event) == [d EXCEPT !.events = Append(@, event)]

Connecting(d) ==
    IF d.link = "idle" /\ d.config # None THEN [d EXCEPT !.link = "joining"] ELSE d

Leaving(d) ==
    IF d.link = "idle" THEN d ELSE Posting([d EXCEPT !.link = "idle"], "down")

NotScanning(d) == IF d.scanning THEN Posting([d EXCEPT !.scanning = FALSE], "scan") ELSE d

DriverJoins ==
    /\ drv.link = "joining" /\ drv.config \in Reachable
    /\ drv' = Posting([drv EXCEPT !.link = "up"], "ip")

DriverFails == drv.link = "joining" /\ drv' = Leaving(drv)

DriverLosesLink == drv.link = "up" /\ drv' = Leaving(drv)

DriverScans == drv.scanning /\ drv' = NotScanning(drv)

-------------------------------------------------------------------------------
(* What is recorded, and what is published.                                     *)

Publish(state) ==
    << <<"publish", state>>, <<"mqtt", state = "CONNECTED">> >>
    \o (IF state = "CONNECTED" THEN << <<"readTx">> >> ELSE <<>>)

\* setStatus()
SetStatus(task) ==
    /\ Does(task, "status")
    /\ sta' = [sta EXCEPT !.recorded = Argument(task)]
    /\ Then(task, IF sta.recorded = Argument(task) THEN <<>> ELSE Publish(Argument(task)))
    /\ UNCHANGED <<radio, drv, mon, handling, scan, esp>>

Published(task) ==
    /\ Does(task, "publish")
    /\ sta' = [sta EXCEPT !.published = Argument(task)]
    /\ Then(task, <<>>)
    /\ UNCHANGED <<radio, drv, mon, handling, scan, esp>>

\* onWiFiState(): a level the driver fell back to is stored, with what was stored.
KeepFallback(task) ==
    /\ Does(task, "readTx")
    /\ Then(task, IF sta.active.tx = sta.stored.tx THEN <<>>
                  ELSE << <<"save", [sta.stored EXCEPT !.tx = sta.active.tx]>> >>)
    /\ UNCHANGED <<radio, drv, sta, mon, handling, scan, esp>>

SaveProfile(task) ==
    /\ Does(task, "save")
    /\ sta' = [sta EXCEPT !.stored = Argument(task)]
    /\ Then(task, <<>>)
    /\ UNCHANGED <<radio, drv, mon, handling, scan, esp>>

-------------------------------------------------------------------------------
(* Joining: beginConnection() and what follows it.                               *)

\* What is left to do if the station cannot be configured is the third part.
Begin(profile, monitor, otherwise) ==
    << <<"leave", profile, monitor>>, <<"configure", profile, otherwise>>,
       <<"status", "CONNECTING">>, <<"join">> >>

LeaveNetwork(task) ==
    /\ Does(task, "leave")
    /\ sta' = [sta EXCEPT !.active = Argument(task), !.keep = Head(todo[task])[3]]
    /\ drv' = Leaving(drv)
    /\ Then(task, <<>>)
    /\ UNCHANGED <<radio, mon, handling, scan, esp>>

Configure(task) ==
    /\ Does(task, "configure")
    /\ IF Argument(task).ssid = TooLong
       THEN drv' = drv /\ Instead(task, Head(todo[task])[3])
       ELSE drv' = [drv EXCEPT !.config = Argument(task).ssid] /\ Then(task, <<>>)
    /\ UNCHANGED <<radio, sta, mon, handling, scan, esp>>

\* esp_wifi_set_config() may refuse while the station joins.
DriverRefuses(task) ==
    /\ Does(task, "configure") /\ drv.link = "joining"
    /\ Instead(task, Head(todo[task])[3])
    /\ UNCHANGED <<radio, drv, sta, mon, handling, scan, esp>>

Join(task) ==
    /\ Does(task, "join")
    /\ drv' = Connecting(drv) /\ Then(task, <<>>)
    /\ UNCHANGED <<radio, sta, mon, handling, scan, esp>>

\* startMonitor(): a task that is about to end counts.
StartMonitor(task) ==
    /\ Does(task, "startMonitor")
    /\ sta' = [sta EXCEPT !.keep = TRUE]
    /\ mon' = IF mon = "none" THEN "runs" ELSE mon
    /\ Then(task, <<>>)
    /\ UNCHANGED <<radio, drv, handling, scan, esp>>

\* stopMonitor(), which waits half a second for a task that may sleep for one.  With no
\* such task it changes nothing; WiFi_stop() has told the driver's handler by itself.
SilenceMonitor(task) ==
    /\ Does(task, "silence")
    /\ sta' = [sta EXCEPT !.keep = @ /\ mon = "none" /\ ~Argument(task)]
    /\ Then(task, <<>>)
    /\ UNCHANGED <<radio, drv, mon, handling, scan, esp>>

\* connectBlocking(), within its timeout or not.
AwaitConnection(task) ==
    /\ Does(task, "await")
    /\ LET previous == Head(todo[task])[3]
       IN  IF sta.recorded = "CONNECTED"
           THEN Then(task, << <<"startMonitor">>, <<"save", Argument(task)>> >>)
           ELSE Then(task, Begin(previous, TRUE, << <<"startMonitor">> >>)
                           \o << <<"startMonitor">> >>)
    /\ UNCHANGED <<radio, drv, sta, mon, handling, scan, esp>>

\* WiFi_start(), unless the station is connected, or connects, already.
Start(otherwise) ==
    IF sta.recorded \in {"CONNECTED", "CONNECTING"} THEN <<>>
    ELSE Begin(sta.stored, TRUE, otherwise) \o << <<"startMonitor">> >>

Stop ==
    << <<"silence", TRUE>>, <<"status", "STOPPED">>, <<"forget">>, <<"tick", FALSE>> >>

\* WiFi_stop(): the access point is forgotten, and a scan.
Forget(task) ==
    /\ Does(task, "forget")
    /\ drv' = IF radio.on THEN [Leaving(drv) EXCEPT !.config = None] ELSE drv
    /\ scan' = [scan EXCEPT !.running = FALSE, !.completed = FALSE, !.pending = scan.suspended]
    /\ Then(task, <<>>)
    /\ UNCHANGED <<radio, sta, mon, handling, esp>>

-------------------------------------------------------------------------------
(* The commands.                                                                *)

Refused(task) ==
    /\ Does(task, "disabled")
    /\ sta' = [sta EXCEPT !.enabled = FALSE]
    /\ Then(task, <<>>)
    /\ UNCHANGED <<radio, drv, mon, handling, scan, esp>>

\* WiFiIP_enable()
Enable(task) ==
    /\ Does(task, "enable")
    /\ IF (sta.enabled /\ sta.recorded # "STOPPED") \/ ~radio.on
       THEN UNCHANGED sta /\ Then(task, <<>>)
       ELSE /\ sta' = [sta EXCEPT !.enabled = TRUE]
            /\ Then(task, Start(<< <<"disabled">> >> \o Tail(todo[task])))
    /\ UNCHANGED <<radio, drv, mon, handling, scan, esp>>

\* WiFiIP_disable(), which the service of MQTT may forbid.
Disable(task, forbidden) ==
    /\ Does(task, "disable")
    /\ IF forbidden \/ ~sta.enabled
       THEN UNCHANGED sta /\ Then(task, <<>>)
       ELSE /\ sta' = [sta EXCEPT !.enabled = FALSE]
            /\ Then(task, IF sta.recorded = "STOPPED" THEN <<>> ELSE Stop)
    /\ UNCHANGED <<radio, drv, mon, handling, scan, esp>>

\* WiFiApplyProfile() and WiFi_changeProfile().
Restoring(previous) ==
    Begin(previous, TRUE, << <<"startMonitor">> >>) \o << <<"startMonitor">> >>

Change(profile) ==
    << <<"silence", FALSE>> >> \o Begin(profile, FALSE, Restoring(sta.active))
    \o << <<"await", profile, sta.active>> >>

ApplyProfile(task) ==
    /\ Does(task, "apply")
    /\ Then(task, IF sta.recorded = "STOPPED" THEN << <<"save", Argument(task)>> >>
                  ELSE Change(Argument(task)))
    /\ UNCHANGED <<radio, drv, sta, mon, handling, scan, esp>>

-------------------------------------------------------------------------------
(* Scans.                                                                       *)

\* NETWORK WIFI SCAN: what the first one starts a later one reads and clears.
ScanCommand(task) ==
    /\ Does(task, "scan")
    /\ scan' = IF scan.running THEN scan ELSE [scan EXCEPT !.completed = FALSE]
    /\ Then(task, IF scan.running \/ scan.completed \/ ~radio.on THEN <<>>
                  ELSE << <<"suspend">>, <<"scanStart">> >>)
    /\ UNCHANGED <<radio, drv, sta, mon, handling, esp>>

\* NmEspNowConnection::suspend()
Suspend(task) ==
    /\ Does(task, "suspend")
    /\ esp' = IF esp.enabled THEN [esp EXCEPT !.suspended = TRUE, !.runs = FALSE] ELSE esp
    /\ Then(task, << <<"scanning", esp.enabled>> >>)
    /\ UNCHANGED <<radio, drv, sta, mon, handling, scan>>

Scanning(task) ==
    /\ Does(task, "scanning")
    /\ scan' = [running |-> TRUE, completed |-> FALSE, pending |-> FALSE,
                suspended |-> Argument(task)]
    /\ Then(task, <<>>)
    /\ UNCHANGED <<radio, drv, sta, mon, handling, esp>>

\* esp_wifi_scan_start() refuses while it scans, and may while the station joins.
ScanStart(task) ==
    /\ Does(task, "scanStart")
    /\ \/ /\ ~drv.scanning /\ radio.on
          /\ drv' = [drv EXCEPT !.scanning = TRUE] /\ scan' = scan /\ Then(task, <<>>)
       \/ /\ drv.scanning \/ ~radio.on \/ drv.link = "joining"
          /\ drv' = drv /\ Then(task, << <<"tick", FALSE>> >>)
          /\ scan' = [scan EXCEPT !.running = FALSE, !.pending = scan.suspended]
    /\ UNCHANGED <<radio, sta, mon, handling, esp>>

\* WiFi_abortScan()
AbortScan(task) ==
    /\ Does(task, "abort")
    /\ scan' = [scan EXCEPT !.running = FALSE, !.pending = scan.suspended]
    /\ drv' = IF scan.running THEN NotScanning(drv) ELSE drv
    /\ Then(task, << <<"tick", FALSE>> >>)
    /\ UNCHANGED <<radio, sta, mon, handling, esp>>

\* WiFi_scanTick(), which may find that a scan takes too long.
Tick(task) ==
    /\ Does(task, "tick")
    /\ LET timeout == Argument(task) /\ scan.running
           resume == IF timeout THEN scan.suspended ELSE scan.pending
       IN  /\ scan' = [scan EXCEPT !.running = @ /\ ~timeout, !.pending = FALSE,
                                   !.suspended = @ /\ ~resume]
           /\ drv' = IF timeout THEN NotScanning(drv) ELSE drv
           /\ Then(task, IF resume THEN << <<"resume">> >> ELSE <<>>)
    /\ UNCHANGED <<radio, sta, mon, handling, esp>>

\* NmEspNowConnection::resume()
Resume(task) ==
    /\ Does(task, "resume")
    /\ esp' = [esp EXCEPT !.suspended = @ /\ ~esp.enabled]
    /\ Then(task, IF esp.enabled /\ esp.suspended THEN << <<"espBegin">> >> ELSE <<>>)
    /\ UNCHANGED <<radio, drv, sta, mon, handling, scan>>

EspBegin(task) ==
    /\ Does(task, "espBegin")
    /\ esp' = [esp EXCEPT !.runs = @ \/ radio.on]
    /\ Then(task, <<>>)
    /\ UNCHANGED <<radio, drv, sta, mon, handling, scan>>

\* EspNow_enable() and EspNow_disable()
SwitchEspNow(task) ==
    /\ Does(task, "espnow")
    /\ esp' = LET on == Argument(task) IN
              IF on /\ (esp.enabled \/ ~radio.on) THEN esp
              ELSE [enabled |-> on, suspended |-> FALSE, runs |-> on]
    /\ Then(task, <<>>)
    /\ UNCHANGED <<radio, drv, sta, mon, handling, scan>>

-------------------------------------------------------------------------------
(* The radio: WiFiRadioBegin(), WiFiRadioEnd() and what they report.             *)

RadioBegin(task) ==
    /\ Does(task, "radioBegin")
    /\ radio' = [on |-> TRUE, reported |-> TRUE]
    /\ drv' = IF radio.on THEN drv ELSE Posting(drv, "start")
    /\ Then(task, IF radio.reported THEN <<>> ELSE << <<"stationUp">>, <<"espUp">> >>)
    /\ UNCHANGED <<sta, mon, handling, scan, esp>>

RadioEnd(task) ==
    /\ Does(task, "radioEnd")
    /\ radio' = [radio EXCEPT !.reported = FALSE]
    /\ Then(task, IF ~radio.on THEN <<>>
                  ELSE (IF sta.enabled /\ sta.recorded # "STOPPED" THEN Stop ELSE <<>>)
                       \o << <<"espDown">>, <<"radioOff">> >>)
    /\ UNCHANGED <<drv, sta, mon, handling, scan, esp>>

\* WiFiIP_onRadioState(true)
StationUp(task) ==
    /\ Does(task, "stationUp")
    /\ Then(task, IF sta.enabled /\ sta.recorded = "STOPPED" THEN Start(Tail(todo[task]))
                  ELSE <<>>)
    /\ UNCHANGED <<radio, drv, sta, mon, handling, scan, esp>>

\* EspNow_onRadioState()
EspUp(task) ==
    /\ Does(task, "espUp")
    /\ Then(task, IF esp.enabled /\ ~esp.suspended /\ ~esp.runs
                  THEN << <<"espBegin">> >> ELSE <<>>)
    /\ UNCHANGED <<radio, drv, sta, mon, handling, scan, esp>>

EspDown(task) ==
    /\ Does(task, "espDown")
    /\ esp' = IF esp.enabled /\ ~esp.suspended THEN [esp EXCEPT !.runs = FALSE] ELSE esp
    /\ Then(task, <<>>)
    /\ UNCHANGED <<radio, drv, sta, mon, handling, scan>>

\* esp_wifi_stop() and esp_wifi_deinit()
RadioOff(task) ==
    /\ Does(task, "radioOff")
    /\ radio' = [radio EXCEPT !.on = FALSE]
    /\ drv' = [Leaving(drv) EXCEPT !.config = None, !.scanning = FALSE]
    /\ Then(task, <<>>)
    /\ UNCHANGED <<sta, mon, handling, scan, esp>>

-------------------------------------------------------------------------------
(* The event loop of ESP-IDF.                                                    *)

Handled(event) ==
    /\ ~handling /\ drv.events # <<>> /\ Head(drv.events) = event

\* The radio has started, which is the station's business only if it monitors.
HandleStart ==
    /\ Handled("start")
    /\ drv' = IF sta.keep THEN Connecting([drv EXCEPT !.events = Tail(@)])
              ELSE [drv EXCEPT !.events = Tail(@)]
    /\ sta' = IF sta.keep THEN [sta EXCEPT !.recorded = "CONNECTING"] ELSE sta
    /\ UNCHANGED <<radio, mon, handling, scan, esp, todo>>

HandleIp ==
    /\ Handled("ip")
    /\ drv' = [drv EXCEPT !.events = Tail(@)]
    /\ sta' = [sta EXCEPT !.recorded = "CONNECTED"]
    /\ UNCHANGED <<radio, mon, handling, scan, esp, todo>>

\* STA_DISCONNECTED: the state is read, and recorded in the next step.
HandleDown ==
    /\ Handled("down")
    /\ handling' = (sta.recorded # "STOPPED")
    /\ LET taken == [drv EXCEPT !.events = Tail(@)]
       IN  drv' = IF sta.keep /\ ~handling' THEN Connecting(taken) ELSE taken
    /\ UNCHANGED <<radio, sta, mon, scan, esp, todo>>

HandleLost ==
    /\ handling /\ handling' = FALSE
    /\ sta' = [sta EXCEPT !.recorded = "DISCONNECTED"]
    /\ drv' = IF sta.keep THEN Connecting(drv) ELSE drv
    /\ UNCHANGED <<radio, mon, scan, esp, todo>>

\* Mutant: the end of a scan is noted, and not who waits for it.
HandleScanDoneOnly ==
    /\ Handled("scan")
    /\ drv' = [drv EXCEPT !.events = Tail(@)]
    /\ scan' = [scan EXCEPT !.running = FALSE, !.completed = TRUE]
    /\ UNCHANGED <<radio, sta, mon, handling, esp, todo>>

HandleScanDone ==
    /\ Handled("scan")
    /\ drv' = [drv EXCEPT !.events = Tail(@)]
    /\ scan' = [scan EXCEPT !.running = FALSE, !.completed = TRUE, !.pending = scan.suspended]
    /\ UNCHANGED <<radio, sta, mon, handling, esp, todo>>

EventLoop == HandleStart \/ HandleIp \/ HandleDown \/ HandleLost \/ HandleScanDone

-------------------------------------------------------------------------------
(* The monitor and the loop.                                                     *)

\* A turn of monitorTask(): it ends, or publishes what changed.
MonitorTurns ==
    /\ mon = "runs" /\ Idle("monitor")
    /\ mon' = IF sta.keep THEN mon ELSE "ends"
    /\ IF sta.keep /\ sta.recorded # sta.published
       THEN Instead("monitor", Publish(sta.recorded))
       ELSE UNCHANGED todo
    /\ UNCHANGED <<radio, drv, sta, handling, scan, esp>>

MonitorEnds ==
    /\ mon = "ends" /\ mon' = "none"
    /\ UNCHANGED <<radio, drv, sta, handling, scan, esp, todo>>

\* Mutant: the retry leaves the network, and counts on the event to join it.
MonitorRetriesByEvent ==
    /\ mon = "runs" /\ Idle("monitor") /\ sta.keep /\ sta.recorded # "CONNECTED"
    /\ drv.events = <<>> /\ ~handling
    /\ drv.link = "joining" => drv.config \notin Reachable
    /\ drv' = Leaving(drv)
    /\ sta' = [sta EXCEPT !.active.tx = "low"]
    /\ UNCHANGED <<radio, mon, handling, scan, esp, todo>>

\* After 15 seconds without a connection, the next level of power.  To join a
\* network that is there takes less.
MonitorRetries ==
    /\ mon = "runs" /\ Idle("monitor") /\ sta.keep /\ sta.recorded # "CONNECTED"
    /\ drv.events = <<>> /\ ~handling
    /\ drv.link = "joining" => drv.config \notin Reachable
    /\ drv' = Connecting(Leaving(drv))
    /\ sta' = [sta EXCEPT !.active.tx = "low"]
    /\ UNCHANGED <<radio, mon, handling, scan, esp, todo>>

LoopTicks(timeout) ==
    /\ Idle("loop") /\ IF timeout THEN scan.running ELSE scan.pending
    /\ Instead("loop", << <<"tick", timeout>> >>)
    /\ UNCHANGED <<radio, drv, sta, mon, handling, scan, esp>>

StationStep(task) ==
    \/ SetStatus(task) \/ Published(task) \/ KeepFallback(task) \/ SaveProfile(task)
    \/ LeaveNetwork(task) \/ Configure(task) \/ Join(task) \/ AwaitConnection(task)
    \/ StartMonitor(task) \/ SilenceMonitor(task) \/ Forget(task)
    \/ Refused(task) \/ Enable(task) \/ ApplyProfile(task)
    \/ ScanCommand(task) \/ Suspend(task) \/ Scanning(task) \/ ScanStart(task)
    \/ AbortScan(task) \/ Tick(task) \/ Resume(task)
    \/ EspBegin(task) \/ SwitchEspNow(task)
    \/ RadioBegin(task) \/ RadioEnd(task) \/ StationUp(task) \/ EspUp(task)
    \/ EspDown(task) \/ RadioOff(task)

StationInit ==
    /\ radio = [on |-> FALSE, reported |-> FALSE]
    /\ drv = [config |-> None, link |-> "idle", scanning |-> FALSE, events |-> <<>>]
    /\ mon = "none" /\ handling = FALSE
    /\ scan = [running |-> FALSE, completed |-> FALSE, pending |-> FALSE, suspended |-> FALSE]
    /\ esp = [enabled |-> FALSE, suspended |-> FALSE, runs |-> FALSE]
===============================================================================
