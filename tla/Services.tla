-------------------------------- MODULE Services --------------------------------
(* The services of a device that has Wi-Fi, MQTT and ESP-NOW, from boot on, under *)
(* commands from two tasks and what becomes of the network.  How much of it a     *)
(* behaviour has, and of which kinds, is its scenario.                            *)
EXTENDS MqttService

CONSTANTS Scenarios, Stored, Other, Long    \* Long: a profile that is too long

VARIABLE events    \* bound: what may still happen

vars == <<wifi, todo, mqtt, events>>

ServicesInit ==
    /\ StationInit /\ MqttInit
    /\ events \in Scenarios
    /\ sta = [enabled |-> FALSE, recorded |-> "STOPPED", published |-> "STOPPED",
              active |-> Stored, stored |-> Stored, keep |-> FALSE]
    /\ todo = [task \in Tasks |-> IF task = "app" THEN events.boot ELSE <<>>]

Happens(kind) ==
    /\ kind \in DOMAIN events.left /\ events.left[kind] > 0
    /\ events' = [events EXCEPT !.left[kind] = @ - 1]

\* startNightMareESP() is through; before, nobody takes commands.
Booted ==
    /\ events.boot # <<>> /\ Idle("app")
    /\ events' = [events EXCEPT !.boot = <<>>]
    /\ UNCHANGED <<wifi, todo, mqtt>>

-------------------------------------------------------------------------------
(* A task that is free takes a command.                                           *)

Commanded(kind, steps) ==
    /\ Happens(kind) /\ events.boot = <<>>
    /\ \E task \in events.tasks : Idle(task) /\ Instead(task, steps)
    /\ UNCHANGED <<wifi, mqtt>>

Command ==
    \/ Commanded("station", << <<"enable">> >>)
    \/ Commanded("station", << <<"disable">> >>)
    \/ \E profile \in {Stored, Other} : Commanded("profile", << <<"apply", profile>> >>)
    \/ Commanded("long", << <<"apply", Long>> >>)
    \/ Commanded("scan", << <<"tick", FALSE>>, <<"scan">> >>)
    \/ Commanded("abort", << <<"abort">> >>)
    \/ \E on \in BOOLEAN : Commanded("espnow", << <<"espnow", on>> >>)
    \/ \E profile \in {"local", "remote"} : Commanded("mqtt", << <<"mqttEnable", profile>> >>)
    \/ Commanded("mqtt", << <<"mqttDisable">> >>)
    \/ Commanded("radio", << <<"radioBegin">> >>)
    \/ Commanded("radio", << <<"radioEnd">> >>)

Accidents ==
    /\ UNCHANGED <<radio, sta, mon, handling, scan, esp, todo, mqtt>>
    /\ \/ DriverLosesLink /\ Happens("drop")
       \/ DriverFails /\ drv.config \in Reachable /\ Happens("drop")

Refusal ==
    /\ Happens("refusal")
    /\ \E task \in Tasks : DriverRefuses(task)
    /\ UNCHANGED mqtt

SessionLost == Happens("session") /\ ClientLosesSession /\ UNCHANGED wifi

-------------------------------------------------------------------------------

Joins == (DriverJoins \/ (DriverFails /\ drv.config \notin Reachable))
         /\ UNCHANGED <<radio, sta, mon, handling, scan, esp, todo, mqtt, events>>

Scans == DriverScans /\ UNCHANGED <<radio, sta, mon, handling, scan, esp, todo, mqtt, events>>

Events == EventLoop /\ UNCHANGED <<mqtt, events>>

Monitor == (MonitorTurns \/ MonitorEnds) /\ UNCHANGED <<mqtt, events>>

Retries == MonitorRetries /\ UNCHANGED <<mqtt, events>>

Loop(timeout) == LoopTicks(timeout) /\ UNCHANGED <<mqtt, events>>

\* History: two tasks are about the client of MQTT at once, or one asks for the
\* station while a change of it is not reported, or for a client while the control
\* task has created one and not said so.
MqttKinds == {"mqtt", "mqttEnable", "ifUp", "client", "mqttDisable", "end", "ended"}

About(task) == \E i \in DOMAIN todo[task] : todo[task][i][1] \in MqttKinds

Overlaps(task) ==
    /\ About(task)
    /\ \/ \E other \in Tasks \ {task} : About(other)
       \/ Does(task, "ifUp") /\ sta.recorded # sta.published
       \/ Does(task, "client") /\ ctl.next # None /\ cli.at # None

Step(task) ==
    /\ \/ StationStep(task) /\ UNCHANGED mqtt
       \/ Disable(task, svc.enabled) /\ UNCHANGED mqtt
       \/ MqttStep(task) /\ UNCHANGED wifi
    /\ events' = [events EXCEPT !.overlap = @ \/ Overlaps(task)]

Connects == ClientConnects /\ UNCHANGED <<wifi, events>>

\* The link is gone, or the broker does not answer, or the service hears of it.
Client ==
    /\ \/ ClientErrs \/ Connected \/ Disconnected
       \/ drv.link # "up" /\ ClientLosesSession
    /\ UNCHANGED <<wifi, events>>

Control == ControlTask /\ UNCHANGED <<wifi, events>>

Next ==
    \/ Booted \/ Command \/ Accidents \/ Refusal \/ SessionLost
    \/ Joins \/ Scans \/ Events \/ Monitor \/ Retries \/ Connects \/ Client \/ Control
    \/ \E timeout \in BOOLEAN : Loop(timeout)
    \/ \E task \in Tasks : Step(task)

\* Every task goes on with what it has begun, the loop turns, and a network that
\* is there is joined in the end.
Fairness ==
    /\ WF_vars(Joins) /\ WF_vars(Scans) /\ WF_vars(Events) /\ WF_vars(Monitor)
    /\ WF_vars(Retries) /\ WF_vars(Connects) /\ WF_vars(Client) /\ WF_vars(Control)
    /\ \A timeout \in BOOLEAN : WF_vars(Loop(timeout))
    /\ \A task \in Tasks : WF_vars(Step(task))

Spec == ServicesInit /\ [][Next]_vars /\ Fairness

-------------------------------------------------------------------------------
(* Properties.                                                                    *)

\* Whatever becomes of a scan (it ends, fails, is aborted, is too long, or a second
\* one begins), and whoever ends it, the loop, a command or the end of Wi-Fi,
\* ESP-NOW runs again if it is enabled and there is a radio.
EspNowRunsAgain == <>[](esp.enabled /\ radio.on) => <>[]esp.runs

Joined == drv.link = "up" /\ sta.recorded = "CONNECTED"

Wanted ==
    /\ sta.enabled /\ radio.on /\ mon = "runs"
    /\ sta.active.ssid \in Reachable /\ drv.config = sta.active.ssid

\* A station that is wanted, whose monitor runs and whose network is there, is
\* joined to it in the end and says so: after every loss of the link, and change of
\* profile that fails half way and falls back.
StationJoins == <>[]Wanted => <>[]Joined

\* A station that was disabled, or lost its radio, leaves its network and stays
\* away: no event that was under way, no monitor and no retry joins it again.
LeavesNetwork == <>[](~sta.enabled \/ ~radio.on) => <>[](drv.config = None /\ drv.link = "idle")

\* The station ends up where it is wanted.
StationFollows == StationJoins /\ LeavesNetwork

Orderly == ~events.overlap /\ ~ctl.deaf

\* Through the queue of the control task the client ends up where the service has
\* it: if the station is joined, with a session at the broker of its profile, which
\* the service knows of; and nowhere if it was disabled.  Unless two tasks
\* overlapped, or the queue had no room.
ClientFollows ==
    /\ <>[](svc.enabled /\ sta.enabled /\ Joined /\ mon = "runs" /\ Orderly)
           => <>[](cli.at = svc.profile /\ cli.session = "up" /\ svc.state = "CONNECTED")
    /\ <>[](~svc.enabled /\ Orderly) => <>[](cli.at = None)
===============================================================================
