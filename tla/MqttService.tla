------------------------------ MODULE MqttService ------------------------------
(* The service of MQTT over the station, Network/MQTT: the service, which keeps   *)
(* to one broker, the control task, which stops and starts the client as it is    *)
(* told through a queue, and the client itself, whose task reports its session.   *)
EXTENDS WifiStation, Naturals

CONSTANT ControlDepth    \* the commands the queue of the control task holds

VARIABLES
    svc,     \* enabled, state and profile, as the service publishes them
    cli,     \* the client, its session, and what a call of end() noted
    ctl,     \* the queue of the control task, the client it is to start, and the
             \* history that it did not take a command in time
    client   \* what the client's task has still to do about its session

mqtt == <<svc, cli, ctl, client>>
wifi == <<radio, drv, sta, mon, handling, scan, esp>>

Room == Len(ctl.queue) < ControlDepth
IpUp == sta.enabled /\ sta.recorded = "CONNECTED"    \* WiFiIP_state() is CONNECTED

-------------------------------------------------------------------------------
(* The service.                                                                  *)

\* onWiFiState(), as it is told.
ToldOfStation(task) ==
    /\ Does(task, "mqtt")
    /\ svc' = IF ~svc.enabled THEN svc
              ELSE [svc EXCEPT !.state = IF Argument(task) THEN "CONNECTING" ELSE "STARTING"]
    /\ Then(task, IF svc.enabled /\ Argument(task) THEN << <<"client", svc.profile>> >> ELSE <<>>)
    /\ UNCHANGED <<cli, ctl, client>>

\* Mutant: a service that runs takes the profile, and leaves its client.
EnableMqttLater(task) ==
    /\ Does(task, "mqttEnable")
    /\ LET profile == Argument(task)
       IN  IF ~sta.enabled THEN UNCHANGED svc /\ Then(task, <<>>)
           ELSE /\ svc' = [svc EXCEPT !.enabled = TRUE, !.profile = profile]
                /\ Then(task, IF svc.enabled THEN <<>> ELSE << <<"ifUp", profile>> >>)
    /\ UNCHANGED <<cli, ctl, client>>

\* Mqtt_enable()
EnableMqtt(task) ==
    /\ Does(task, "mqttEnable")
    /\ LET profile == Argument(task)
       IN  IF ~sta.enabled THEN UNCHANGED svc /\ Then(task, <<>>)
           ELSE IF svc.enabled /\ svc.profile = profile THEN UNCHANGED svc /\ Then(task, <<>>)
           ELSE /\ svc' = [enabled |-> TRUE, state |-> "STARTING", profile |-> profile]
                /\ Then(task, << <<"ifUp", profile>> >>)
    /\ UNCHANGED <<cli, ctl, client>>

ConnectIfUp(task) ==
    /\ Does(task, "ifUp")
    /\ svc' = IF IpUp THEN [svc EXCEPT !.state = "CONNECTING"] ELSE svc
    /\ Then(task, IF IpUp THEN << <<"client", Argument(task)>> >> ELSE <<>>)
    /\ UNCHANGED <<cli, ctl, client>>

DisableMqtt(task) ==
    /\ Does(task, "mqttDisable")
    /\ svc' = IF svc.enabled THEN [svc EXCEPT !.enabled = FALSE, !.state = "STOPPED"] ELSE svc
    /\ Then(task, IF svc.enabled THEN << <<"end">> >> ELSE <<>>)
    /\ UNCHANGED <<cli, ctl, client>>

-------------------------------------------------------------------------------
(* begin(), changeTo() and end() of NmMqttEsp.                                    *)

\* A client of this broker that is not about to stop stays as it is.
Stays(profile) == cli.session = "none" /\ cli.at = profile /\ cli.lan = profile /\ ~cli.stop

\* Without room, the control task did not take the command in time.
ChangeTo(task) ==
    /\ Does(task, "client")
    /\ IF Stays(Argument(task)) THEN UNCHANGED <<svc, ctl>>
       ELSE /\ ctl' = IF Room THEN [ctl EXCEPT !.queue = Append(@, Argument(task))]
                      ELSE [ctl EXCEPT !.deaf = TRUE]
            /\ svc' = IF Room THEN svc ELSE [svc EXCEPT !.state = "ERROR"]
    /\ Then(task, <<>>)
    /\ UNCHANGED <<cli, client>>

EndClient(task) ==
    /\ Does(task, "end")
    /\ ctl' = IF Room THEN [ctl EXCEPT !.queue = Append(@, "stop")]
              ELSE [ctl EXCEPT !.deaf = TRUE]
    /\ Then(task, IF Room THEN << <<"ended">> >> ELSE <<>>)
    /\ UNCHANGED <<svc, cli, client>>

Ended(task) ==
    /\ Does(task, "ended")
    /\ cli' = [cli EXCEPT !.stop = TRUE]
    /\ Then(task, <<>>)
    /\ UNCHANGED <<svc, ctl, client>>

-------------------------------------------------------------------------------
(* The control task.                                                              *)

\* stopClient(), which waits for the client's task, and reports nothing.
TakeCommand ==
    /\ ctl.queue # <<>> /\ ctl.next = None /\ client = "idle"
    /\ LET command == Head(ctl.queue)
       IN  /\ ctl' = [ctl EXCEPT !.queue = Tail(@),
                                 !.next = IF command = "stop" THEN None ELSE command]
           /\ cli' = [cli EXCEPT !.at = None, !.session = "none",
                                 !.stop = @ /\ command # "stop"]
    /\ UNCHANGED <<svc, client, todo>>

\* startClient(): the client is there before its session says so.
InitClient ==
    /\ ctl.next # None /\ cli.at = None
    /\ cli' = [cli EXCEPT !.at = ctl.next, !.lan = ctl.next]
    /\ UNCHANGED <<svc, ctl, client, todo>>

StartClient ==
    /\ ctl.next # None /\ cli.at # None
    /\ ctl' = [ctl EXCEPT !.next = None]
    /\ cli' = [cli EXCEPT !.session = "starting"]
    /\ UNCHANGED <<svc, client, todo>>

ControlTask == TakeCommand \/ InitClient \/ StartClient

-------------------------------------------------------------------------------
(* The client's task: mqttEvent() and what the service does of it.                *)

Runs == client = "idle" /\ cli.session \in {"starting", "down", "up"}

ClientConnects ==
    /\ Runs /\ cli.session # "up" /\ drv.link = "up"
    /\ cli' = [cli EXCEPT !.session = "up", !.errors = IF svc.enabled THEN 0 ELSE @]
    /\ client' = IF svc.enabled /\ cli.lan = svc.profile THEN "connected" ELSE "idle"
    /\ UNCHANGED <<svc, ctl, todo>>

Connected ==
    /\ client = "connected" /\ client' = "idle"
    /\ svc' = [svc EXCEPT !.state = "CONNECTED"]
    /\ UNCHANGED <<cli, ctl, todo>>

ClientLosesSession ==
    /\ Runs /\ cli.session = "up"
    /\ cli' = [cli EXCEPT !.session = "down"]
    /\ client' = IF svc.enabled THEN "disconnected" ELSE "idle"
    /\ UNCHANGED <<svc, ctl, todo>>

Disconnected ==
    /\ client = "disconnected" /\ client' = "idle"
    /\ svc' = [svc EXCEPT !.state = IF IpUp THEN "CONNECTING" ELSE "STARTING"]
    /\ UNCHANGED <<cli, ctl, todo>>

\* Every second error counts, whether the service is enabled or not.
ClientErrs ==
    /\ Runs /\ cli.session # "up"
    /\ cli' = [cli EXCEPT !.errors = 1 - @]
    /\ svc' = IF cli.errors = 1 THEN [svc EXCEPT !.state = "ERROR"] ELSE svc
    /\ UNCHANGED <<ctl, client, todo>>

MqttStep(task) ==
    \/ ToldOfStation(task) \/ EnableMqtt(task) \/ ConnectIfUp(task) \/ DisableMqtt(task)
    \/ ChangeTo(task) \/ EndClient(task) \/ Ended(task)

MqttInit ==
    /\ svc = [enabled |-> FALSE, state |-> "STOPPED", profile |-> "remote"]
    /\ cli = [at |-> None, lan |-> "local", session |-> "none", stop |-> FALSE, errors |-> 0]
    /\ ctl = [queue |-> <<>>, next |-> None, deaf |-> FALSE]
    /\ client = "idle"
===============================================================================
