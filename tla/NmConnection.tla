---------------------------- MODULE NmConnection ----------------------------
(***************************************************************************)
(* The connection coordinator (Network/NmConnection.cpp) and the two       *)
(* services that feed it, Network/MQTT/NmMqttConnection.cpp and            *)
(* Network/EspNow/NmEspNowConnection.cpp: which transport carries the      *)
(* traffic, whether the owners of topics have subscribed on it, which      *)
(* state changes the application hears of, and the messages held back      *)
(* until there is a connection.                                            *)
(*                                                                         *)
(* None of it is behind one lock.  Three tasks run through it: the MQTT    *)
(* client's, the ESP-NOW worker and the application's loop.  What a task   *)
(* still has to do is todo[task], a sequence of steps; each step is one    *)
(* action, and between two steps of a task the others may do theirs.  A    *)
(* step reads or writes what the code reads or writes at once or within    *)
(* one critical section, except that reevaluateRouting's reads are one.    *)
(***************************************************************************)
EXTENDS Naturals, Sequences, SequencesExt, FiniteSets

CONSTANTS
    Messages,          \* what the application passes to PublishTextWhenConnected
    NoMessage,         \* an empty slot
    DeferredCapacity,  \* slots for messages that wait
    QueueDepth,        \* events the ESP-NOW worker's queue holds
    MaxSessions,       \* bound: sessions the drivers make
    MaxRequests,       \* bound: other requests than to enable or publish
    MaxOverlaps,       \* bound: times a task comes in while another is inside
    Preferences        \* bound: the preferences it sets

ASSUME NmConnectionAssumption ==
    /\ DeferredCapacity \in Nat \ {0} /\ QueueDepth \in Nat \ {0}
    /\ MaxSessions \in Nat /\ MaxRequests \in Nat /\ MaxOverlaps \in Nat
    /\ NoMessage \notin Messages
    /\ Preferences \subseteq {"AUTO", "MQTT", "ESP_NOW"}

Transports == {"MQTT", "ESP_NOW"}
ConnectionType == Transports \cup {"AUTO"}
ConnectivityState ==
    {"STOPPED", "STARTING", "CONNECTING", "CONNECTED", "SUSPENDED", "ERROR"}
Tasks == {"mqtt", "espnow", "loop"}
Slots == 1 .. DeferredCapacity

VARIABLES
    service,   \* per transport: enabled and state, as the service publishes them
    worker,    \* the ESP-NOW service: suspended, running, reported, its queue
    driver,    \* per transport: the client's session, and what is installed on it
    route,     \* preferred, selected, state; eligible: the gateway suits
    status,    \* per layer: the state last seen, the one the handler was told
    deferred,  \* the slots of the backlog
    todo,      \* per task: the steps left of what it is doing
    sent,      \* history: how often each message was published
    accepted,  \* history: messages the caller was told are sent or held
    sessions,  \* bound: sessions made or failed
    requests,  \* bound: requests made
    lost,      \* history: an event of the ESP-NOW client found the queue full
    overlaps   \* history and bound: times a task came in while another was inside

vars == <<service, worker, driver, route, status, deferred, todo,
          sent, accepted, sessions, requests, lost, overlaps>>

history == <<sent, accepted>>
bounds == <<sessions, requests>>

-----------------------------------------------------------------------------
(* Steps.  A step is a tuple: what to do, then what it needs to know.      *)

Reevaluate == << <<"decide">> >>
Report == << <<"look", "MQTT">>, <<"look", "ESP_NOW">> >>
Changed == Reevaluate \o Report
Flush == << <<"take", 1>> >>
FlushNext(i) == IF i < DeferredCapacity THEN << <<"take", i + 1>> >> ELSE <<>>
EndWorker == << <<"endClient">>, <<"stopWorker">>, <<"drain">> >>

Idle(task) == todo[task] = <<>>

\* The step a task does next is one of this kind.
Does(task, kind) == ~Idle(task) /\ Head(todo[task])[1] = kind

\* Nobody else is inside.
Alone(task) == \A other \in Tasks \ {task} : Idle(other)

\* The task goes on with these steps, and then with what it had left.
Then(task, steps) ==
    /\ todo' = [todo EXCEPT ![task] = steps \o Tail(@)]
    /\ UNCHANGED <<overlaps, lost>>

\* An idle task begins something.
Begins(task, steps) ==
    /\ Idle(task)
    /\ todo' = [todo EXCEPT ![task] = steps]
    /\ overlaps' = IF Alone(task) THEN overlaps ELSE overlaps + 1
    /\ overlaps' <= MaxOverlaps
    /\ UNCHANGED lost

Enters(t, state) == service' = [service EXCEPT ![t].state = state]

-----------------------------------------------------------------------------
(* Routing.                                                                *)

TransportUsable(t) ==
    t \in Transports /\ service[t].enabled /\ service[t].state = "CONNECTED"

\* ESP-NOW must lead to a gateway whose announcement suits, but only where
\* the MQTT service says what is needed.
RouteEligible(t) ==
    /\ TransportUsable(t)
    /\ t = "ESP_NOW" /\ service["MQTT"].enabled => route.eligible

\* Faulty: what carries the traffic stays, whatever is preferred.
ResolveSticky(preferred, current) ==
    LET eligible == {t \in {preferred} \cup Transports : RouteEligible(t)}
    IN  IF TransportUsable(current) THEN current
        ELSE IF preferred \in eligible THEN preferred
        ELSE IF eligible # {} THEN CHOOSE t \in eligible : TRUE
        ELSE "AUTO"

ResolveNetworkRoute(preferred, current) ==
    LET others == {t \in Transports \ {preferred} : RouteEligible(t)}
    IN  IF RouteEligible(preferred) THEN preferred
        ELSE IF TransportUsable(current) THEN current
        ELSE IF others = {} THEN "AUTO"
        ELSE IF "ESP_NOW" \in others THEN "ESP_NOW" ELSE "MQTT"

\* reevaluateRouting reads all it needs and resolves the route.
Decide(task) ==
    /\ Does(task, "decide")
    /\ Then(task, << <<"select",
                       ResolveNetworkRoute(route.preferred, route.selected)>> >>)
    /\ UNCHANGED <<service, worker, driver, route, status, deferred>>
    /\ UNCHANGED <<history, bounds>>

\* activate remembers what was selected and selects.
Select(task) ==
    /\ Does(task, "select")
    /\ LET target == Head(todo[task])[2]
       IN  /\ route' = [route EXCEPT !.selected = target]
           /\ Then(task, << <<"conclude", target,
                              target = route.selected /\ route.state = "CONNECTED">> >>)
    /\ UNCHANGED <<service, worker, driver, status, deferred, history, bounds>>

\* activate sets the state, and for a connection that is new notifies.
Conclude(task) ==
    /\ Does(task, "conclude")
    /\ LET step == Head(todo[task])
           connected == step[2] # "AUTO"
       IN  /\ route' = [route EXCEPT !.state =
                            IF connected THEN "CONNECTED" ELSE "STOPPED"]
           /\ Then(task, IF connected /\ ~step[3] THEN << <<"notify">> >> ELSE <<>>)
    /\ UNCHANGED <<service, worker, driver, status, deferred, history, bounds>>

-----------------------------------------------------------------------------
(* What a connection sets in motion.                                       *)

\* The driver the selected connection leads to takes what it is given.
Carries == /\ route.state = "CONNECTED" /\ route.selected \in Transports
           /\ driver[route.selected] # "down"

\* notifyConnectedOwners: every owner subscribes on the selected transport;
\* the drivers keep no subscription of an earlier session.
Notify(task) ==
    /\ Does(task, "notify")
    /\ driver' = IF Carries THEN [driver EXCEPT ![route.selected] = "subscribed"]
                            ELSE driver
    /\ Then(task, Flush)
    /\ UNCHANGED <<service, worker, route, status, deferred, history, bounds>>

\* flushDeferred, one slot: copy it under the lock,
FlushTake(task) ==
    /\ Does(task, "take")
    /\ LET i == Head(todo[task])[2]
       IN  Then(task, IF deferred[i] = NoMessage THEN FlushNext(i)
                                                 ELSE << <<"send", i, deferred[i]>> >>)
    /\ UNCHANGED <<service, worker, driver, route, status, deferred, history, bounds>>

\* Faulty: the slot is emptied whether it was published or not.
SendAndForget(task) ==
    /\ Does(task, "send")
    /\ LET step == Head(todo[task])
       IN  /\ Then(task, << <<"clear", step[2]>> >>)
           /\ sent' = [sent EXCEPT ![step[3]] = IF Carries THEN @ + 1 ELSE @]
    /\ UNCHANGED <<service, worker, driver, route, status, deferred, accepted, bounds>>

\* publish the copy without it, and give up if that fails,
FlushSend(task) ==
    /\ Does(task, "send")
    /\ LET step == Head(todo[task])
       IN  IF Carries
           THEN /\ Then(task, << <<"clear", step[2]>> >>)
                /\ sent' = [sent EXCEPT ![step[3]] = @ + 1]
           ELSE Then(task, <<>>) /\ UNCHANGED sent
    /\ UNCHANGED <<service, worker, driver, route, status, deferred, accepted, bounds>>

\* and empty the slot, whatever it holds by now.
FlushClear(task) ==
    /\ Does(task, "clear")
    /\ LET i == Head(todo[task])[2]
       IN  /\ deferred' = [deferred EXCEPT ![i] = NoMessage]
           /\ Then(task, FlushNext(i))
    /\ UNCHANGED <<service, worker, driver, route, status, history, bounds>>

\* reportNetworkStatus, one layer: read its state,
Look(task) ==
    /\ Does(task, "look")
    /\ LET t == Head(todo[task])[2]
       IN  Then(task, << <<"tell", t, service[t].state>> >>)
    /\ UNCHANGED <<service, worker, driver, route, status, deferred, history, bounds>>

\* exchange it for the last, and call the handler if they differ.
Tell(task) ==
    /\ Does(task, "tell")
    /\ LET step == Head(todo[task])
       IN  status' = [status EXCEPT ![step[2]] =
               [last |-> step[3],
                told |-> IF step[3] # @.last THEN step[3] ELSE @.told]]
    /\ Then(task, <<>>)
    /\ UNCHANGED <<service, worker, driver, route, deferred, history, bounds>>

CoordinatorStep(task) ==
    \/ Decide(task) \/ Select(task) \/ Conclude(task) \/ Notify(task)
    \/ FlushTake(task) \/ FlushSend(task) \/ FlushClear(task)
    \/ Look(task) \/ Tell(task)

-----------------------------------------------------------------------------
(* The MQTT service, in the task of the MQTT client.                       *)

\* The client lives from Mqtt_enable to the end() of Mqtt_disable.
MqttClient == service["MQTT"].enabled \/ Contains(todo["loop"], <<"endMqtt">>)

MqttConnected ==
    /\ MqttClient /\ driver["MQTT"] = "down" /\ sessions < MaxSessions
    /\ sessions' = sessions + 1
    /\ driver' = [driver EXCEPT !["MQTT"] = "up"]
    /\ IF service["MQTT"].enabled
       THEN Enters("MQTT", "CONNECTED") /\ Begins("mqtt", Reevaluate \o Changed)
       ELSE Idle("mqtt") /\ UNCHANGED <<service, todo, overlaps, lost>>
    /\ UNCHANGED <<worker, route, status, deferred, history, requests>>

\* Faulty: the change is reported, and routing finds out at its next tick.
DisconnectedUnrouted ==
    /\ driver["MQTT"] # "down"
    /\ driver' = [driver EXCEPT !["MQTT"] = "down"]
    /\ IF service["MQTT"].enabled
       THEN Enters("MQTT", "CONNECTING") /\ Begins("mqtt", Report)
       ELSE Idle("mqtt") /\ UNCHANGED <<service, todo, overlaps, lost>>
    /\ UNCHANGED <<worker, route, status, deferred, history, bounds>>

MqttDisconnected ==
    /\ driver["MQTT"] # "down"
    /\ driver' = [driver EXCEPT !["MQTT"] = "down"]
    /\ IF service["MQTT"].enabled
       THEN Enters("MQTT", "CONNECTING") /\ Begins("mqtt", Reevaluate \o Changed)
       ELSE Idle("mqtt") /\ UNCHANGED <<service, todo, overlaps, lost>>
    /\ UNCHANGED <<worker, route, status, deferred, history, bounds>>

\* connectionError, the second in a row; it does not ask whether the service
\* is enabled.  The bound is that of sessions, one attempt spent.
MqttError ==
    /\ MqttClient /\ driver["MQTT"] = "down" /\ sessions < MaxSessions
    /\ sessions' = sessions + 1
    /\ Enters("MQTT", "ERROR") /\ Begins("mqtt", Reevaluate \o Changed)
    /\ UNCHANGED <<worker, driver, route, status, deferred, history, requests>>

\* end(): the control task stops the client and waits for its task; here the
\* loop, which goes on in the code, waits with it.
EndMqtt ==
    /\ Does("loop", "endMqtt") /\ Idle("mqtt")
    /\ driver' = [driver EXCEPT !["MQTT"] = "down"]
    /\ Then("loop", <<>>)
    /\ UNCHANGED <<service, worker, route, status, deferred, history, bounds>>

-----------------------------------------------------------------------------
(* The ESP-NOW service and its worker.                                     *)

\* post: an event that finds the queue full is dropped.
Room == Len(worker.events) < QueueDepth

Posted(event) == IF Room THEN [worker EXCEPT !.events = Append(@, event)] ELSE worker

\* The client's task reports what became of the session.  Of the states it
\* goes through on the way back only the first is an event here.
ClientConnected ==
    /\ worker.client /\ driver["ESP_NOW"] = "down" /\ sessions < MaxSessions
    /\ sessions' = sessions + 1
    /\ driver' = [driver EXCEPT !["ESP_NOW"] = "up"]
    /\ worker' = Posted("CONNECTED")
    /\ lost' = (lost \/ ~Room) /\ UNCHANGED overlaps
    /\ UNCHANGED <<service, route, status, deferred, todo, history, requests>>

ClientLost ==
    /\ worker.client /\ driver["ESP_NOW"] # "down"
    /\ driver' = [driver EXCEPT !["ESP_NOW"] = "down"]
    /\ worker' = Posted("SEARCHING")
    /\ lost' = (lost \/ ~Room) /\ UNCHANGED overlaps
    /\ UNCHANGED <<service, route, status, deferred, todo, history, bounds>>

\* handle: CONNECTED is believed whatever became of the service meanwhile.
HandleConnected ==
    /\ worker.running /\ worker.events # <<>> /\ Head(worker.events) = "CONNECTED"
    /\ worker' = [worker EXCEPT !.events = Tail(@), !.reported = TRUE]
    /\ Enters("ESP_NOW", "CONNECTED") /\ Begins("espnow", Reevaluate \o Changed)
    /\ UNCHANGED <<driver, route, status, deferred, history, bounds>>

\* handle: the disconnection is passed on before the state is set.
HandleOther ==
    /\ worker.running /\ worker.events # <<>> /\ Head(worker.events) # "CONNECTED"
    /\ worker' = [worker EXCEPT !.events = Tail(@), !.reported = FALSE]
    /\ Begins("espnow", (IF worker.reported THEN Reevaluate ELSE <<>>)
                        \o << <<"settle", Head(worker.events)>> >> \o Changed)
    /\ UNCHANGED <<service, driver, route, status, deferred, history, bounds>>

Settle ==
    /\ Does("espnow", "settle")
    /\ IF service["ESP_NOW"].enabled /\ ~worker.suspended
       THEN Enters("ESP_NOW", IF Head(todo["espnow"])[2] = "STOPPED"
                                THEN "ERROR" ELSE "CONNECTING")
       ELSE UNCHANGED service
    /\ Then("espnow", <<>>)
    /\ UNCHANGED <<worker, driver, route, status, deferred, history, bounds>>

\* begin(): an empty queue, the worker, the client; then the caller's state.
BeginWorker ==
    /\ Does("loop", "begin")
    /\ worker' = IF worker.running THEN worker
                 ELSE [worker EXCEPT !.running = TRUE, !.client = TRUE,
                                     !.reported = FALSE, !.events = <<>>]
    /\ Then("loop", << <<"connecting">> >>)
    /\ UNCHANGED <<service, driver, route, status, deferred, history, bounds>>

Connecting ==
    /\ Does("loop", "connecting")
    /\ Enters("ESP_NOW", "CONNECTING")
    /\ Then("loop", <<>>)
    /\ UNCHANGED <<worker, driver, route, status, deferred, history, bounds>>

\* end(): the client ends its session and says so,
EndClient ==
    /\ Does("loop", "endClient")
    /\ driver' = [driver EXCEPT !["ESP_NOW"] = "down"]
    /\ worker' = IF worker.client THEN [Posted("STOPPED") EXCEPT !.client = FALSE]
                                  ELSE worker
    /\ Then("loop", <<>>)
    /\ UNCHANGED <<service, route, status, deferred, history, bounds>>

\* the worker is told to leave,
StopWorker ==
    /\ Does("loop", "stopWorker")
    /\ worker' = [worker EXCEPT !.running = FALSE]
    /\ Then("loop", <<>>)
    /\ UNCHANGED <<service, driver, route, status, deferred, history, bounds>>

\* and, when it has left or is still in a handler after a second, what is in the queue is dropped.
Drain ==
    /\ Does("loop", "drain")
    /\ worker' = [worker EXCEPT !.events = <<>>]
    /\ Then("loop", <<>>)
    /\ UNCHANGED <<service, driver, route, status, deferred, history, bounds>>

-----------------------------------------------------------------------------
(* The application's loop.                                                 *)

Requests == requests < MaxRequests /\ requests' = requests + 1

\* ConnectionTick, on every turn of the loop.
ConnectionTick ==
    /\ Begins("loop", Reevaluate)
    /\ UNCHANGED <<service, worker, driver, route, status, deferred, history, bounds>>

MqttEnable ==
    /\ ~service["MQTT"].enabled
    /\ service' = [service EXCEPT !["MQTT"] = [enabled |-> TRUE, state |-> "CONNECTING"]]
    /\ Begins("loop", Changed)
    /\ UNCHANGED <<worker, driver, route, status, deferred, history, bounds>>

MqttDisable ==
    /\ Requests /\ service["MQTT"].enabled
    /\ service' = [service EXCEPT !["MQTT"] = [enabled |-> FALSE, state |-> "STOPPED"]]
    /\ Begins("loop", Reevaluate \o Changed \o << <<"endMqtt">> >>)
    /\ UNCHANGED <<worker, driver, route, status, deferred, history, sessions>>

EspNowEnable ==
    /\ ~service["ESP_NOW"].enabled
    /\ service' = [service EXCEPT !["ESP_NOW"] = [enabled |-> TRUE, state |-> "STARTING"]]
    /\ worker' = [worker EXCEPT !.suspended = FALSE]
    /\ Begins("loop", << <<"begin">> >> \o Changed)
    /\ UNCHANGED <<driver, route, status, deferred, history, bounds>>

EspNowDisable ==
    /\ Requests /\ service["ESP_NOW"].enabled
    /\ service' = [service EXCEPT !["ESP_NOW"] = [enabled |-> FALSE, state |-> "STOPPED"]]
    /\ worker' = [worker EXCEPT !.suspended = FALSE]
    /\ Begins("loop", Reevaluate \o Changed \o EndWorker)
    /\ UNCHANGED <<driver, route, status, deferred, history, sessions>>

\* A WiFi scan needs the radio.
EspNowSuspend ==
    /\ Requests /\ service["ESP_NOW"].enabled /\ ~worker.suspended
    /\ worker' = [worker EXCEPT !.suspended = TRUE]
    /\ Enters("ESP_NOW", "SUSPENDED") /\ Begins("loop", Changed \o EndWorker)
    /\ UNCHANGED <<driver, route, status, deferred, history, sessions>>

EspNowResume ==
    /\ service["ESP_NOW"].enabled /\ worker.suspended
    /\ worker' = [worker EXCEPT !.suspended = FALSE]
    /\ Enters("ESP_NOW", "STARTING") /\ Begins("loop", << <<"begin">> >> \o Changed)
    /\ UNCHANGED <<driver, route, status, deferred, history, bounds>>

\* changePreferredConnection routes by the value asked for; the setting has
\* that value only when it returns.
Prefer ==
    \E wanted \in Preferences :
        /\ Requests /\ wanted # route.preferred
        /\ Begins("loop", << <<"select", ResolveNetworkRoute(wanted, route.selected)>>,
                             <<"prefer", wanted>> >>)
        /\ UNCHANGED <<service, worker, driver, route, status, deferred, history, sessions>>

Preferred ==
    /\ Does("loop", "prefer")
    /\ route' = [route EXCEPT !.preferred = Head(todo["loop"])[2]]
    /\ Then("loop", <<>>)
    /\ UNCHANGED <<service, worker, driver, status, deferred, history, bounds>>

\* A gateway announces itself, or one of another network does, or is gone: a
\* message that the task of MQTT hands on while MQTT is active.
GatewayCandidate ==
    /\ Requests /\ route.selected = "MQTT" /\ driver["MQTT"] = "subscribed"
    /\ route' = [route EXCEPT !.eligible = ~@]
    /\ Begins("mqtt", Changed)
    /\ UNCHANGED <<service, worker, driver, status, deferred, history, sessions>>

\* PublishTextWhenConnected: at once if it can,
PublishWhenConnected ==
    \E m \in Messages \ accepted :
        /\ IF Carries
           THEN /\ sent' = [sent EXCEPT ![m] = @ + 1]
                /\ accepted' = accepted \cup {m}
                /\ Begins("loop", <<>>)
           ELSE Begins("loop", << <<"hold", m>> >>) /\ UNCHANGED history
        /\ UNCHANGED <<service, worker, driver, route, status, deferred, bounds>>

\* else into the first free slot, if there is one.
Hold ==
    /\ Does("loop", "hold")
    /\ LET m == Head(todo["loop"])[2]
           free == {i \in Slots : deferred[i] = NoMessage}
           first == CHOOSE i \in free : \A j \in free : i <= j
       IN  IF free = {} THEN UNCHANGED <<deferred, accepted>>
           ELSE /\ deferred' = [deferred EXCEPT ![first] = m]
                /\ accepted' = accepted \cup {m}
    /\ Then("loop", <<>>)
    /\ UNCHANGED <<service, worker, driver, route, status, sent, bounds>>

-----------------------------------------------------------------------------
\* Both services are enabled and ConnectionBegin has run.
NmConnectionInit ==
    /\ service = [t \in Transports |-> [enabled |-> TRUE, state |-> "CONNECTING"]]
    /\ worker = [suspended |-> FALSE, running |-> TRUE, client |-> TRUE,
                 reported |-> FALSE, events |-> <<>>]
    /\ driver = [t \in Transports |-> "down"]
    /\ route \in [preferred : Preferences, selected : {"AUTO"}, state : {"STOPPED"},
                  eligible : {FALSE}]
    /\ status = [t \in Transports |-> [last |-> "CONNECTING", told |-> "CONNECTING"]]
    /\ deferred = [i \in Slots |-> NoMessage]
    /\ todo = [task \in Tasks |-> <<>>]
    /\ sent = [m \in Messages |-> 0] /\ accepted = {}
    /\ sessions = 0 /\ requests = 0
    /\ lost = FALSE /\ overlaps = 0

Application ==
    \/ MqttEnable \/ MqttDisable \/ EspNowEnable \/ EspNowDisable
    \/ EspNowSuspend \/ EspNowResume \/ Prefer \/ GatewayCandidate
    \/ PublishWhenConnected

Drivers == MqttConnected \/ MqttDisconnected \/ MqttError \/ ClientConnected \/ ClientLost

LoopStep ==
    \/ CoordinatorStep("loop") \/ EndMqtt \/ BeginWorker \/ Connecting
    \/ EndClient \/ StopWorker \/ Drain \/ Preferred \/ Hold

WorkerStep == CoordinatorStep("espnow") \/ HandleConnected \/ HandleOther \/ Settle

NmConnectionNext ==
    \/ Drivers \/ Application \/ ConnectionTick
    \/ LoopStep \/ WorkerStep \/ CoordinatorStep("mqtt")

Spec == NmConnectionInit /\ [][NmConnectionNext]_vars

\* The loop keeps turning, and a task that is inside goes on.
FairSpec ==
    /\ Spec /\ WF_vars(ConnectionTick) /\ WF_vars(LoopStep)
    /\ WF_vars(WorkerStep) /\ WF_vars(CoordinatorStep("mqtt")) /\ WF_vars(EspNowResume)

-----------------------------------------------------------------------------
(* Properties.                                                             *)

NmConnectionTypeOK ==
    /\ service \in [Transports -> [enabled : BOOLEAN, state : ConnectivityState]]
    /\ worker.events \in Seq({"CONNECTED", "SEARCHING", "STOPPED"})
    /\ Len(worker.events) <= QueueDepth
    /\ driver \in [Transports -> {"down", "up", "subscribed"}]
    /\ route \in [preferred : ConnectionType, selected : ConnectionType,
                  state : {"STOPPED", "CONNECTED"}, eligible : BOOLEAN]
    /\ status \in [Transports -> [last : ConnectivityState, told : ConnectivityState]]
    /\ deferred \in [Slots -> Messages \cup {NoMessage}]

\* Nobody is inside and no event waits.
Quiet == (\A task \in Tasks : Idle(task)) /\ worker.events = <<>>

RouteIsRight ==
    /\ RouteEligible(route.preferred) => route.selected = route.preferred
    /\ route.selected # "AUTO" => TransportUsable(route.selected)
    /\ (\E t \in Transports : RouteEligible(t)) => route.selected # "AUTO"
    /\ (route.state = "CONNECTED") = (route.selected # "AUTO")

\* However the three tasks interleave, once the services stop changing the
\* route is the right one and stays: the preferred transport if it can be
\* used, no transport that cannot, none only if there is none.
RouteSettles == <>[]RouteIsRight

Orderly == overlaps = 0 /\ ~lost

\* If the tasks kept out of each other's way and no event was lost, then at
\* rest the owners have subscribed on the session that carries the traffic.
OwnersFollow ==
    Orderly /\ Quiet /\ Carries => driver[route.selected] = "subscribed"

\* Likewise the application was told the state each service is in.
StatusIsCurrent ==
    Orderly /\ Quiet => \A t \in Transports : status[t].told = service[t].state

\* What hangs on the coordinator has heard of the connection there is.
FollowersAgree == OwnersFollow /\ StatusIsCurrent

\* Likewise a message that was accepted is held, or was sent once.
HeldOrSent ==
    Orderly /\ Quiet => \A m \in accepted :
        sent[m] + Cardinality({i \in Slots : deferred[i] = m}) = 1
=============================================================================
