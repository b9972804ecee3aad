-------------------------------- MODULE EspMqtt --------------------------------
(* Gateway/EspMqtt/espMqtt.cpp: the gateway's client of the MQTT broker.  The   *)
(* task of esp-mqtt reports events, the publisher task does everything that     *)
(* may block, and the gateway task only queues for it, except when it stops.    *)
(*                                                                            *)
(* A publication counts against the window from before it is made until its     *)
(* PUBACK; making it is therefore two steps, and a connection may go, or come   *)
(* back, between them.                                                          *)
EXTENDS Integers, Sequences

CONSTANTS
    Window,           \* MAX_INFLIGHT_PUBLISHES
    OutboundDepth,    \* OUTBOUND_QUEUE_DEPTH
    None              \* no message: the marker of a new session

VARIABLES
    mq,      \* the client, the outbound queue and the count of what is in flight
    pub,     \* where the publisher task is
    wire     \* what esp-mqtt took and the broker has not acknowledged, in order

All == [topic |-> "#", value |-> None]    \* the subscription, on its way to the broker

ClientInit ==
    /\ mq = [client |-> "none", connected |-> FALSE, pending |-> FALSE,
             inflight |-> 0, claimed |-> {}, queue |-> <<>>]
    /\ pub = [at |-> "idle", hand |-> None, todo |-> <<>>, own |-> None, same |-> TRUE]
    /\ wire = <<>>

HasRoom == mq.client # "none" /\ Len(mq.queue) < OutboundDepth

Queued(topic) == \E i \in DOMAIN mq.queue : mq.queue[i] # None /\ mq.queue[i].topic = topic

\* mqtt_publish(): a full queue drops the message.
Queue(m) == mq' = IF HasRoom THEN [mq EXCEPT !.queue = Append(@, m)] ELSE mq

-------------------------------------------------------------------------------
(* publish_paced(), for the publisher and for the gateway task that stops.      *)

Claim(task) ==
    /\ task \notin mq.claimed /\ mq.inflight < Window
    /\ mq' = [mq EXCEPT !.inflight = @ + 1, !.claimed = @ \cup {task}]
    /\ UNCHANGED wire

\* No ack in time, or no connection any more.
GivesUp(task, patient) ==
    /\ task \notin mq.claimed /\ mq.inflight >= Window
    /\ mq.connected => ~patient
    /\ UNCHANGED <<mq, wire>>

\* What is taken without a connection goes nowhere.
Publish(task, m, taken) ==
    /\ task \in mq.claimed
    /\ mq' = [mq EXCEPT !.claimed = @ \ {task}, !.inflight = IF taken THEN @ ELSE @ - 1]
    /\ wire' = IF taken /\ mq.connected THEN Append(wire, m) ELSE wire

-------------------------------------------------------------------------------
(* The events of esp-mqtt.                                                      *)

\* The marker is not queued if there is no room; what fills the queue wakes the
\* publisher as well.
Connected ==
    /\ mq.client = "started" /\ ~mq.connected
    /\ mq' = [mq EXCEPT !.connected = TRUE, !.pending = TRUE, !.inflight = 0,
                        !.queue = IF HasRoom THEN Append(@, None) ELSE @]
    /\ pub' = [pub EXCEPT !.same = FALSE]
    /\ wire' = <<>>

Disconnected ==
    /\ mq.connected
    /\ mq' = [mq EXCEPT !.connected = FALSE, !.inflight = 0]
    /\ wire' = <<>>

Freed == IF mq.inflight > 0 THEN mq.inflight - 1 ELSE mq.inflight

\* PUBLISHED: the broker has the oldest.  The subscription holds no slot.
Acknowledged ==
    /\ wire # <<>> /\ wire' = Tail(wire)
    /\ mq' = IF Head(wire) = All THEN mq ELSE [mq EXCEPT !.inflight = Freed]

SlotReturns == mq' = [mq EXCEPT !.inflight = Freed]

\* DELETED: esp-mqtt gave up on the oldest, which the broker never got.
Deleted ==
    /\ wire # <<>> /\ Head(wire) # All /\ wire' = Tail(wire)
    /\ SlotReturns

\* esp_mqtt_client_start(), the first time and again.
StartClient ==
    /\ mq.client # "started"
    /\ mq' = [mq EXCEPT !.client = "started"]

\* esp_mqtt_client_stop(): no event, and the count stays as it is.
StopClient ==
    /\ mq' = [mq EXCEPT !.client = "stopped", !.connected = FALSE]
    /\ wire' = <<>>

-------------------------------------------------------------------------------
(* publisher_task() and run_session_setup().  The owner says what the vault     *)
(* and the gateway's own topics hold when they are asked for.                   *)

\* To the message in hand, which is dropped if there is no connection.
Onward(p) ==
    [p EXCEPT !.todo = <<>>, !.own = None,
              !.at = IF p.hand # None /\ mq.connected THEN "send" ELSE "idle",
              !.hand = IF mq.connected THEN @ ELSE None]

\* Mutant: only the marker starts the setup of a session.
MarkerStarts == Head(mq.queue) = None /\ mq.pending

SetupDue == mq.pending

\* Mutant: the setup subscribes before it sends the vault.
SubscribeFirst(vault) ==
    /\ pub.at = "idle" /\ mq.queue # <<>>
    /\ mq' = [mq EXCEPT !.queue = Tail(@), !.pending = FALSE]
    /\ pub' = LET p == [pub EXCEPT !.hand = Head(mq.queue)]
              IN  IF SetupDue THEN [p EXCEPT !.at = "vault", !.todo = vault, !.same = TRUE]
                  ELSE Onward(p)
    /\ wire' = IF SetupDue /\ mq.connected THEN Append(wire, All) ELSE wire

\* The queue's next, and before it the session if there is a new one.
TakeNext(vault) ==
    /\ pub.at = "idle" /\ mq.queue # <<>>
    /\ mq' = [mq EXCEPT !.queue = Tail(@), !.pending = IF SetupDue THEN FALSE ELSE @]
    /\ pub' = LET p == [pub EXCEPT !.hand = Head(mq.queue)]
              IN  IF SetupDue THEN [p EXCEPT !.at = "vault", !.todo = vault, !.same = TRUE]
                  ELSE Onward(p)
    /\ UNCHANGED wire

Publishing == pub.at = "send" \/ (pub.at \in {"vault", "own"} /\ pub.todo # <<>>)

Outgoing == IF pub.at = "send" THEN pub.hand ELSE Head(pub.todo)

PublisherClaims == Publishing /\ Claim("publisher") /\ UNCHANGED pub

SameSession == pub.same /\ mq.connected

\* A setup that failed drops the connection, unless that is gone by itself.
Failed ==
    pub' = IF pub.at = "send" THEN [pub EXCEPT !.at = "idle", !.hand = None]
           ELSE IF SameSession THEN [pub EXCEPT !.at = "disconnect", !.todo = <<>>, !.own = None]
           ELSE Onward(pub)

PublisherPublishes(taken) ==
    /\ Publishing
    /\ Publish("publisher", Outgoing, taken)
    /\ IF ~taken THEN Failed
       ELSE pub' = IF pub.at = "send" THEN [pub EXCEPT !.at = "idle", !.hand = None]
                   ELSE [pub EXCEPT !.todo = Tail(@)]

PublisherGivesUp(patient) == Publishing /\ GivesUp("publisher", patient) /\ Failed

\* The vault is sent: the gateway's own topics, as they are by now.
VaultSent(own) ==
    /\ pub.at = "vault" /\ pub.todo = <<>>
    /\ pub' = [pub EXCEPT !.at = "own", !.todo = own, !.own = own]
    /\ UNCHANGED <<mq, wire>>

\* All is sent: what is subscribed to in the next step.
OwnSent ==
    /\ pub.at = "own" /\ pub.todo = <<>>
    /\ pub' = IF SameSession THEN [pub EXCEPT !.at = "subscribe", !.own = None] ELSE Onward(pub)
    /\ UNCHANGED <<mq, wire>>

SubscribeToEverything ==
    /\ pub.at = "subscribe"
    /\ wire' = IF mq.connected THEN Append(wire, All) ELSE wire
    /\ pub' = Onward(pub)
    /\ UNCHANGED mq

\* esp_mqtt_client_disconnect(), after which the message in hand is dropped.
DropConnection ==
    /\ pub.at = "disconnect"
    /\ IF mq.connected THEN Disconnected ELSE UNCHANGED <<mq, wire>>
    /\ pub' = [pub EXCEPT !.at = "idle", !.hand = None]
===============================================================================
