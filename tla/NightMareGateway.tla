---------------------------- MODULE NightMareGateway ----------------------------
(* Gateway/NightMareGateway.cpp: the gateway between its ESP-NOW devices and an  *)
(* MQTT broker, with GatewayState (what it says of itself) and GatewayRecovery   *)
(* (what it knows of another gateway).                                           *)
(*                                                                            *)
(* One device, known by the status topic it publishes on, may be connected here, *)
(* at the other gateway, or at neither.  A pass of the gateway task is made of    *)
(* its parts, each an action: they repeat for ever, each may find nothing to do,  *)
(* and the other tasks run between them.                                          *)
EXTENDS EspMqtt

CONSTANTS
    InboundDepth,    \* INBOUND_QUEUE_DEPTH
    Scenarios        \* the kinds of events that happen together, and how many happen

ASSUME GatewayAssumption ==
    /\ InboundDepth \in Nat
    /\ None \notin Nat    \* a generation is a number
    /\ None \notin [topic : {"device"}, value : {"on", "off"}]    \* and the marker no status
    /\ None \notin (Nat \X BOOLEAN) \cup (Nat \X {"gone", "named"})    \* of a device or a gateway

VARIABLES
    g,          \* the gateway task, its vault and what it last published
    inbound,    \* what arrived from the broker and was not handled
    b,          \* the broker: what is retained by topic, and the subscription
    peer,       \* the other gateway
    seen,       \* history: a drop nobody made up for, or a status left unsent behind an
                \* older one; a subscription in a session whose vault was not sent; whether
                \* the device was the last to say its status; the other's statuses and wills
    events      \* the scenario, and how many events are left of it

vars == <<mq, pub, wire, g, inbound, b, peer, seen, events>>

Recovery == INSTANCE GatewayRecovery

Own == {"status", "network", "clients"}
Peers == {"peer", "peerClients"}

\* What an earlier life of the gateway left: its own topics, and the device's status,
\* published by this gateway or by someone else.  The device may have gone over to the
\* other gateway since, or be here before the gateway has a broker.
Init ==
    LET there == "peer before" \in events.kinds
        here == "device before" \in events.kinds
        device == IF here THEN "named" ELSE "gone"
    IN
    /\ ClientInit
    /\ events \in Scenarios
    /\ g = [at |-> IF here THEN "run" ELSE "wait", enabled |-> TRUE, espnow |-> here,
            pause |-> FALSE, paused |-> FALSE, device |-> device, listed |-> device, vault |-> None,
            clients |-> None, network |-> None, stale |-> FALSE, due |-> FALSE,
            peer |-> Recovery!Unknown]
    /\ inbound = <<>>
    /\ \E by \in (IF there THEN {"us"} ELSE IF here THEN {"them"} ELSE {"us", "them"}) :
         b = [status |-> "old", network |-> "old", clients |-> "old", device |-> "on", by |-> by,
              peer |-> IF there THEN <<1, TRUE>> ELSE None,
              peerClients |-> IF there THEN <<1, "named">> ELSE None,
              subscribed |-> FALSE, replay |-> {}, missed |-> FALSE]
    /\ peer = [generation |-> 1, up |-> there, listed |-> IF there THEN "named" ELSE "gone",
               owes |-> FALSE, late |-> None]
    /\ seen = [lost |-> FALSE, behind |-> FALSE, hasty |-> FALSE, latest |-> FALSE,
               online |-> None, gone |-> {}, wills |-> 0]

Happens(kind) ==
    /\ kind \in events.kinds /\ events.left > 0
    /\ events' = [events EXCEPT !.left = @ - 1]

Message(topic, value) == [topic |-> topic, value |-> value]

\* The broker has a message for this gateway, which drops it if it has no room.
Deliver(m) ==
    inbound' = IF b.subscribed /\ Len(inbound) < InboundDepth THEN Append(inbound, m) ELSE inbound

\* History: since it subscribed, a message about the other gateway was dropped.
Missed(m) == b.missed \/ (b.subscribed /\ Len(inbound) >= InboundDepth /\ m.topic \in Peers)

-------------------------------------------------------------------------------
(* GatewayState: the documents the gateway publishes of itself.                  *)

Network == IF g.espnow THEN "beacon" ELSE "silent"

OwnDocuments ==
    <<Message("status", "on"), Message("network", Network), Message("clients", g.listed)>>

-------------------------------------------------------------------------------
(* The vault, and the routing of onMessage().                                    *)

Vault(value, from) == IF value = None THEN None ELSE [value |-> value, from |-> from]

\* Mutant: the wrong direction.
Foreign(entry) == entry # None /\ entry.from = "remote"

OwnedHere(entry) == entry # None /\ entry.from = "local"

\* What mqtt_prepare_session() publishes first.
VaultDocuments ==
    IF OwnedHere(g.vault) THEN <<Message("device", g.vault.value)>> ELSE <<>>

\* sendRemote(): only with a connection, and only if the queue has room.  What is not
\* sent for want of a connection is in the vault, but an older one may be queued still.
SendRemote(m) ==
    /\ IF mq.connected THEN Queue(m) ELSE UNCHANGED mq
    /\ seen' = [seen EXCEPT !.lost = @ \/ (mq.connected /\ ~HasRoom),
                            !.behind = @ \/ (~mq.connected /\ Queued(m.topic)),
                            !.latest = TRUE]

\* espBroker_connectedDeviceNamed()
ConnectedHere == g.device = "named"

\* A status from the broker, also a will recovered from another gateway.
StatusFromBroker(vault, value) == IF ConnectedHere THEN vault ELSE Vault(value, "remote")

\* What is heard of the other gateway, with the wills that are due.
OtherGateway(entry, wills) ==
    /\ g' = [g EXCEPT !.peer = entry,
                      !.vault = IF wills THEN StatusFromBroker(@, "off") ELSE @]

Cleared == g' = [g EXCEPT !.stale = TRUE]

OnMessage(m) ==
    /\ CASE m.topic = "device" ->
              g' = [g EXCEPT !.vault = StatusFromBroker(@, m.value)] /\ UNCHANGED seen
         [] m.topic \in Own -> Cleared /\ UNCHANGED seen
         [] m.topic = "peerClients" ->
              LET due == Recovery!DueByClients(g.peer, m.value[1])
                  will == due /\ m.value[2] = "named"
              IN  /\ OtherGateway(Recovery!HeardClients(g.peer, m.value[1], m.value[2]), will)
                  /\ seen' = [seen EXCEPT !.wills = IF due THEN @ + 1 ELSE @]
         [] m.topic = "peer" ->
              LET due == Recovery!DueByStatus(g.peer, m.value[1], m.value[2])
                  will == due /\ g.peer.clients = "named"
              IN  /\ OtherGateway(Recovery!HeardStatus(g.peer, m.value[1], m.value[2]), will)
                  /\ seen' = IF m.value[2]
                              THEN [seen EXCEPT !.online = m.value[1], !.gone = {}, !.wills = 0]
                              ELSE [seen EXCEPT !.gone = @ \cup {m.value[1]},
                                                !.wills = IF due THEN @ + 1 ELSE @]
    /\ UNCHANGED <<mq, pub, wire, b, peer, events>>

DrainInbound ==
    /\ g.at = "run" /\ inbound # <<>>
    /\ OnMessage(Head(inbound))
    /\ inbound' = Tail(inbound)

-------------------------------------------------------------------------------
(* gatewayStep(): the states of the gateway.                                     *)

Outside == <<b, peer>>

\* espBroker_init() and espBroker_resume(): the radio may refuse.
ComesUp(up) == IF up THEN UNCHANGED events ELSE Happens("radio")

\* ESP-NOW as soon as the radio runs; if it fails to come up the gateway runs without.
StartEspNow ==
    /\ g.at = "wait" /\ g.enabled
    /\ \E up \in BOOLEAN : ComesUp(up) /\ g' = [g EXCEPT !.at = "run", !.espnow = up]
    /\ UNCHANGED <<mq, pub, wire, inbound, seen, Outside>>

StartMqtt ==
    /\ g.at = "run" /\ StartClient
    /\ UNCHANGED <<pub, wire, g, inbound, seen, events, Outside>>

\* espBroker_shutdown(): the sessions are gone, and no will is published.
Silent(h) == [h EXCEPT !.espnow = FALSE, !.device = "gone", !.listed = "gone"]

\* stopServices(), up to the client of the broker.
StopServices ==
    /\ g.at \in {"wait", "run"} /\ ~g.enabled
    /\ g' = [Silent(g) EXCEPT !.at = IF mq.client # "started" THEN "discard"
                                     ELSE IF mq.connected THEN "offline" ELSE "halt",
                              !.pause = FALSE, !.paused = FALSE]
    /\ UNCHANGED <<mq, pub, wire, inbound, seen, events, Outside>>

\* mqtt_stop(): the offline status, on this task, and then the client.
StopClaims ==
    /\ g.at = "offline" /\ Claim("gateway")
    /\ UNCHANGED <<pub, g, inbound, seen, events, Outside>>

StopPublishes(taken) ==
    /\ g.at = "offline" /\ Publish("gateway", Message("status", "off"), taken)
    /\ g' = [g EXCEPT !.at = "halt"]
    /\ UNCHANGED <<pub, inbound, seen, Outside>>

StopGivesUp(patient) ==
    /\ g.at = "offline" /\ GivesUp("gateway", patient)
    /\ g' = [g EXCEPT !.at = "halt"]
    /\ UNCHANGED <<pub, inbound, seen, Outside>>

Discard ==
    /\ g.at = "discard" /\ inbound' = <<>>
    /\ g' = [g EXCEPT !.at = "off"]
    /\ UNCHANGED <<mq, pub, wire, seen, events, Outside>>

StartAgain ==
    /\ g.at = "off" /\ g.enabled
    /\ g' = [g EXCEPT !.at = "wait"]
    /\ UNCHANGED <<mq, pub, wire, inbound, seen, events, Outside>>

\* serviceEspNow(): the pause that is asked for, and the end of it.  If ESP-NOW fails
\* to come back the pause is put back.
PauseOrResume ==
    /\ g.at = "run" /\ g.pause # g.paused
    /\ \E up \in BOOLEAN :
         /\ ComesUp(up) /\ (g.pause => up)
         /\ g' = IF g.pause THEN [Silent(g) EXCEPT !.paused = TRUE]
                 ELSE IF up THEN [g EXCEPT !.espnow = TRUE, !.paused = FALSE]
                 ELSE [g EXCEPT !.pause = TRUE]
    /\ UNCHANGED <<mq, pub, wire, inbound, seen, Outside>>

\* refreshSnapshot(): what others see of the sessions is a copy, made now and then.
RefreshSnapshot ==
    /\ "clients" \in events.kinds
    /\ g.at = "run" /\ g.espnow /\ ~g.paused /\ g.listed # g.device
    /\ g' = [g EXCEPT !.listed = g.device]
    /\ UNCHANGED <<mq, pub, wire, inbound, seen, events, Outside>>

-------------------------------------------------------------------------------
(* publishGatewayProjection(): what is queued counts as published.               *)

Projects(m) ==
    /\ g.at = "run" /\ mq.connected /\ HasRoom
    /\ Queue(m)
    /\ UNCHANGED <<pub, wire, inbound, seen, events, Outside>>

ProjectClients ==
    /\ g.listed # g.clients /\ Projects(Message("clients", g.listed))
    /\ g' = [g EXCEPT !.clients = g.listed]

Reassert ==
    /\ g.stale \/ g.due
    /\ Projects(Message("status", "on"))
    /\ g' = [g EXCEPT !.stale = FALSE, !.due = FALSE, !.network = None]

ProjectNetwork ==
    /\ Network # g.network /\ Projects(Message("network", Network))
    /\ g' = [g EXCEPT !.network = Network]
===============================================================================
