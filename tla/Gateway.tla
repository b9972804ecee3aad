-------------------------------- MODULE Gateway --------------------------------
(* The gateway among its device, its broker and another gateway.  What these do   *)
(* to it is an event; a behaviour has as many of them, and of the kinds, as its   *)
(* scenario says, at any moment.                                                  *)
EXTENDS NightMareGateway, FiniteSets

Quiet == UNCHANGED <<g, seen, events>>

-------------------------------------------------------------------------------
(* The broker.                                                                   *)

\* What a client published is retained, and goes to this gateway unless it is its own.
Retain(m, from, missed) ==
    b' = IF m.topic = "device" THEN [b EXCEPT !.device = m.value, !.by = from,
                                              !.replay = @ \ {"device"}]
         ELSE [b EXCEPT ![m.topic] = m.value, !.replay = @ \ {m.topic}, !.missed = missed]

\* All that is retained and was not published by this gateway is replayed.
Subscribed ==
    b' = [b EXCEPT !.subscribed = TRUE, !.missed = FALSE,
                   !.replay = {t \in Peers : b[t] # None}
                              \cup {t \in {"device"} : b.by = "them"}]

BrokerTakes ==
    /\ Acknowledged
    /\ IF Head(wire) = All THEN Subscribed ELSE Retain(Head(wire), "us", b.missed)
    /\ UNCHANGED <<pub, inbound, peer>> /\ Quiet

Replay(t) ==
    /\ t \in b.replay
    /\ b' = [b EXCEPT !.replay = @ \ {t}, !.missed = Missed(Message(t, b[t]))]
    /\ Deliver(Message(t, b[t]))
    /\ UNCHANGED <<mq, pub, wire, peer>> /\ Quiet

\* The session at the broker ends, with the last will or by a DISCONNECT.
Unsubscribed(status) == [b EXCEPT !.subscribed = FALSE, !.replay = {}, !.status = status]

Connects ==
    /\ Connected
    /\ UNCHANGED <<inbound, b, peer>> /\ Quiet

ConnectionLost ==
    /\ Happens("cut") /\ Disconnected
    /\ b' = Unsubscribed("off")
    /\ UNCHANGED <<pub, g, inbound, peer, seen>>

\* esp-mqtt gives up on a publication; what was retained by it is not there.
Expires ==
    /\ Happens("expiry") /\ Deleted
    /\ seen' = [seen EXCEPT !.lost = @ \/ Head(wire).topic = "device"]
    /\ UNCHANGED <<pub, g, inbound, b, peer>>

\* Someone else clears a topic, or publishes a status of the device.
Publishes(m) ==
    /\ Retain(m, "them", Missed(m)) /\ Deliver(m)
    /\ seen' = [seen EXCEPT !.latest = @ /\ m.topic # "device"]
    /\ UNCHANGED <<mq, pub, wire, g>>

SomeoneClears(t) == Happens("clear") /\ Publishes(Message(t, None)) /\ UNCHANGED peer

SomeoneSays(value) ==
    Happens("other") /\ Publishes(Message("device", value)) /\ UNCHANGED peer

-------------------------------------------------------------------------------
(* The publisher task, with what it asks of the gateway.                          *)

Around == <<inbound, b, peer>>

\* The setup publishes the vault as it is by now, which makes up for what was not
\* sent, unless an older publication is still queued behind it.
TakesNext ==
    /\ TakeNext(VaultDocuments)
    /\ LET remains == pub'.at # "vault" \/ Queued("device")
       IN  seen' = [seen EXCEPT !.lost = @ /\ remains, !.behind = @ /\ remains]
    /\ UNCHANGED <<Around, g, events>>

\* A message in hand that is not sent is not tried again.
Loses == seen' = [seen EXCEPT !.lost = @ \/ (pub.at = "send" /\ pub.hand.topic = "device")]

PublisherSends == PublisherPublishes(TRUE) /\ UNCHANGED Around /\ Quiet

PublisherRefused ==
    /\ PublisherPublishes(FALSE)
    /\ IF mq.connected THEN Happens("refusal") ELSE UNCHANGED events
    /\ Loses /\ UNCHANGED <<Around, g>>

PublisherWaits == PublisherClaims /\ UNCHANGED Around /\ Quiet

PublisherLosesPatience ==
    /\ IF mq.connected THEN Happens("refusal") ELSE UNCHANGED events
    /\ PublisherGivesUp(FALSE)
    /\ Loses /\ UNCHANGED <<Around, g>>

SetupContinues == VaultSent(OwnDocuments) /\ UNCHANGED Around /\ Quiet

\* The session may be another by now than the one it asked for last (line 471).
Subscribes ==
    /\ SubscribeToEverything
    /\ seen' = [seen EXCEPT !.hasty = @ \/ (mq.connected /\ ~pub.same)]
    /\ UNCHANGED <<Around, g, events>>

\* What was sent is noted by this task, not by the gateway's.
NotesOwn ==
    /\ OwnSent
    /\ g' = [g EXCEPT !.network = pub.own[2].value, !.clients = pub.own[3].value]
    /\ UNCHANGED <<Around, seen, events>>

GivesSessionUp ==
    /\ DropConnection
    /\ b' = IF mq.connected THEN Unsubscribed(b.status) ELSE b
    /\ UNCHANGED <<inbound, peer>> /\ Quiet

PublisherTask ==
    \/ TakesNext \/ PublisherSends \/ PublisherRefused \/ PublisherWaits
    \/ PublisherLosesPatience \/ SetupContinues \/ Subscribes \/ NotesOwn \/ GivesSessionUp

-------------------------------------------------------------------------------
(* The gateway task, with its device, its commands and its clock.                 *)

\* esp_mqtt_client_stop(): the broker takes what was sent, and then a DISCONNECT.
Halt ==
    /\ g.at = "halt" /\ wire = <<>> /\ StopClient
    /\ g' = [g EXCEPT !.at = "discard"]
    /\ b' = IF mq.connected THEN Unsubscribed(b.status) ELSE b
    /\ UNCHANGED <<pub, inbound, peer, seen, events>>

StopRefused ==
    IF mq.connected
    THEN Happens("refusal") /\ (StopPublishes(FALSE) \/ StopGivesUp(FALSE))
    ELSE UNCHANGED events /\ (StopPublishes(FALSE) \/ StopGivesUp(TRUE))

GatewayTask ==
    \/ StartEspNow \/ StartMqtt \/ StopServices \/ StopClaims
    \/ StopPublishes(TRUE) /\ UNCHANGED events
    \/ StopRefused \/ Halt \/ Discard \/ StartAgain
    \/ PauseOrResume \/ RefreshSnapshot \/ DrainInbound
    \/ ProjectClients \/ Reassert \/ ProjectNetwork

Commanded(kind, h) ==
    /\ Happens(kind) /\ g' = h
    /\ UNCHANGED <<mq, pub, wire, inbound, b, peer, seen>>

\* GATEWAY ENABLE, DISABLE, and ESPNOW PAUSE, RESUME.
Enable(on) == g.enabled # on /\ Commanded("switch", [g EXCEPT !.enabled = on])
Pause(on) == g.pause # on /\ Commanded("pause", [g EXCEPT !.pause = on])

\* A minute is longer than what is queued takes to be sent.
MinutePasses ==
    /\ "minute" \in events.kinds
    /\ g.at = "run" /\ b.subscribed /\ ~g.due
    /\ pub.at = "idle" /\ mq.queue = <<>> /\ wire = <<>>
    /\ g' = [g EXCEPT !.due = TRUE]
    /\ UNCHANGED <<mq, pub, wire, inbound, b, peer, seen, events>>

Serves == g.at = "run" /\ g.espnow /\ ~g.paused

Session(from, to) ==
    /\ Serves /\ g.device \in from /\ Happens("device")
    /\ g' = [g EXCEPT !.device = to]
    /\ UNCHANGED <<mq, pub, wire, inbound, b, peer, seen>>

\* What a device publishes, or its last will, kept and passed on.
FromDevice(value, device) ==
    /\ Serves /\ g.device = "named" /\ Happens("device")
    /\ g' = [g EXCEPT !.vault = Vault(value, "local"), !.device = device]
    /\ SendRemote(Message("device", value))
    /\ UNCHANGED <<pub, wire, inbound, b, peer>>

\* A session is usable, then named by its last will, paused by another handshake
\* of its device, and ends by a DISCONNECT or in silence.
Device ==
    \/ Session({"gone", "paused"}, "joined")
    \/ Session({"joined"}, "named")
    \/ Session({"named"}, "paused") \/ Session({"paused"}, "named")
    \/ Session({"joined", "named"}, "gone")
    \/ \E value \in {"on", "off"} : FromDevice(value, "named")
    \/ FromDevice("off", "gone")

-------------------------------------------------------------------------------
(* The other gateway, where the device may be listed as well.                    *)

Unmoved == UNCHANGED <<mq, pub, wire, g, seen>>
Generation == peer.generation

PeerSays(m, p) == Publishes(m) /\ peer' = p

PeerConnects ==
    /\ Happens("peer") /\ ~peer.up
    /\ PeerSays(Message("peer", <<Generation, TRUE>>), [peer EXCEPT !.up = TRUE, !.owes = TRUE])

PeerLists ==
    /\ peer.up /\ peer.owes
    /\ PeerSays(Message("peerClients", <<Generation, peer.listed>>), [peer EXCEPT !.owes = FALSE])
    /\ UNCHANGED events

PeerDevice ==
    /\ Happens("peer device") /\ peer.up
    /\ \/ peer.listed = "gone" /\ PeerSays(Message("device", "on"),
                                            [peer EXCEPT !.listed = "named", !.owes = TRUE])
       \/ peer.listed = "named" /\ PeerSays(Message("device", "off"),
                                            [peer EXCEPT !.listed = "gone", !.owes = TRUE])

PeerLost ==
    /\ Happens("peer") /\ peer.up
    /\ PeerSays(Message("peer", <<Generation, FALSE>>), [peer EXCEPT !.up = FALSE, !.owes = FALSE])

\* Another boot, which may connect before the broker notices the end of the last.
PeerReboots ==
    /\ Happens("peer reboot") /\ Generation = 1
    /\ peer' = [generation |-> 2, up |-> FALSE, listed |-> "gone", owes |-> FALSE,
                late |-> IF peer.up THEN Generation ELSE None]
    /\ UNCHANGED <<inbound, b>> /\ Unmoved

LateWill ==
    /\ peer.late # None
    /\ PeerSays(Message("peer", <<peer.late, FALSE>>), [peer EXCEPT !.late = None])
    /\ UNCHANGED events

Environment ==
    \/ BrokerTakes \/ \E t \in b.replay : Replay(t)
    \/ Connects \/ ConnectionLost \/ Expires
    \/ \E t \in {"status", "network"} : SomeoneClears(t)
    \/ \E value \in {"on", "off"} : SomeoneSays(value)
    \/ \E on \in BOOLEAN : Enable(on) \/ Pause(on)
    \/ MinutePasses \/ Device
    \/ PeerConnects \/ PeerLists \/ PeerDevice \/ PeerLost \/ PeerReboots \/ LateWill

Next == PublisherTask \/ GatewayTask \/ Environment

\* The tasks run, the broker answers and the network comes back.
Spec ==
    /\ Init /\ [][Next]_vars
    /\ WF_vars(PublisherTask)
    /\ WF_vars(StartEspNow) /\ WF_vars(StartMqtt) /\ WF_vars(DrainInbound)
    /\ WF_vars(ProjectClients) /\ WF_vars(Reassert) /\ WF_vars(ProjectNetwork)
    /\ WF_vars(RefreshSnapshot) /\ WF_vars(PauseOrResume)
    /\ WF_vars(BrokerTakes) /\ WF_vars(Connects) /\ WF_vars(MinutePasses)
-------------------------------------------------------------------------------
Still ==
    /\ g.at = "run" /\ b.subscribed /\ pub.at = "idle" /\ ~mq.pending
    /\ mq.queue = <<>> /\ wire = <<>>

\* The slots that are counted are those of publications under way: the window
\* never fills for good.
NoSlotLeaks ==
    mq.connected =>
        mq.inflight <= Cardinality({i \in DOMAIN wire : wire[i] # All}) + Cardinality(mq.claimed)

\* Once nothing is under way the broker retains what a device published here, unless
\* someone else wrote the topic since.
BrokerAgrees ==
    Still /\ g.vault # None /\ g.vault.from = "local" =>
        b.by = "them" \/ b.device = g.vault.value

\* That is so whatever connections were lost meanwhile: unless a publication was dropped
\* for want of room or given up by the client, or one that was made without a connection
\* is behind an older one that was queued still.
VaultReachesBroker == seen.lost \/ seen.behind \/ BrokerAgrees

\* What is published through the window arrives, and the window stays open.
PublicationsArrive == NoSlotLeaks /\ VaultReachesBroker

\* The last wills of another gateway's clients are applied once before its status
\* is online again.
RecoveredOnce == seen.wills <= 1

\* Once all is handled that the broker has of the other gateway, and that is its end
\* and the clients it had then, their wills have been applied.  Excused: a message about
\* it that found no room, and an end of another life than the one that was last known,
\* of which no online status was heard; the code does not believe that (line 125).
Informed ==
    /\ b.subscribed /\ ~b.missed /\ b.replay \cap Peers = {}
    /\ \A i \in DOMAIN inbound : inbound[i].topic \notin Peers
Ended(n) == b.peer = <<n, FALSE>> /\ \E s \in {"gone", "named"} : b.peerClients = <<n, s>>
NoneForgotten ==
    Informed => \A n \in {1, 2} : Ended(n) /\ g.peer.generation \in {None, n} => g.peer.applied

\* They are those of the clients of a generation that was said to be offline since
\* a status was last online, and that one was of the same generation: an offline
\* status of an older one does nothing.  They take effect unless the device is here.
RecoversTheLost ==
    [][seen'.wills > seen.wills =>
         /\ g'.peer.snapshot \in seen'.gone
         /\ seen.online \in {None, g'.peer.snapshot}
         /\ g'.peer.clients = "named" /\ g.device # "named" => g'.vault = Vault("off", "remote")]_vars

\* Wills of clients that were lost with their gateway are recovered, once, and no others.
WillsAreRecovered == [](RecoveredOnce /\ NoneForgotten) /\ RecoversTheLost

\* "Publishes the gateway's retained truth, and only then subscribes so the broker's
\* retained replay can't overwrite it": what the broker is about to replay of a device
\* is not older than what the device said here last, unless it said that while the
\* setup was under way, and it is on its way to the broker.  Excused: a publication
\* that was dropped, and a setup that subscribed in a later session than its own.
OnItsWay(m) ==
    \/ \E i \in DOMAIN mq.queue : mq.queue[i] = m
    \/ pub.hand = m
    \/ \E i \in DOMAIN wire : wire[i] = m
TruthGoesFirst ==
    "device" \in b.replay /\ seen.latest /\ OwnedHere(g.vault) =>
        seen.lost \/ seen.hasty \/ OnItsWay(Message("device", g.vault.value))

\* A gateway that stays connected is subscribed, and its own presence is retained,
\* though someone clears it.
StaysPresent ==
    <>[](g.at = "run" /\ mq.connected) =>
        <>[](b.subscribed /\ b.status = "on" /\ b.network = Network)

===============================================================================
