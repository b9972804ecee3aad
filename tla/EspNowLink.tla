------------------------------ MODULE EspNowLink ------------------------------
(* A station and the gateway: EspNowClient and EspBroker over the radio.      *)
(*                                                                            *)
(* A frame is lost, or decrypted and queued for the other task at once: a     *)
(* unicast frame is readable only if the receiver's peer entry holds the key  *)
(* the sender's holds (no key on both ends is plaintext); CONNECT is          *)
(* broadcast and always readable.  Both queues are first in, first out and    *)
(* drop what does not fit.                                                    *)
(*                                                                            *)
(* calm says that the trouble is over: from then on no frame is lost, the     *)
(* radio refuses nothing, nobody restarts, and answers arrive before the      *)
(* timeouts that wait for them.                                               *)
EXTENDS EspNowClient

CONSTANTS
    UplinkDepth,     \* the gateway's receive queue, 32
    ControlDepth,    \* the client's control queue, 8
    Trouble,         \* what may go wrong before calm
    Settles,         \* whether calm ever comes
    Application      \* what an application task does: "publish", "will", "suspend"

ASSUME LinkAssumption ==
    /\ UplinkDepth \in Nat \ {0} /\ ControlDepth \in Nat \ {0}
    /\ Trouble \subseteq {"loss", "reboot", "power"} /\ Settles \in BOOLEAN
    /\ Application \subseteq {"publish", "will", "suspend"}
    /\ MsgId \subseteq Nat /\ Nonce \subseteq Nat
    \* 2^16 and 2^64: more than can be in use at once, UsedIds and UsedNonces.
    /\ IsFiniteSet(MsgId) /\ Cardinality(MsgId) > 3 + UplinkDepth + ControlDepth
    /\ IsFiniteSet(Nonce) /\ Cardinality(Nonce) > 9 + 2 * (UplinkDepth + ControlDepth)

VARIABLES
    client,          \* EspNowClient's record
    task,            \* what the client task does next
    uplink, control, \* the gateway's receive queue, the client's control queue
    generation,      \* the gateway's boot
    captured,        \* the cid a publish() in progress read, 0 when there is none
    willing,         \* whether a setLastWill() in progress has stored the will
    calm

task_ == <<client, task>>
app == <<captured, willing>>
link == <<client, task, uplink, control, generation, captured, willing, calm>>
all == <<vars, link>>

LinkInit ==
    /\ Init
    /\ client = Off /\ task = "control"
    /\ uplink = <<>> /\ control = <<>>
    /\ generation = 1
    /\ captured = 0 /\ willing = FALSE
    /\ calm = (Trouble = {})

\* Unused anywhere, so that nothing stale can be taken for it: ids and nonces
\* come round again only after 2^16 and 2^64 uses.
UsedIds == {client.connectId, client.authId, client.pingId}
           \cup {uplink[i].id : i \in DOMAIN uplink} \cup {control[i].id : i \in DOMAIN control}
FreshId == CHOOSE i \in MsgId \ UsedIds : \A j \in MsgId \ UsedIds : i <= j

Carried(f) == IF f.type \in {"CONNECT", "CHALLENGE"} THEN {f.data}
              ELSE IF f.type = "AUTH" THEN {f.data[1], f.data[2]} ELSE {}
InKey(k) == IF k \in Key THEN {k[1], k[2]} ELSE {}
UsedNonces == {0, client.clientNonce, client.gatewayNonce} \cup NoncesInUse(Me) \cup InKey(client.key)
              \cup (UNION {Carried(uplink[i]) : i \in DOMAIN uplink})
              \cup (UNION {Carried(control[i]) : i \in DOMAIN control})
FreshNonce == CHOOSE n \in Nonce \ UsedNonces : \A m \in Nonce \ UsedNonces : n <= m

-------------------------------------------------------------------------------
(* The radio.                                                                 *)

Air(peer) == IF peer = NoPeer THEN Plain ELSE peer
Losses == IF calm \/ "loss" \notin Trouble THEN {FALSE} ELSE BOOLEAN

\* From the client's peer entry p to the gateway; sent is <<>> or one frame.
Readable(f, p) == f.type = "CONNECT" \/ Air(p) = Air(table.peers[Me])
ToGateway(sent, p) ==
    \E lost \in Losses :
      uplink' = IF /\ ~lost /\ up /\ Len(uplink) < UplinkDepth
                   /\ \A i \in DOMAIN sent : Readable(sent[i], p)
                THEN uplink \o sent ELSE uplink

\* From the gateway.  A handshake's own frames go out before a key is installed.
SentUnder(f) ==
    IF f.type \in {"CHALLENGE", "CONNACK"} \/ f.data = "AUTH_FAILED" THEN Plain
    ELSE Air(table.peers[Me])
ToClient(sent) ==
    \E lost \in Losses :
      control' = IF /\ ~lost /\ Len(control) < ControlDepth
                    /\ \A i \in DOMAIN sent :
                         /\ Hears(client, sent[i].type)
                         /\ sent[i].type = "BEACON" \/ SentUnder(sent[i]) = Air(client.key)
                 THEN control \o sent ELSE control

-------------------------------------------------------------------------------
(* The gateway task.                                                          *)

\* Once calm, the radio takes every frame and every key.
Works(f) ==
    calm => /\ f.type = "CONNECT" => HasPending(table', Me)
            /\ f.type = "AUTH" /\ HasPending(table, Me) /\ ProofOk(f)
                 => replies' # <<>> /\ replies'[1].type = "CONNACK" /\ HasSession(table', Me)

GatewayPacket ==
    /\ uplink # <<>>
    /\ HandlePacket(Head(uplink), FreshNonce)
    /\ Works(Head(uplink))
    /\ ToClient(replies')
    /\ uplink' = Tail(uplink)
    /\ UNCHANGED <<task_, generation, app, calm>>

GatewayExpire ==
    /\ ExpirePass
    /\ UNCHANGED link

\* Once calm, the station is heard within the gateway's timeouts: neither its
\* session nor the handshake it is about to finish runs out.
OnTheWay == uplink # <<>> \/ \E i \in DOMAIN control : control[i].type \in {"CHALLENGE", "CONNACK"}
Late(t) ==
    \/ \E d \in Gone(t) : d.cid = client.cid
    \/ OnTheWay /\ (TimedOut(t) # {} \/ Gone(t) # {})
Clock ==
    /\ Tick
    /\ calm => ~Late(table')
    /\ UNCHANGED link

Beacon ==
    /\ up
    /\ calm => control = <<>>
    /\ ToClient(<<[mac |-> Me, type |-> "BEACON", id |-> 0, cid |-> 0, data |-> generation]>>)
    /\ UNCHANGED <<vars, task_, uplink, generation, app, calm>>

\* The gateway is switched off and on again by command.
GatewayOff ==
    /\ ~calm /\ "power" \in Trouble
    /\ Shutdown
    /\ uplink' = <<>>
    /\ UNCHANGED <<task_, control, generation, app, calm>>
GatewayOn == Start /\ UNCHANGED link

\* The gateway restarts: a new boot, and nothing left of the old one.
GatewayReboot ==
    /\ ~calm /\ "reboot" \in Trouble
    /\ generation < MaxGeneration /\ generation' = generation + 1
    /\ table' = EmptyTable /\ up' = FALSE
    /\ frame' = NoFrame /\ replies' = <<>> /\ published' = {}
    /\ uplink' = <<>>
    /\ UNCHANGED <<task_, control, app, calm>>

-------------------------------------------------------------------------------
(* The client task: it empties its control queue, then runs the timer that is *)
(* due, if one is.  What arrives in between waits for the next pass.          *)

Does(r) == client' = r.c /\ ToGateway(r.out, r.c.key)

ClientControl ==
    /\ client.st # "STOPPED" /\ task = "control" /\ control # <<>>
    /\ \E ok \in (IF calm THEN {TRUE} ELSE BOOLEAN) :
         Does(HandleControl(client, Head(control), FreshNonce, FreshId, ok))
    /\ control' = Tail(control)
    /\ task' = IF Secures(client, Head(control)) THEN "connected" ELSE task
    /\ UNCHANGED <<vars, generation, app, calm>>
ClientConnected ==
    /\ client.st # "STOPPED" /\ task = "connected"
    /\ client' = EnterConnected(client) /\ task' = "control"
    /\ UNCHANGED <<vars, uplink, control, generation, app, calm>>

\* The queue is empty on a pass with a timer due.
ClientDrained ==
    /\ client.st # "STOPPED" /\ task = "control" /\ control = <<>>
    /\ calm => uplink = <<>>
    /\ task' = "timers"
    /\ UNCHANGED <<vars, client, uplink, control, generation, app, calm>>
ClientTimer ==
    /\ client.st # "STOPPED" /\ task = "timers" /\ task' = "control"
    /\ Does(RunTimers(client, FreshNonce, FreshId))
    /\ UNCHANGED <<vars, control, generation, app, calm>>
ClientBackoffOver ==
    /\ client.backoff /\ client' = [client EXCEPT !.backoff = FALSE]
    /\ UNCHANGED <<vars, task, uplink, control, generation, app, calm>>

-------------------------------------------------------------------------------
(* The tasks that use the client.                                             *)

ClientBegin ==
    /\ client.st = "STOPPED"
    /\ client' = Begin(client) /\ control' = <<>> /\ task' = "control"
    /\ UNCHANGED <<vars, uplink, generation, app, calm>>
ClientEnd ==
    /\ ~calm /\ "suspend" \in Application
    /\ client.st # "STOPPED"
    /\ LET r == End(client, FreshId) IN client' = r.c /\ ToGateway(r.out, client.key)
    /\ UNCHANGED <<vars, task, control, generation, app, calm>>
\* The station loses power.
ClientReboot ==
    /\ ~calm /\ "power" \in Trouble
    /\ client.st # "STOPPED"
    /\ client' = Off /\ control' = <<>> /\ captured' = 0 /\ willing' = FALSE
    /\ UNCHANGED <<vars, task, uplink, generation, calm>>

\* publish() reads the session once, then sends its message frame by frame.
PublishBegin ==
    /\ "publish" \in Application /\ captured = 0 /\ client.st = "CONNECTED"
    /\ captured' = client.cid
    /\ UNCHANGED <<vars, task_, uplink, control, generation, willing, calm>>
PublishFrame ==
    /\ captured # 0
    /\ IF client.gw
       THEN /\ ToGateway(<<[mac |-> Me, type |-> "MESSAGE", id |-> FreshId,
                            cid |-> captured, data |-> NoData]>>, client.key)
            /\ captured' \in {captured, 0}
       ELSE captured' = 0 /\ UNCHANGED uplink
    /\ UNCHANGED <<vars, task_, control, generation, willing, calm>>

\* setLastWill() stores the will, then sends it if the client is CONNECTED.
WillStore ==
    /\ "will" \in Application /\ ~willing
    /\ \E w \in Will : w # client.will /\ client' = [client EXCEPT !.will = w]
    /\ willing' = TRUE
    /\ UNCHANGED <<vars, task, uplink, control, generation, captured, calm>>
WillSend ==
    /\ willing /\ willing' = FALSE
    /\ LET r == IF client.st = "CONNECTED" THEN SendLastWill(client, FreshId) ELSE Quiet(client)
       IN  ToGateway(r.out, client.key)
    /\ UNCHANGED <<vars, task_, control, generation, captured, calm>>

CalmDown ==
    /\ Settles /\ ~calm /\ calm' = TRUE
    /\ UNCHANGED <<vars, task_, uplink, control, generation, app>>

-------------------------------------------------------------------------------

LinkNext ==
    \/ GatewayPacket \/ GatewayExpire \/ Clock \/ Beacon
    \/ GatewayOff \/ GatewayOn \/ GatewayReboot
    \/ ClientControl \/ ClientConnected \/ ClientDrained \/ ClientTimer \/ ClientBackoffOver
    \/ ClientBegin \/ ClientEnd \/ ClientReboot
    \/ PublishBegin \/ PublishFrame \/ WillStore \/ WillSend
    \/ CalmDown

LinkSpec == LinkInit /\ [][LinkNext]_all

\* Both tasks run for ever; and frames do not arrive so fast that the client
\* task never finds its queue empty with a timer due: beacons are 5 s apart.
FairLinkSpec ==
    /\ LinkSpec
    /\ WF_all(GatewayPacket) /\ WF_all(GatewayOn)
    /\ WF_all(ClientControl) /\ WF_all(ClientConnected)
    /\ SF_all(ClientDrained) /\ WF_all(ClientTimer)

-------------------------------------------------------------------------------
(* Properties.                                                                *)

LinkTypeOK ==
    /\ TypeOK
    /\ client \in Client /\ task \in {"control", "timers", "connected"}
    /\ Len(uplink) <= UplinkDepth /\ Len(control) <= ControlDepth
    /\ \A i \in DOMAIN uplink : uplink[i] \in Frame(uplink[i].type)
    /\ \A i \in DOMAIN control : control[i].type \in ForTask
    /\ generation \in 1..MaxGeneration
    /\ captured \in 0..MaxCid /\ willing \in BOOLEAN /\ calm \in BOOLEAN

\* The session both ends mean.
Agreed(c, t) == \E d \in t.devices : d.mac = Me /\ d.cid = c.cid /\ d.key = c.key

\* The two ends never use one cid with two keys, however late the frames of the
\* handshakes before it arrive: nothing else would ever tell them.
KeysAgree ==
    \A d \in table.devices : d.mac = Me /\ d.cid = client.cid => d.key = client.key

\* The station reconnects: once the trouble is over it reaches a session both
\* ends agree on, and keeps it.
Reconnects ==
    <>[](calm /\ client.st # "STOPPED") =>
      <>[](client.st = "CONNECTED" /\ Agreed(client, table)
           /\ IsConnected(SessionFor(table, Me)))
===============================================================================
