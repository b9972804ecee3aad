------------------------------- MODULE EspBroker -------------------------------
(* The gateway's ESP-NOW side (Gateway/EspNow/espBroker.cpp): what the task    *)
(* that owns the session table does with every packet, and with time.         *)
(*                                                                            *)
(* frame is the packet just handled, replies the protocol frames the handler  *)
(* gave to the radio, published what it handed to the gateway's routing       *)
(* (NightMareGateway.cpp, espBroker_onMessage).  All three describe the last  *)
(* step only.  A reply is in replies whether or not it reached anyone: a send *)
(* that is reported as failed may still have been received.                   *)
EXTENDS EspDeviceManager, Sequences

CONSTANTS
    MsgId,       \* message ids, echoed in replies
    Faults,      \* the PeerOps that may fail: a subset of {"add", "secure"}
    NoFrame,     \* nothing was received in this step
    NoData       \* a frame without payload

ASSUME BrokerAssumption ==
    /\ Faults \subseteq {"add", "secure"}
    /\ NoData \notin Filter \cup Will /\ "MESSAGE" \notin Will
    /\ 0 \notin MsgId

VARIABLES table, up, frame, replies, published

vars == <<table, up, frame, replies, published>>

ErrorCode == {"AUTH_FAILED", "INVALID_SESSION", "NOT_CONNECTED", "REJECTED",
              "UNSUPPORTED_VERSION", "INVALID_FRAME"}
FromClient == {"CONNECT", "AUTH", "PING", "DISCONNECT", "SUBSCRIBE", "UNSUBSCRIBE",
               "MESSAGE", "LAST_WILL", "OTHER", "INVALID"}
FromGateway == {"CHALLENGE", "CONNACK", "PONG", "ACK", "ERROR"}

\* A frame between the gateway and the station mac, and what its type carries.
\* OTHER stands for PONG, ACK and ERROR from a client, INVALID for a packet
\* decodeFrame() refuses.
Payload(type) ==
    CASE type \in {"CONNECT", "CHALLENGE"} -> Nonce
      [] type = "AUTH" -> Key
      [] type \in {"SUBSCRIBE", "UNSUBSCRIBE"} -> Filter \cup {NoData} \* NoData: an empty filter
      [] type = "LAST_WILL" -> Will \cup {NoData}     \* NoData: a topic nothing may be published on
      [] type = "ERROR" -> ErrorCode
      [] OTHER -> {NoData}
Frame(type) == [mac : Mac, type : {type}, id : MsgId \cup {0}, cid : Nat, data : Payload(type)]
ASSUME FrameAssumption == \A type \in FromClient : NoFrame \notin Frame(type)
Publication == [mac : Mac, what : Will \cup {"MESSAGE"}]

TypeOK ==
    /\ table \in Table
    /\ up \in BOOLEAN
    /\ frame = NoFrame \/ (frame.type \in FromClient /\ frame \in Frame(frame.type))
    /\ \A i \in DOMAIN replies :
         replies[i].type \in FromGateway /\ replies[i] \in Frame(replies[i].type)
    /\ published \subseteq Publication

Init ==
    /\ table = EmptyTable
    /\ up = FALSE
    /\ frame = NoFrame
    /\ replies = <<>>
    /\ published = {}

Send(f, type, cid, data) == [mac |-> f.mac, type |-> type, id |-> f.id, cid |-> cid, data |-> data]

AddOk == IF "add" \in Faults THEN BOOLEAN ELSE {TRUE}
\* Only a station that is shaking hands is ever given a key.
Securable == IF "secure" \in Faults THEN SUBSET {m \in Mac : HasPending(table, m)} ELSE {Mac}

-------------------------------------------------------------------------------
(* Handshake.                                                                 *)

HandleConnect(f, gatewayNonce) ==
    /\ f.type = "CONNECT"
    /\ \E addOk \in AddOk, secured \in Securable, sent \in BOOLEAN :
         LET begun == BeginHandshake(table, f.mac, f.data, gatewayNonce, addOk, secured) IN
         IF begun.ok
         THEN /\ table' = IF sent THEN begun.t ELSE AbandonHandshake(begun.t, f.mac, secured)
              /\ replies' = <<Send(f, "CHALLENGE", 0, gatewayNonce)>>
         ELSE table' = begun.t /\ replies' = <<>>
    /\ published' = {}

\* The key both ends derive, and the proof the gateway expects.
KeyOf(p) == <<p.clientNonce, p.gatewayNonce>>
\* Faulty: does not look at the proof.
AnyProof(f) == TRUE
ProofOk(f) == f.data = KeyOf(PendingFor(table, f.mac))

\* lmkOk is the result of deriving the session key; only then is it accepted.
RejectAuth(f) ==
    /\ ~ProofOk(f)
    /\ \E secured \in Securable : table' = AbandonHandshake(table, f.mac, secured)
    /\ replies' = <<Send(f, "ERROR", 0, "AUTH_FAILED")>>
RefuseAuth(f, lmkOk) ==
    /\ ProofOk(f)
    /\ ~lmkOk \/ SessionTableFull(table, f.mac)
    /\ \E secured \in Securable : table' = AbandonHandshake(table, f.mac, secured)
    /\ replies' = <<>>
AcceptAuth(f) ==
    /\ ProofOk(f)
    /\ ~SessionTableFull(table, f.mac)
    /\ \E cid \in Cid, secured \in Securable, sent \in BOOLEAN :
         LET done == CompleteHandshake(table, f.mac, cid) IN
         /\ IsNextCid(Superseded(table, f.mac), cid)
         /\ replies' = <<Send(f, "CONNACK", cid, NoData)>>
         /\ table' = IF sent THEN SecureSession(done, f.mac, KeyOf(PendingFor(table, f.mac)), secured)
                     ELSE EraseSession(done, f.mac, FALSE)
HandleAuth(f) ==
    /\ f.type = "AUTH" /\ HasPending(table, f.mac)
    /\ \/ RejectAuth(f)
       \/ \E lmkOk \in BOOLEAN : RefuseAuth(f, lmkOk)
       \/ AcceptAuth(f)
    /\ published' = {}

-------------------------------------------------------------------------------
(* Session traffic: admitted by MAC, cid and state.  Every admitted frame     *)
(* marks its session as seen before it is handled.                            *)

Session(f) == Seen(SessionFor(table, f.mac))
Update(f, d) == Replace(table, SessionFor(table, f.mac), d)
Answer(f, ok) == IF ok THEN Send(f, "ACK", f.cid, NoData) ELSE Send(f, "ERROR", f.cid, "REJECTED")

HandlePing(f) ==
    /\ f.type = "PING"
    /\ table' = Update(f, [Session(f) EXCEPT !.state = "CONNECTED"])
    /\ replies' = <<Send(f, "PONG", f.cid, NoData)>>
    /\ published' = {}
HandleDisconnect(f) ==
    /\ f.type = "DISCONNECT"
    /\ table' = EraseSession(table, f.mac, FALSE)
    /\ replies' = <<>> /\ published' = {}
HandleSubscribe(f) ==
    /\ f.type = "SUBSCRIBE"
    /\ LET ok == SubscribeOk(Session(f), f.data) IN
       /\ table' = Update(f, IF ok THEN Subscribed(Session(f), f.data) ELSE Session(f))
       /\ replies' = <<Answer(f, ok)>>
    /\ published' = {}
HandleUnsubscribe(f) ==
    /\ f.type = "UNSUBSCRIBE"
    /\ table' = Update(f, Unsubscribed(Session(f), f.data))
    /\ replies' = <<Answer(f, UnsubscribeOk(Session(f), f.data))>>
    /\ published' = {}
\* The frame that completes a message publishes it; Reassembly decides which
\* one that is, here either may happen.
HandleMessage(f) ==
    /\ f.type = "MESSAGE"
    /\ table' = Update(f, Session(f))
    /\ replies' = <<>>
    /\ published' \in {{}, {[mac |-> f.mac, what |-> "MESSAGE"]}}
HandleLastWill(f) ==
    /\ f.type = "LAST_WILL"
    /\ LET ok == f.data \in Will IN
       /\ table' = Update(f, IF ok THEN [Session(f) EXCEPT !.will = f.data] ELSE Session(f))
       /\ replies' = <<Answer(f, ok)>>
    /\ published' = {}
HandleOther(f) ==
    /\ f.type = "OTHER"
    /\ table' = Update(f, Session(f))
    /\ replies' = <<>> /\ published' = {}
HandleSessionFrame(f) ==
    \/ HandlePing(f) \/ HandleDisconnect(f) \/ HandleSubscribe(f) \/ HandleUnsubscribe(f)
    \/ HandleMessage(f) \/ HandleLastWill(f) \/ HandleOther(f)

-------------------------------------------------------------------------------
(* One packet off the receive queue.                                          *)

RefuseFrame(f, cid, error) ==
    /\ replies' = <<Send(f, "ERROR", cid, error)>>
    /\ published' = {}
    /\ UNCHANGED table
IgnoreFrame ==
    /\ replies' = <<>> /\ published' = {}
    /\ UNCHANGED table

\* Only a live session is told that its frame could not be read.
HandleInvalid(f) ==
    IF HasSession(table, f.mac) /\ ~Paused(table, f.mac)
    THEN \E error \in {"UNSUPPORTED_VERSION", "INVALID_FRAME"} :
           /\ replies' = <<[Send(f, "ERROR", SessionFor(table, f.mac).cid, error) EXCEPT !.id = 0]>>
           /\ published' = {}
           /\ UNCHANGED table
    ELSE IgnoreFrame

HandleValid(f, gatewayNonce) ==
    LET verdict == Admit(table, f.mac, f.type, f.cid) IN
    \/ verdict = "HANDSHAKE" /\ (HandleConnect(f, gatewayNonce) \/ HandleAuth(f))
    \/ verdict = "SESSION" /\ HandleSessionFrame(f)
    \/ verdict = "INVALID_SESSION" /\ RefuseFrame(f, 0, "INVALID_SESSION")
    \/ verdict = "NOT_CONNECTED" /\ RefuseFrame(f, SessionFor(table, f.mac).cid, "NOT_CONNECTED")
    \/ verdict = "IGNORE" /\ IgnoreFrame

HandlePacket(f, gatewayNonce) ==
    /\ up
    /\ IF f.type = "INVALID" THEN HandleInvalid(f) ELSE HandleValid(f, gatewayNonce)
    /\ frame' = f
    /\ UNCHANGED up

-------------------------------------------------------------------------------
(* What the task does by itself.                                              *)

\* Every pass ends with expire(): wills of the sessions that went silent go out.
ExpirePass ==
    /\ up
    /\ \E secured \in Securable :
         /\ table' = Expire(table, secured)
         /\ published' = {[mac |-> d.mac, what |-> d.will] : d \in Lost(table, secured)}
    /\ frame' = NoFrame /\ replies' = <<>>
    /\ UNCHANGED up

Tick ==
    /\ table' = Aged(table)
    /\ frame' = NoFrame /\ replies' = <<>> /\ published' = {}
    /\ UNCHANGED up

\* "gateway off" and "espnow off"; no will fires.
Shutdown ==
    /\ up /\ up' = FALSE
    /\ table' = Reset(table)
    /\ frame' = NoFrame /\ replies' = <<>> /\ published' = {}

\* espBroker_init(), at the start and again to resume.
Start ==
    /\ ~up /\ up' = TRUE
    /\ frame' = NoFrame /\ replies' = <<>> /\ published' = {}
    /\ UNCHANGED table

-------------------------------------------------------------------------------
(* The stations around the gateway: any of them may send any frame of the     *)
(* protocol at any time.  Nonces are fresh among those of the same station,   *)
(* the only ones a handshake is ever compared with (keys and proofs bind the  *)
(* station's MAC as well), and one serves for both ends.                      *)

NoncesInUse(mac) ==
    UNION ({{d.key[1], d.key[2]} : d \in {e \in table.devices : e.mac = mac /\ e.key # NoKey}}
           \cup {{table.pending[s].clientNonce, table.pending[s].gatewayNonce}
                   : s \in PendingSlots(table, mac)})
Fresh(n, mac) ==
    LET free == Nonce \ (NoncesInUse(mac) \cup {0})
    IN  n \in free /\ \A m \in free : n <= m

\* A client that holds the network key proves exactly its handshake; any other
\* proof is wrong, whatever it says.
Proofs(mac) == {<<0, 0>>} \cup (IF HasPending(table, mac) THEN {KeyOf(PendingFor(table, mac))} ELSE {})
Sendable(type, mac) ==
    CASE type = "CONNECT" -> {n \in Nonce : Fresh(n, mac)}
      [] type = "AUTH" -> Proofs(mac)
      [] OTHER -> Payload(type)

\* Session frames carry the cid their sender remembers, right or not.
Cids(type) == IF type \in {"CONNECT", "AUTH", "INVALID"} THEN {0} ELSE Cid

Receive(mac, type) ==
    \E id \in MsgId, cid \in Cids(type), data \in Sendable(type, mac), n \in Nonce :
      /\ Fresh(n, mac)
      /\ HandlePacket([mac |-> mac, type |-> type, id |-> id, cid |-> cid, data |-> data], n)

Next ==
    \/ \E mac \in Mac, type \in FromClient : Receive(mac, type)
    \/ ExpirePass
    \/ Tick
    \/ Shutdown
    \/ Start

Spec == Init /\ [][Next]_vars

\* The gateway task runs a pass at least every NM_GATEWAY_TICK_MS, and time goes on.
FairSpec == Spec /\ WF_vars(ExpirePass) /\ WF_vars(Tick)

-------------------------------------------------------------------------------
(* Safety.                                                                    *)

\* One session per station and per cid: what admit() relies on when it picks the
\* session by MAC and then compares the cid.  A session is never left
\* AUTHENTICATED between two packets.
UniqueSessions ==
    /\ \A d, e \in table.devices : d.mac = e.mac \/ d.cid = e.cid => d = e
    /\ \A d \in table.devices : d.state # "AUTHENTICATED" /\ d.key # NoKey

\* One pending handshake per station (beginHandshake reuses the sender's entry).
OneHandshakePerMac ==
    \A r, s \in Slot :
      Active(table, r) /\ Active(table, s) /\ table.pending[r].mac = table.pending[s].mac => r = s

\* The radio agrees with the table, which is what decides whether a frame goes
\* out encrypted: a usable session's peer holds exactly that session's key, and
\* a station that is shaking hands, its session paused meanwhile, is plaintext.
PeerMatchesSession ==
    /\ \A d \in table.devices : ~d.suspended => table.peers[d.mac] = d.key
    /\ \A m \in Mac : HasPending(table, m) \/ Paused(table, m) => table.peers[m] = Plain

\* A paused session waits for a handshake that will time out (expire(): "the
\* handshake timeout above decides its fate first"), and a peer entry is held
\* only for a session or a handshake.
SuspendedAwaitsHandshake ==
    \A d \in table.devices : d.suspended <=> HasPending(table, d.mac)
NoPeerLeak ==
    \A m \in Mac : table.peers[m] # NoPeer => HasSession(table, m) \/ HasPending(table, m)

\* The three tables of the gateway and the ids it deals out agree with each other.
SessionTables ==
    /\ TypeOK /\ UniqueSessions /\ OneHandshakePerMac
    /\ PeerMatchesSession /\ SuspendedAwaitsHandshake /\ NoPeerLeak

\* "Sessions + pending + the broadcast peer must fit ESP-NOW's 20-peer table."
PeersInUse == {m \in Mac : table.peers[m] # NoPeer}
Capacity ==
    /\ Cardinality(table.devices) <= MaxDevices
    /\ Cardinality(PeersInUse) <= MaxDevices + MaxPending

-------------------------------------------------------------------------------
(* What a step may never do.                                                  *)

Proven(mac) == frame' # NoFrame /\ frame'.type = "AUTH" /\ frame'.mac = mac /\ HasPending(table, mac)
               /\ frame'.data = KeyOf(PendingFor(table, mac))

\* "Nothing but a verified AUTH may replace a session": a station gets a session,
\* or another one than it had, only by proving the handshake pending for it.
OnlyProofCreates ==
    [][\A e \in table'.devices :
         (\A d \in table.devices : d.mac = e.mac => d.cid # e.cid) => Proven(e.mac)]_vars

\* How a session may end while the gateway runs: its station says so, proves a handshake
\* that is accepted, or has been silent for too long and is in no handshake that could
\* still be proven.
OwnFrame(d) ==
    /\ frame' # NoFrame /\ frame'.mac = d.mac /\ frame'.cid = d.cid /\ ~d.suspended
    /\ frame'.type \notin {"CONNECT", "AUTH", "INVALID"}
Left(d) == OwnFrame(d) /\ frame'.type = "DISCONNECT"
Replaced(d) == Proven(d.mac) /\ replies' # <<>>
FellSilent(d) ==
    frame' = NoFrame /\ Overdue(d) /\ (d.suspended => d.mac \in TimedOut(table))

\* d goes on as e: only its own frames change what it remembers or make it heard again;
\* it is paused while a handshake runs and no longer, and is then as it was, its key on
\* the radio.
Continues(d, e) ==
    /\ e.mac = d.mac /\ e.cid = d.cid /\ e.key = d.key
    /\ OwnFrame(d) \/ (/\ e.state = d.state /\ e.subs = d.subs /\ e.will = d.will
                       /\ e.silent >= d.silent)
    /\ IF e.suspended THEN HasPending(table', d.mac) ELSE table'.peers[d.mac] = d.key

\* Nothing else ends a session, on a radio that refuses nothing: a handshake that is
\* refused, answered wrongly, pushed out of its place or left to time out hands the
\* session it paused back as it was (abandonHandshake, expire).
UnprovenKeepsSession ==
    [][up' => \A d \in table.devices :
                \/ Left(d) \/ Replaced(d) \/ FellSilent(d)
                \/ \E e \in table'.devices : Continues(d, e)]_vars

\* No frame but the handshake's own goes to a station while its handshake runs:
\* an error there "would tell the real device to tear down a session that is
\* about to be handed straight back to it".
SilentWhilePaused ==
    [][\A i \in DOMAIN replies' :
         HasPending(table, replies'[i].mac) =>
            \/ replies'[i].type \in {"CHALLENGE", "CONNACK"}
            \/ replies'[i].data = "AUTH_FAILED"]_vars

\* A last will means the station is gone: it fires only for a session that was in
\* use and fell silent, the session ends in that same pass, so it fires once,
\* and no handshake of that station is under way.
WillMeansGone ==
    [][\A p \in published' :
         p.what \in Will =>
            /\ \E d \in table.devices : d.mac = p.mac /\ d.will = p.what
                                       /\ d.state = "CONNECTED" /\ d.silent > SessionTimeout
            /\ ~HasSession(table', p.mac) /\ ~HasPending(table', p.mac)]_vars

-------------------------------------------------------------------------------
(* Liveness.                                                                  *)

From(m) == frame # NoFrame /\ frame.mac = m

\* The gateway forgets a station that stopped sending: its session, its
\* handshake and its place in the radio's peer table are all given back.
Forgotten ==
    \A m \in Mac :
      <>[](~From(m)) =>
        <>[](~HasSession(table, m) /\ ~HasPending(table, m) /\ table.peers[m] = NoPeer)

\* A paused session is not paused for ever: once its station stops asking for
\* handshakes it is resumed, replaced or ended.
PauseEnds ==
    \A m \in Mac :
      <>[](~(From(m) /\ frame.type = "CONNECT")) => <>[](~Paused(table, m))

\* The last will of a station that fell silent is published, unless the gateway
\* is switched off first.
WillFires ==
    \A m \in Mac :
      [](/\ HasSession(table, m) /\ IsConnected(SessionFor(table, m))
         /\ SessionFor(table, m).will # NoWill
         /\ [](up /\ ~From(m))
         => <>(\E p \in published : p.mac = m /\ p.what \in Will))

\* No station, whatever became of it, is left half way: the gateway ends what it
\* began with each.
StationsSettle == Forgotten /\ PauseEnds /\ WillFires
===============================================================================
