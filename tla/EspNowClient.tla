----------------------------- MODULE EspNowClient -----------------------------
(* The station's end of the ESP-NOW protocol (Network/EspNow/EspNowClient):    *)
(* one record c for what the client task knows, and an operator for every     *)
(* frame it handles and every timer it runs.  Each yields the record after it *)
(* and the frame it sends, if any.  Frames, nonces and keys are EspBroker's.  *)
(*                                                                            *)
(* One gateway is in range, so a gateway's address is whether one is known.   *)
(* A handler that needs a nonce or a message id is given a fresh one.  The     *)
(* radio always takes the gateway's peer entry back to plaintext.             *)
EXTENDS EspBroker

CONSTANTS
    Me,                \* the station, one of Mac
    HandshakeAttempts, \* on one gateway before searching again, 3
    SecuringPings,     \* encrypted PINGs before the handshake failed, 5
    MissedBeforeLost,  \* unanswered heartbeats before the session is lost, 3
    MaxGeneration      \* boots of the gateway

ASSUME ClientAssumption ==
    /\ Me \in Mac
    /\ HandshakeAttempts \in Nat \ {0} /\ SecuringPings \in Nat \ {0}
    /\ MissedBeforeLost \in Nat \ {0}
    /\ MaxGeneration \in Nat \ {0}

State == {"STOPPED", "SEARCHING", "CONNECTING", "AUTHENTICATING", "SECURING", "CONNECTED"}

Client == [st : State, gw : BOOLEAN, generation : 0..MaxGeneration, cid : 0..MaxCid,
           clientNonce : Nonce, gatewayNonce : Nonce,
           connectId : MsgId \cup {0}, authId : MsgId \cup {0}, pingId : MsgId \cup {0},
           tries : 0..SecuringPings, missed : 0..MissedBeforeLost,
           failures : 0..HandshakeAttempts, key : Key \cup {Plain, NoPeer}, backoff : BOOLEAN,
           will : Will \cup {NoWill}]

Off == [st |-> "STOPPED", gw |-> FALSE, generation |-> 0, cid |-> 0,
        clientNonce |-> 0, gatewayNonce |-> 0, connectId |-> 0, authId |-> 0, pingId |-> 0,
        tries |-> 0, missed |-> 0, failures |-> 0, key |-> NoPeer, backoff |-> FALSE,
        will |-> NoWill]

-------------------------------------------------------------------------------
(* A result: the client afterwards, and what it sent.                         *)

Quiet(c) == [c |-> c, out |-> <<>>]
Sending(c, type, id, cid, data) ==
    [c |-> c, out |-> <<[mac |-> Me, type |-> type, id |-> id, cid |-> cid, data |-> data]>>]

\* Faulty: keeps the session's id.
DropKeyOnly(c) ==
    [c EXCEPT !.clientNonce = 0, !.gatewayNonce = 0, !.key = IF @ \in Key THEN Plain ELSE @]
DropSession(c) ==
    [c EXCEPT !.cid = 0, !.clientNonce = 0, !.gatewayNonce = 0,
              !.key = IF @ \in Key THEN Plain ELSE @]
ForgetGateway(c) ==
    IF c.gw THEN [c EXCEPT !.gw = FALSE, !.generation = 0, !.key = NoPeer] ELSE c
SetGateway(c) == [c EXCEPT !.gw = TRUE, !.key = Plain]

EnterSearching(c, backoff) ==
    [ForgetGateway(DropSession(c)) EXCEPT !.failures = 0, !.st = "SEARCHING", !.backoff = backoff]

SendConnect(c, n, id) ==
    Sending([c EXCEPT !.clientNonce = n, !.connectId = id], "CONNECT", id, 0, n)
StartHandshake(c, n, id) == SendConnect([DropSession(c) EXCEPT !.st = "CONNECTING"], n, id)
HandshakeFailed(c, n, id) ==
    IF c.failures + 1 >= HandshakeAttempts THEN Quiet(EnterSearching(c, FALSE))
    ELSE StartHandshake([c EXCEPT !.failures = @ + 1], n, id)

SendPing(c, id) ==
    IF c.cid = 0 \/ ~c.gw THEN Quiet(c)
    ELSE Sending([c EXCEPT !.pingId = id], "PING", id, c.cid, NoData)
SendLastWill(c, id) ==
    IF c.will = NoWill \/ c.cid = 0 \/ ~c.gw THEN Quiet(c)
    ELSE Sending(c, "LAST_WILL", id, c.cid, c.will)

-------------------------------------------------------------------------------
(* Frames, all from the gateway in range.                                     *)

\* A beacon of another boot than the known one: the gateway lost every session.
Rebooted(c, generation) == c.generation # 0 /\ c.generation # generation
OnBeacon(c, f, n, id) ==
    LET known == [c EXCEPT !.generation = f.data] IN
    IF c.gw
    THEN IF Rebooted(c, f.data) THEN StartHandshake(known, n, id) ELSE Quiet(known)
    ELSE IF c.st = "SEARCHING" /\ ~c.backoff THEN StartHandshake(SetGateway(known), n, id)
    ELSE Quiet(c)

\* ok: the proof could be computed.
OnChallenge(c, f, n, id, ok) ==
    LET met == [IF c.gw THEN c ELSE SetGateway(c) EXCEPT !.gatewayNonce = f.data]
    IN  IF ~(c.st \in {"SEARCHING", "CONNECTING"} /\ f.id = c.connectId) THEN Quiet(c)
        ELSE IF ~ok THEN HandshakeFailed(met, n, id)
        ELSE Sending([met EXCEPT !.st = "AUTHENTICATING", !.authId = id],
                     "AUTH", id, 0, <<met.clientNonce, met.gatewayNonce>>)

AwaitsConnAck(c, f) == c.gw /\ c.st = "AUTHENTICATING" /\ f.id = c.authId
\* ok: the key could be derived and put on the peer.
OnConnAck(c, f, n, id, ok) ==
    LET keyed == [c EXCEPT !.key = <<c.clientNonce, c.gatewayNonce>>,
                           !.clientNonce = 0, !.gatewayNonce = 0]
    IN  IF ~AwaitsConnAck(c, f) THEN Quiet(c)
        ELSE IF ~ok THEN HandshakeFailed(c, n, id)
        ELSE SendPing([keyed EXCEPT !.cid = f.cid, !.st = "SECURING", !.tries = 1], id)

\* The PONG that ends SECURING: the last will goes out, and only then is the
\* state CONNECTED.
Awaited(c, f) == c.gw /\ f.cid = c.cid /\ f.id = c.pingId
Secures(c, f) == f.type = "PONG" /\ Awaited(c, f) /\ c.st = "SECURING"
OnPong(c, f, id) ==
    LET heard == [c EXCEPT !.missed = 0] IN
    IF ~Awaited(c, f) THEN Quiet(c)
    ELSE IF ~Secures(c, f) THEN Quiet(heard)
    ELSE SendLastWill([heard EXCEPT !.failures = 0], id)
EnterConnected(c) == [c EXCEPT !.st = "CONNECTED"]

OnError(c, f, n, id) ==
    IF \/ c.gw /\ f.data = "AUTH_FAILED" /\ c.st = "AUTHENTICATING"
       \/ c.gw /\ f.data = "UNSUPPORTED_VERSION"
    THEN Quiet(EnterSearching(c, TRUE))
    ELSE IF c.gw /\ f.data \in {"INVALID_SESSION", "NOT_CONNECTED"} /\ c.st \in {"SECURING", "CONNECTED"}
    THEN StartHandshake(c, n, id)
    ELSE Quiet(c)

HandleControl(c, f, n, id, ok) ==
    CASE f.type = "BEACON" -> OnBeacon(c, f, n, id)
      [] f.type = "CHALLENGE" -> OnChallenge(c, f, n, id, ok)
      [] f.type = "CONNACK" -> OnConnAck(c, f, n, id, ok)
      [] f.type = "PONG" -> OnPong(c, f, id)
      [] f.type = "ERROR" -> OnError(c, f, n, id)

\* What the receive callback hands to the client task.
ForTask == {"BEACON", "CHALLENGE", "CONNACK", "PONG", "ERROR"}
Hears(c, type) ==
    /\ c.st # "STOPPED" /\ type \in ForTask
    /\ type = "BEACON" => c.st = "SEARCHING" \/ c.gw

-------------------------------------------------------------------------------
(* Timers: what a state does when its deadline has passed.                    *)

\* Faulty: never gives a silent gateway up.
PatientHeartbeat(c, id) == SendPing([c EXCEPT !.missed = IF @ < MissedBeforeLost THEN @ + 1 ELSE @], id)
Heartbeat(c, id) ==
    IF c.missed >= MissedBeforeLost THEN Quiet(EnterSearching(c, FALSE))
    ELSE SendPing([c EXCEPT !.missed = @ + 1], id)

RunTimers(c, n, id) ==
    CASE c.st = "SEARCHING" -> SendConnect([c EXCEPT !.backoff = FALSE], n, id)
      [] c.st \in {"CONNECTING", "AUTHENTICATING"} -> HandshakeFailed(c, n, id)
      [] c.st = "SECURING" -> IF c.tries >= SecuringPings THEN HandshakeFailed(c, n, id)
                              ELSE SendPing([c EXCEPT !.tries = @ + 1], id)
      [] c.st = "CONNECTED" -> Heartbeat(c, id)

-------------------------------------------------------------------------------
(* begin() and end().  Neither touches the gateway's generation or the will.  *)

Stopped(c) == [Off EXCEPT !.generation = c.generation, !.will = c.will]
Begin(c) == [Stopped(c) EXCEPT !.st = "SEARCHING"]
End(c, id) ==
    LET gone == Stopped(c) IN
    IF c.st = "CONNECTED" THEN Sending(gone, "DISCONNECT", id, c.cid, NoData) ELSE Quiet(gone)
===============================================================================
