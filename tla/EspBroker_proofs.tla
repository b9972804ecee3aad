---------------------------- MODULE EspBroker_proofs ----------------------------
(* What holds of the ESP-NOW broker for any number of stations, sessions,     *)
(* handshakes and session ids.  First what each operator of the session table *)
(* preserves, then the invariants of the specification, and last what no step *)
(* may do.                                                                    *)
EXTENDS EspBroker, FiniteSetTheorems, TLAPS

-------------------------------------------------------------------------------
(* The session table has its type, whatever operation it went through.        *)

\* What a lookup by MAC finds is a session of that station.
LEMMA SessionForType ==
    ASSUME NEW t \in Table, NEW mac \in Mac, HasSession(t, mac)
    PROVE  /\ SessionFor(t, mac) \in t.devices
           /\ SessionFor(t, mac) \in Device
           /\ SessionFor(t, mac).mac = mac
<1>1. \E d \in t.devices : d.mac = mac
  BY DEF HasSession
<1>2. SessionFor(t, mac) \in t.devices /\ SessionFor(t, mac).mac = mac
  BY <1>1 DEF SessionFor
<1> QED
  BY <1>2 DEF Table

\* What a lookup finds in the pending table is a handshake of that station.
LEMMA PendingForType ==
    ASSUME NEW t \in Table, NEW mac \in Mac, HasPending(t, mac)
    PROVE  PendingFor(t, mac) \in PendingHandshake /\ PendingFor(t, mac).mac = mac
<1>1. PICK s \in Slot : s = (CHOOSE x \in PendingSlots(t, mac) : TRUE) /\ s \in PendingSlots(t, mac)
  BY DEF HasPending, PendingSlots
<1>2. t.pending[s] \in PendingHandshake \cup {Free} /\ t.pending[s] # Free /\ t.pending[s].mac = mac
  BY <1>1 DEF PendingSlots, Active, Table
<1> QED
  BY <1>1, <1>2 DEF PendingFor

LEMMA SetPeerType ==
    ASSUME NEW t \in Table, NEW mac \in Mac, NEW p \in Key \cup {Plain, NoPeer}
    PROVE  SetPeer(t, mac, p) \in Table
BY DEF SetPeer, Table

LEMMA ReplaceType ==
    ASSUME NEW t \in Table, NEW d, NEW e \in Device
    PROVE  Replace(t, d, e) \in Table
BY DEF Replace, Table

LEMMA EraseSessionType ==
    ASSUME NEW t \in Table, NEW mac \in Mac, NEW keep \in BOOLEAN
    PROVE  EraseSession(t, mac, keep) \in Table
BY DEF EraseSession, Table

LEMMA FreePendingType ==
    ASSUME NEW t \in Table, NEW mac \in Mac
    PROVE  FreePending(t, mac) \in Table
BY DEF FreePending, Table

LEMMA SuspendType ==
    ASSUME NEW t \in Table, NEW mac \in Mac
    PROVE  Suspend(t, mac) \in Table
<1>1. \A d \in Device : [d EXCEPT !.suspended = TRUE] \in Device
  BY DEF Device
<1>2. t.devices \subseteq Device
  BY DEF Table
<1> QED
  BY <1>1, <1>2 DEF Suspend, Table

LEMMA ResumeType ==
    ASSUME NEW t \in Table, NEW mac \in Mac, HasSession(t, mac), SessionFor(t, mac).key # NoKey
    PROVE  Resume(t, mac) \in Table
<1> DEFINE d == SessionFor(t, mac)
           e == [d EXCEPT !.suspended = FALSE]
<1>1. d \in Device
  BY SessionForType
<1>2. e \in Device /\ d.key \in Key
  BY <1>1 DEF Device
<1>3. Replace(t, d, e) \in Table
  BY <1>2, ReplaceType
<1> QED
  BY <1>2, <1>3, SetPeerType DEF Resume

\* Freeing a pending entry touches no session.
LEMMA FreePendingSessions ==
    ASSUME NEW t \in Table, NEW mac \in Mac, NEW m \in Mac
    PROVE  /\ FreePending(t, mac).devices = t.devices
           /\ HasSession(FreePending(t, mac), m) <=> HasSession(t, m)
           /\ SessionFor(FreePending(t, mac), m) = SessionFor(t, m)
BY DEF FreePending, HasSession, SessionFor, Table

LEMMA AbandonHandshakeType ==
    ASSUME NEW t \in Table, NEW mac \in Mac, NEW secured
    PROVE  AbandonHandshake(t, mac, secured) \in Table
<1> DEFINE freed == FreePending(t, mac)
<1>1. freed \in Table
  BY FreePendingType
<1>2. CASE ~HasPending(t, mac)
  BY <1>2 DEF AbandonHandshake
<1>3. CASE HasPending(t, mac) /\ ~HasSession(t, mac)
  BY <1>1, <1>3, SetPeerType DEF AbandonHandshake
<1>4. CASE HasPending(t, mac) /\ HasSession(t, mac) /\ ~Paused(t, mac)
  BY <1>1, <1>4 DEF AbandonHandshake
<1>5. CASE HasPending(t, mac) /\ Paused(t, mac)
  <2>1. HasSession(t, mac)
    BY <1>5 DEF Paused
  <2>2. HasSession(freed, mac) /\ SessionFor(freed, mac) = SessionFor(t, mac)
    BY <2>1, FreePendingSessions
  <2>3. EraseSession(freed, mac, FALSE) \in Table
    BY <1>1, EraseSessionType
  <2>4. Restorable(t, mac, secured) => Resume(freed, mac) \in Table
    BY <1>1, <2>2, ResumeType DEF Restorable
  <2> QED
    BY <1>5, <2>1, <2>3, <2>4 DEF AbandonHandshake
<1> QED
  BY <1>2, <1>3, <1>4, <1>5 DEF Paused

LEMMA EvictedType ==
    ASSUME NEW t \in Table, NEW s \in Slot, NEW mac \in Mac, NEW secured
    PROVE  Evicted(t, s, mac, secured) \in Table
<1>1. CASE HasPending(t, mac) \/ ~Active(t, s)
  BY <1>1 DEF Evicted
<1>2. CASE ~(HasPending(t, mac) \/ ~Active(t, s))
  <2>1. t.pending[s].mac \in Mac
    BY <1>2 DEF Active, Table, PendingHandshake
  <2> QED
    BY <1>2, <2>1, AbandonHandshakeType DEF Evicted
<1> QED
  BY <1>1, <1>2

LEMMA BeginHandshakeType ==
    ASSUME NEW t \in Table, NEW mac \in Mac, NEW cn \in Nonce, NEW gn \in Nonce,
           NEW addOk \in BOOLEAN, NEW secured
    PROVE  BeginHandshake(t, mac, cn, gn, addOk, secured).t \in Table
<1>1. CASE SlotFor(t, mac) = {}
  BY <1>1 DEF BeginHandshake
<1>2. CASE SlotFor(t, mac) # {}
  <2> DEFINE s == CHOOSE x \in SlotFor(t, mac) : TRUE
             cleared == Evicted(t, s, mac, secured)
             paused == SetPeer(Suspend(cleared, mac), mac, Plain)
             entry == [mac |-> mac, clientNonce |-> cn, gatewayNonce |-> gn, age |-> 0]
  <2>1. s \in Slot
    BY <1>2 DEF SlotFor, PendingSlots
  <2>2. cleared \in Table
    BY <2>1, EvictedType
  <2>3. paused \in Table
    BY <2>2, SuspendType, SetPeerType
  <2>4. entry \in PendingHandshake
    BY DEF PendingHandshake
  <2>5. \A u \in Table, e \in PendingHandshake \cup {Free} : [u EXCEPT !.pending[s] = e] \in Table
    BY <2>1 DEF Table
  <2>6. /\ [paused EXCEPT !.pending[s] = entry] \in Table
        /\ [cleared EXCEPT !.pending[s] = Free] \in Table
    BY <2>2, <2>3, <2>4, <2>5
  <2> HIDE DEF cleared, paused, entry
  <2>7. BeginHandshake(t, mac, cn, gn, addOk, secured).t
          = IF addOk THEN [paused EXCEPT !.pending[s] = entry] ELSE [cleared EXCEPT !.pending[s] = Free]
    BY <1>2 DEF BeginHandshake, cleared, paused, entry
  <2> QED
    BY <2>6, <2>7
<1> QED
  BY <1>1, <1>2
LEMMA AfterType ==
    ASSUME NEW c \in Cid
    PROVE  After(c) \in Cid
BY ManagerAssumption DEF After, Cid

LEMMA CompleteHandshakeType ==
    ASSUME NEW t \in Table, NEW mac \in Mac, NEW cid \in Cid
    PROVE  /\ CompleteHandshake(t, mac, cid) \in Table
           /\ HasSession(CompleteHandshake(t, mac, cid), mac)
<1> DEFINE old == Superseded(t, mac)
           d == [mac |-> mac, cid |-> cid, state |-> "AUTHENTICATED", suspended |-> FALSE,
                 key |-> NoKey, silent |-> 0, subs |-> {}, will |-> NoWill]
<1>1. old \in Table
  BY FreePendingType, EraseSessionType DEF Superseded
<1>2. d \in Device /\ d.mac = mac
  BY DEF Device
<1>3. After(cid) \in Cid
  BY AfterType
<1> HIDE DEF old, d
<1>4. [old EXCEPT !.devices = @ \cup {d}, !.nextCid = After(cid)] \in Table
  BY <1>1, <1>2, <1>3 DEF Table
<1>5. d \in [old EXCEPT !.devices = @ \cup {d}, !.nextCid = After(cid)].devices
  BY <1>1 DEF Table
<1> QED
  BY <1>2, <1>4, <1>5 DEF CompleteHandshake, HasSession, old, d

LEMMA SecureSessionType ==
    ASSUME NEW t \in Table, NEW mac \in Mac, HasSession(t, mac), NEW key \in Key, NEW secured
    PROVE  SecureSession(t, mac, key, secured) \in Table
<1> DEFINE d == SessionFor(t, mac)
           e == [d EXCEPT !.key = key, !.state = "SECURING"]
<1>1. d \in Device
  BY SessionForType
<1>2. e \in Device
  BY <1>1 DEF Device
<1>3. Replace(t, d, e) \in Table
  BY <1>2, ReplaceType
<1>4. SetPeer(Replace(t, d, e), mac, key) \in Table
  BY <1>3, SetPeerType
<1>5. EraseSession(t, mac, FALSE) \in Table
  BY EraseSessionType
<1> QED
  BY <1>4, <1>5 DEF SecureSession

LEMMA AbandonTimedOutType ==
    ASSUME NEW t \in Table, NEW secured
    PROVE  AbandonTimedOut(t, secured) \in Table
<1> DEFINE out == TimedOut(t)
           resumed == {m \in out : Paused(t, m) /\ Restorable(t, m, secured)}
           ended == {m \in out : Paused(t, m) /\ ~Restorable(t, m, secured)}
           pending == [s \in Slot |-> IF Active(t, s) /\ t.pending[s].mac \in out
                                      THEN Free ELSE t.pending[s]]
           devices == {IF d.mac \in resumed THEN [d EXCEPT !.suspended = FALSE] ELSE d :
                         d \in {e \in t.devices : e.mac \notin ended}}
           peers == [m \in Mac |-> IF m \in resumed THEN SessionFor(t, m).key
                                   ELSE IF m \in ended \/ (m \in out /\ ~HasSession(t, m)) THEN NoPeer
                                   ELSE t.peers[m]]
<1>1. pending \in [Slot -> PendingHandshake \cup {Free}]
  BY DEF Table
<1>2. devices \in SUBSET Device
  <2>1. \A d \in t.devices : d \in Device /\ [d EXCEPT !.suspended = FALSE] \in Device
    BY DEF Table, Device
  <2> QED
    BY <2>1
<1>3. peers \in [Mac -> Key \cup {Plain, NoPeer}]
  <2>1. ASSUME NEW m \in Mac, m \in resumed
        PROVE  SessionFor(t, m).key \in Key
    <3>1. HasSession(t, m) /\ SessionFor(t, m).key # NoKey
      BY <2>1 DEF Paused, Restorable
    <3> QED
      BY <3>1, SessionForType DEF Device
  <2>2. \A m \in Mac : t.peers[m] \in Key \cup {Plain, NoPeer}
    BY DEF Table
  <2> QED
    BY <2>1, <2>2
<1>4. t.nextCid \in Cid
  BY DEF Table
<1> HIDE DEF out, resumed, ended
<1>5. AbandonTimedOut(t, secured) = [t EXCEPT !.pending = pending, !.devices = devices, !.peers = peers]
  BY DEF AbandonTimedOut, out, resumed, ended, Table
<1> HIDE DEF pending, devices, peers
<1> QED
  BY <1>1, <1>2, <1>3, <1>4, <1>5 DEF Table

LEMMA EndSilentType ==
    ASSUME NEW t \in Table
    PROVE  EndSilent(t) \in Table
BY DEF EndSilent, Table

LEMMA ExpireType ==
    ASSUME NEW t \in Table, NEW secured
    PROVE  Expire(t, secured) \in Table
BY AbandonTimedOutType, EndSilentType DEF Expire

LEMMA EmptyTableType == EmptyTable \in Table
BY ManagerAssumption DEF EmptyTable, Table, Cid

LEMMA ResetType ==
    ASSUME NEW t \in Table
    PROVE  Reset(t) \in Table
BY EmptyTableType DEF Reset, Table

LEMMA AgedType ==
    ASSUME NEW t \in Table
    PROVE  Aged(t) \in Table
<1>1. \A a, limit \in Nat : Older(a, limit) \in Nat
  BY DEF Older
<1>2. \A d \in t.devices : [d EXCEPT !.silent = Older(@, SessionTimeout)] \in Device
  BY <1>1, ManagerAssumption DEF Table, Device
<1>3. \A s \in Slot : Active(t, s) =>
         [t.pending[s] EXCEPT !.age = Older(@, HandshakeTimeout)] \in PendingHandshake
  BY <1>1, ManagerAssumption DEF Table, PendingHandshake, Active
<1> DEFINE devices == {[d EXCEPT !.silent = Older(@, SessionTimeout)] : d \in t.devices}
           pending == [s \in Slot |-> IF Active(t, s)
                                      THEN [t.pending[s] EXCEPT !.age = Older(@, HandshakeTimeout)]
                                      ELSE Free]
<1>4. devices \in SUBSET Device
  BY <1>2
<1>5. pending \in [Slot -> PendingHandshake \cup {Free}]
  BY <1>3
<1>6. Aged(t) = [t EXCEPT !.devices = devices, !.pending = pending]
  BY DEF Aged, Table
<1> HIDE DEF devices, pending
<1> QED
  BY <1>4, <1>5, <1>6 DEF Table
-------------------------------------------------------------------------------
(* Frames.                                                                    *)

\* What each type of frame carries.
LEMMA Payloads ==
    /\ Payload("CONNECT") = Nonce /\ Payload("CHALLENGE") = Nonce
    /\ Payload("AUTH") = Key
    /\ Payload("SUBSCRIBE") = Filter \cup {NoData} /\ Payload("UNSUBSCRIBE") = Filter \cup {NoData}
    /\ Payload("LAST_WILL") = Will \cup {NoData}
    /\ Payload("ERROR") = ErrorCode
    /\ \A type \in {"PING", "DISCONNECT", "MESSAGE", "OTHER", "INVALID", "CONNACK", "PONG", "ACK"} :
         Payload(type) = {NoData}
BY DEF Payload

\* The handshake pending for a station has a key, and it proves that.
LEMMA KeyOfType ==
    ASSUME NEW t \in Table, NEW mac \in Mac, HasPending(t, mac)
    PROVE  KeyOf(PendingFor(t, mac)) \in Key
BY PendingForType DEF KeyOf, PendingHandshake, Key

\* A station sends frames of the protocol.
LEMMA SendableType ==
    ASSUME table \in Table, NEW mac \in Mac, NEW type \in FromClient
    PROVE  Sendable(type, mac) \subseteq Payload(type)
<1>1. Proofs(mac) \subseteq Key
  BY KeyOfType, ManagerAssumption DEF Proofs, Key
<1> QED
  BY <1>1, Payloads DEF Sendable

\* The answer to a frame is a frame to the station that sent it.
LEMMA SendType ==
    ASSUME NEW type \in FromClient, NEW f \in Frame(type), NEW answer \in FromGateway,
           NEW cid \in Nat, NEW data \in Payload(answer)
    PROVE  /\ Send(f, answer, cid, data) \in Frame(answer)
           /\ Send(f, answer, cid, data).type = answer
BY DEF Send, Frame

\* What every step that handles a frame leaves behind, replies included.
RepliesOK(r) == \A i \in DOMAIN r : r[i].type \in FromGateway /\ r[i] \in Frame(r[i].type)

LEMMA NoReply == RepliesOK(<<>>)
BY DEF RepliesOK

LEMMA OneFrame ==
    ASSUME NEW answer \in FromGateway, NEW r \in Frame(answer), r.type = answer
    PROVE  RepliesOK(<<r>>)
BY DEF RepliesOK

LEMMA OneReply ==
    ASSUME NEW type \in FromClient, NEW f \in Frame(type), NEW answer \in FromGateway,
           NEW cid \in Nat, NEW data \in Payload(answer)
    PROVE  RepliesOK(<<Send(f, answer, cid, data)>>)
BY SendType, OneFrame
-------------------------------------------------------------------------------
(* Type correctness.                                                          *)

\* A handler that keeps the table, answers with frames and publishes messages
\* keeps the type of everything.
StepTypeOK == table' \in Table /\ RepliesOK(replies') /\ published' \subseteq Publication

LEMMA SessionUpdate ==
    ASSUME table \in Table, NEW type, NEW f \in Frame(type), HasSession(table, f.mac)
    PROVE  /\ Session(f) \in Device
           /\ \A d \in Device : Update(f, d) \in Table
<1>1. SessionFor(table, f.mac) \in Device
  BY SessionForType DEF Frame
<1> QED
  BY <1>1, ReplaceType DEF Session, Seen, Device, Update

LEMMA HandshakeTypes ==
    ASSUME table \in Table, NEW type \in FromClient, NEW f \in Frame(type), NEW n \in Nonce,
           HandleConnect(f, n) \/ HandleAuth(f)
    PROVE  StepTypeOK
<1>1. f.mac \in Mac /\ f.type = type /\ f.data \in Payload(type)
  BY DEF Frame
<1>2. CASE HandleConnect(f, n)
  <2>1. f.data \in Nonce
    BY <1>1, <1>2, Payloads DEF HandleConnect
  <2>2. PICK addOk \in AddOk, secured \in Securable, sent \in BOOLEAN :
          LET begun == BeginHandshake(table, f.mac, f.data, n, addOk, secured) IN
          IF begun.ok
          THEN /\ table' = IF sent THEN begun.t ELSE AbandonHandshake(begun.t, f.mac, secured)
               /\ replies' = <<Send(f, "CHALLENGE", 0, n)>>
          ELSE table' = begun.t /\ replies' = <<>>
    BY <1>2 DEF HandleConnect
  <2>3. addOk \in BOOLEAN
    BY DEF AddOk
  <2> DEFINE begun == BeginHandshake(table, f.mac, f.data, n, addOk, secured)
  <2>4. begun.t \in Table
    BY <1>1, <2>1, <2>3, BeginHandshakeType
  <2>5. AbandonHandshake(begun.t, f.mac, secured) \in Table
    BY <1>1, <2>4, AbandonHandshakeType
  <2>6. RepliesOK(<<Send(f, "CHALLENGE", 0, n)>>)
    BY OneReply, Payloads DEF FromGateway
  <2>7. published' = {}
    BY <1>2 DEF HandleConnect
  <2> HIDE DEF begun
  <2> QED
    BY <2>2, <2>4, <2>5, <2>6, <2>7, NoReply DEF StepTypeOK, begun
<1>3. CASE HandleAuth(f)
  <2>1. HasPending(table, f.mac) /\ published' = {}
    BY <1>3 DEF HandleAuth
  <2>2. CASE RejectAuth(f)
    <3>1. RepliesOK(<<Send(f, "ERROR", 0, "AUTH_FAILED")>>)
      BY OneReply, Payloads DEF FromGateway, ErrorCode
    <3> QED
      BY <1>1, <2>1, <2>2, <3>1, AbandonHandshakeType DEF RejectAuth, StepTypeOK
  <2>3. ASSUME NEW lmkOk \in BOOLEAN, RefuseAuth(f, lmkOk)
        PROVE  StepTypeOK
    BY <1>1, <2>1, <2>3, AbandonHandshakeType, NoReply DEF RefuseAuth, StepTypeOK
  <2>4. CASE AcceptAuth(f)
    <3>1. PICK cid \in Cid, secured \in Securable, sent \in BOOLEAN :
            LET done == CompleteHandshake(table, f.mac, cid) IN
            /\ replies' = <<Send(f, "CONNACK", cid, NoData)>>
            /\ table' = IF sent
                        THEN SecureSession(done, f.mac, KeyOf(PendingFor(table, f.mac)), secured)
                        ELSE EraseSession(done, f.mac, FALSE)
      BY <2>4 DEF AcceptAuth
    <3> DEFINE done == CompleteHandshake(table, f.mac, cid)
    <3>2. done \in Table /\ HasSession(done, f.mac)
      BY <1>1, CompleteHandshakeType
    <3>3. KeyOf(PendingFor(table, f.mac)) \in Key
      BY <1>1, <2>1, KeyOfType
    <3>4. /\ SecureSession(done, f.mac, KeyOf(PendingFor(table, f.mac)), secured) \in Table
          /\ EraseSession(done, f.mac, FALSE) \in Table
      BY <1>1, <3>2, <3>3, SecureSessionType, EraseSessionType
    <3>5. RepliesOK(<<Send(f, "CONNACK", cid, NoData)>>)
      BY OneReply, Payloads DEF FromGateway, Cid
    <3> QED
      BY <2>1, <3>1, <3>4, <3>5 DEF StepTypeOK
  <2> QED
    BY <1>3, <2>2, <2>3, <2>4 DEF HandleAuth
<1> QED
  BY <1>2, <1>3

LEMMA SessionFrameTypes ==
    ASSUME table \in Table, NEW type \in FromClient, NEW f \in Frame(type),
           HasSession(table, f.mac), HandleSessionFrame(f)
    PROVE  StepTypeOK
<1>1. f.mac \in Mac /\ f.type = type /\ f.cid \in Nat /\ f.data \in Payload(type)
  BY DEF Frame
<1>2. Session(f) \in Device /\ \A d \in Device : Update(f, d) \in Table
  BY SessionUpdate
<1>3. \A ok \in BOOLEAN : RepliesOK(<<Answer(f, ok)>>)
  <2>1. RepliesOK(<<Send(f, "ACK", f.cid, NoData)>>) /\ RepliesOK(<<Send(f, "ERROR", f.cid, "REJECTED")>>)
    BY <1>1, OneReply, Payloads DEF FromGateway, ErrorCode
  <2> QED
    BY <2>1 DEF Answer
<1>4. CASE HandlePing(f)
  <2>1. [Session(f) EXCEPT !.state = "CONNECTED"] \in Device
    BY <1>2 DEF Device
  <2>2. RepliesOK(<<Send(f, "PONG", f.cid, NoData)>>)
    BY <1>1, OneReply, Payloads DEF FromGateway
  <2> QED
    BY <1>2, <1>4, <2>1, <2>2 DEF HandlePing, StepTypeOK
<1>5. CASE HandleDisconnect(f)
  BY <1>1, <1>5, EraseSessionType, NoReply DEF HandleDisconnect, StepTypeOK
<1>6. CASE HandleSubscribe(f)
  <2>1. SubscribeOk(Session(f), f.data) \in BOOLEAN
    BY DEF SubscribeOk
  <2>2. SubscribeOk(Session(f), f.data) => Subscribed(Session(f), f.data) \in Device
    BY <1>2 DEF SubscribeOk, Subscribed, Device
  <2> QED
    BY <1>2, <1>3, <1>6, <2>1, <2>2 DEF HandleSubscribe, StepTypeOK
<1>7. CASE HandleUnsubscribe(f)
  <2>1. UnsubscribeOk(Session(f), f.data) \in BOOLEAN
    BY DEF UnsubscribeOk
  <2>2. Unsubscribed(Session(f), f.data) \in Device
    BY <1>2 DEF Unsubscribed, Device
  <2> QED
    BY <1>2, <1>3, <1>7, <2>1, <2>2 DEF HandleUnsubscribe, StepTypeOK
<1>8. CASE HandleMessage(f)
  BY <1>1, <1>2, <1>8, NoReply DEF HandleMessage, StepTypeOK, Publication
<1>9. CASE HandleLastWill(f)
  <2>1. f.data \in Will => [Session(f) EXCEPT !.will = f.data] \in Device
    BY <1>2 DEF Device
  <2>2. RepliesOK(<<Answer(f, f.data \in Will)>>)
    <3>1. CASE f.data \in Will
      BY <1>3, <3>1 DEF Answer
    <3>2. CASE f.data \notin Will
      BY <1>3, <3>2 DEF Answer
    <3> QED
      BY <3>1, <3>2
  <2> QED
    BY <1>2, <1>9, <2>1, <2>2 DEF HandleLastWill, StepTypeOK
<1>10. CASE HandleOther(f)
  BY <1>2, <1>10, NoReply DEF HandleOther, StepTypeOK
<1> QED
  BY <1>4, <1>5, <1>6, <1>7, <1>8, <1>9, <1>10 DEF HandleSessionFrame
LEMMA PacketTypes ==
    ASSUME table \in Table, NEW type \in FromClient, NEW f \in Frame(type), NEW n \in Nonce,
           HandlePacket(f, n)
    PROVE  StepTypeOK
<1>1. f.mac \in Mac /\ f.type = type /\ f.cid \in Nat /\ f.data \in Payload(type)
  BY DEF Frame
<1>2. IgnoreFrame => StepTypeOK
  BY NoReply DEF IgnoreFrame, StepTypeOK
<1>3. CASE f.type = "INVALID"
  <2>1. CASE HasSession(table, f.mac) /\ ~Paused(table, f.mac)
    <3>1. PICK error \in {"UNSUPPORTED_VERSION", "INVALID_FRAME"} :
            /\ replies' = <<[Send(f, "ERROR", SessionFor(table, f.mac).cid, error) EXCEPT !.id = 0]>>
            /\ published' = {} /\ UNCHANGED table
      BY <1>3, <2>1 DEF HandlePacket, HandleInvalid
    <3>2. SessionFor(table, f.mac).cid \in Nat
      BY <1>1, <2>1, SessionForType DEF Device, Cid
    <3>3. Send(f, "ERROR", SessionFor(table, f.mac).cid, error) \in Frame("ERROR")
      BY <3>2, SendType, Payloads DEF FromGateway, ErrorCode
    <3>4. [Send(f, "ERROR", SessionFor(table, f.mac).cid, error) EXCEPT !.id = 0] \in Frame("ERROR")
      BY <3>3 DEF Frame
    <3>5. [Send(f, "ERROR", SessionFor(table, f.mac).cid, error) EXCEPT !.id = 0].type = "ERROR"
      BY <3>4 DEF Frame
    <3>6. RepliesOK(replies')
      BY <3>1, <3>4, <3>5, OneFrame DEF FromGateway
    <3> QED
      BY <3>1, <3>6 DEF StepTypeOK
  <2>2. CASE ~(HasSession(table, f.mac) /\ ~Paused(table, f.mac))
    BY <1>2, <1>3, <2>2 DEF HandlePacket, HandleInvalid
  <2> QED
    BY <2>1, <2>2
<1>4. CASE f.type # "INVALID"
  <2> DEFINE verdict == Admit(table, f.mac, f.type, f.cid)
  <2>1. HandleValid(f, n)
    BY <1>4 DEF HandlePacket
  <2>2. verdict \in {"SESSION", "INVALID_SESSION", "NOT_CONNECTED"} => HasSession(table, f.mac)
    BY DEF Admit, Deaf
  <2>3. CASE HandleConnect(f, n) \/ HandleAuth(f)
    BY <2>3, HandshakeTypes
  <2>4. CASE verdict = "SESSION" /\ HandleSessionFrame(f)
    BY <2>2, <2>4, SessionFrameTypes
  <2>5. CASE RefuseFrame(f, 0, "INVALID_SESSION")
    BY <2>5, OneReply, Payloads DEF RefuseFrame, StepTypeOK, FromGateway, ErrorCode
  <2>6. CASE verdict = "NOT_CONNECTED" /\ RefuseFrame(f, SessionFor(table, f.mac).cid, "NOT_CONNECTED")
    <3>1. SessionFor(table, f.mac).cid \in Nat
      BY <1>1, <2>2, <2>6, SessionForType DEF Device, Cid
    <3> QED
      BY <2>6, <3>1, OneReply, Payloads DEF RefuseFrame, StepTypeOK, FromGateway, ErrorCode
  <2>7. CASE IgnoreFrame
    BY <1>2, <2>7
  <2> QED
    BY <2>1, <2>3, <2>4, <2>5, <2>6, <2>7 DEF HandleValid
<1> QED
  BY <1>3, <1>4

LEMMA ReceivedFrame ==
    ASSUME TypeOK, NEW mac \in Mac, NEW type \in FromClient, Receive(mac, type)
    PROVE  \E f \in Frame(type), n \in Nonce : HandlePacket(f, n)
<1>1. PICK id \in MsgId, cid \in Cids(type), data \in Sendable(type, mac), n \in Nonce :
        HandlePacket([mac |-> mac, type |-> type, id |-> id, cid |-> cid, data |-> data], n)
  BY DEF Receive
<1>2. cid \in Nat
  BY DEF Cids, Cid
<1>3. data \in Payload(type)
  BY SendableType DEF TypeOK
<1>4. [mac |-> mac, type |-> type, id |-> id, cid |-> cid, data |-> data] \in Frame(type)
  BY <1>2, <1>3 DEF Frame
<1> QED
  BY <1>1, <1>4

\* The wills a pass publishes are wills of sessions.
LEMMA LostTypes ==
    ASSUME table \in Table, NEW secured
    PROVE  {[mac |-> d.mac, what |-> d.will] : d \in Lost(table, secured)} \subseteq Publication
<1>1. AbandonTimedOut(table, secured) \in Table
  BY AbandonTimedOutType
<1>2. \A d \in Lost(table, secured) : d \in Device /\ d.will # NoWill
  BY <1>1 DEF Lost, Gone, Table
<1> QED
  BY <1>2 DEF Publication, Device

\* A packet leaves everything well typed,
LEMMA PacketKeepsTypes ==
    ASSUME TypeOK, NEW type \in FromClient, NEW f \in Frame(type), NEW n \in Nonce, HandlePacket(f, n)
    PROVE  TypeOK'
<1>1. frame' = f /\ up' = up /\ f.type = type
  BY DEF HandlePacket, Frame
<1>2. StepTypeOK
  BY PacketTypes DEF TypeOK
<1> QED
  BY <1>1, <1>2 DEF StepTypeOK, RepliesOK, TypeOK

\* and so does what the task does by itself.
ByItself == ExpirePass \/ Tick \/ Shutdown \/ Start

LEMMA ByItselfKeepsTypes ==
    ASSUME TypeOK, ByItself
    PROVE  TypeOK'
<1>1. table \in Table /\ up \in BOOLEAN
  BY DEF TypeOK
<1>2. StepTypeOK /\ up' \in BOOLEAN /\ frame' = NoFrame => TypeOK'
  BY DEF StepTypeOK, RepliesOK, TypeOK
<1>3. CASE ExpirePass
  <2>1. PICK secured \in Securable :
          /\ table' = Expire(table, secured)
          /\ published' = {[mac |-> d.mac, what |-> d.will] : d \in Lost(table, secured)}
    BY <1>3 DEF ExpirePass
  <2>2. StepTypeOK
    BY <1>1, <1>3, <2>1, ExpireType, LostTypes, NoReply DEF ExpirePass, StepTypeOK
  <2> QED
    BY <1>1, <1>2, <1>3, <2>2 DEF ExpirePass
<1>4. CASE Tick
  BY <1>1, <1>2, <1>4, AgedType, NoReply DEF Tick, StepTypeOK
<1>5. CASE Shutdown
  BY <1>1, <1>2, <1>5, ResetType, NoReply DEF Shutdown, StepTypeOK
<1>6. CASE Start
  BY <1>1, <1>2, <1>6, NoReply DEF Start, StepTypeOK
<1> QED
  BY <1>3, <1>4, <1>5, <1>6 DEF ByItself

\* The session table, the handshakes, the peers and every frame the broker
\* sends keep their types, whatever the stations send and the radio refuses.
THEOREM TypeCorrect == Spec => []TypeOK
<1>1. Init => TypeOK
  BY EmptyTableType, NoReply DEF Init, TypeOK, RepliesOK
<1>2. TypeOK /\ [Next]_vars => TypeOK'
  <2> SUFFICES ASSUME TypeOK, [Next]_vars
               PROVE  TypeOK'
    OBVIOUS
  <2>1. ASSUME NEW mac \in Mac, NEW type \in FromClient, Receive(mac, type)
        PROVE  TypeOK'
    BY <2>1, ReceivedFrame, PacketKeepsTypes
  <2>2. CASE UNCHANGED vars
    BY <2>2 DEF vars, TypeOK
  <2> QED
    BY <2>1, <2>2, ByItselfKeepsTypes DEF Next, ByItself
<1> QED
  BY <1>1, <1>2, PTL DEF Spec
-------------------------------------------------------------------------------
(* Consistency.  UniqueSessions and OneHandshakePerMac are inductive for the  *)
(* table's operations.  The agreement with the radio is stated station by     *)
(* station: what an operation on one station leaves alone is everything about *)
(* every other one.                                                           *)

Distinct(t) == \A d, e \in t.devices : d.mac = e.mac \/ d.cid = e.cid => d = e
Keyed(t) == \A d \in t.devices : d.state # "AUTHENTICATED" /\ d.key # NoKey
OneEach(t) ==
    \A r, s \in Slot : Active(t, r) /\ Active(t, s) /\ t.pending[r].mac = t.pending[s].mac => r = s

\* The sessions, the handshake and the peer of one station are consistent.
Station(t, m) ==
    /\ \A d \in t.devices : d.mac = m => (d.suspended <=> HasPending(t, m))
    /\ \A d \in t.devices : d.mac = m /\ ~d.suspended => t.peers[m] = d.key
    /\ HasPending(t, m) => t.peers[m] = Plain
    /\ t.peers[m] # NoPeer => HasSession(t, m) \/ HasPending(t, m)

Sound(t) == Distinct(t) /\ Keyed(t) /\ OneEach(t)
PeersAgree(t) == \A m \in Mac : Station(t, m)

\* What an operation leaves alone.
SameSessions(t, u, m) == \A d \in Device : d.mac = m => (d \in u.devices <=> d \in t.devices)
SameView(t, u, m) ==
    SameSessions(t, u, m) /\ (HasPending(u, m) <=> HasPending(t, m)) /\ u.peers[m] = t.peers[m]

LEMMA SameStation ==
    ASSUME NEW t \in Table, NEW u \in Table, NEW m \in Mac, SameView(t, u, m), Station(t, m)
    PROVE  Station(u, m)
<1>1. \A d \in Device : d.mac = m => (d \in u.devices <=> d \in t.devices)
  BY DEF SameView, SameSessions
<1>2. u.devices \subseteq Device /\ t.devices \subseteq Device
  BY DEF Table
<1>3. HasSession(u, m) <=> HasSession(t, m)
  BY <1>1, <1>2 DEF HasSession
<1> QED
  BY <1>1, <1>2, <1>3 DEF SameView, Station

\* A lookup finds the station's only session.
LEMMA SessionForIs ==
    ASSUME NEW t \in Table, Distinct(t), NEW d \in t.devices
    PROVE  /\ HasSession(t, d.mac)
           /\ SessionFor(t, d.mac) = d
           /\ Paused(t, d.mac) <=> d.suspended
<1>1. HasSession(t, d.mac) /\ d.mac \in Mac
  BY DEF HasSession, Table, Device
<1>2. SessionFor(t, d.mac) = d
  BY <1>1, SessionForType DEF Distinct
<1> QED
  BY <1>1, <1>2 DEF Paused

\* A session replaced by a later version of itself.
LEMMA ReplaceSound ==
    ASSUME NEW t \in Table, Sound(t), NEW d \in t.devices, NEW e \in Device,
           e.mac = d.mac, e.cid = d.cid, e.state # "AUTHENTICATED", e.key # NoKey
    PROVE  /\ Sound(Replace(t, d, e))
           /\ \A m \in Mac \ {d.mac} : SameView(t, Replace(t, d, e), m)
<1> DEFINE u == Replace(t, d, e)
<1>1. /\ u.devices = (t.devices \ {d}) \cup {e}
      /\ u.pending = t.pending /\ u.peers = t.peers
  BY DEF Replace, Table
<1>2. Distinct(u) /\ Keyed(u)
  BY <1>1 DEF Sound, Distinct, Keyed
<1>3. OneEach(u) /\ \A m \in Mac : HasPending(u, m) <=> HasPending(t, m)
  BY <1>1 DEF Sound, OneEach, HasPending, PendingSlots, Active
<1>4. \A m \in Mac \ {d.mac} : SameSessions(t, u, m)
  BY <1>1 DEF SameSessions
<1> QED
  BY <1>1, <1>2, <1>3, <1>4 DEF Sound, SameView

LEMMA ReplaceAgreed ==
    ASSUME NEW t \in Table, Sound(t), PeersAgree(t), NEW d \in t.devices, NEW e \in Device,
           e.mac = d.mac, e.cid = d.cid, e.state # "AUTHENTICATED", e.key = d.key,
           e.suspended = d.suspended
    PROVE  Sound(Replace(t, d, e)) /\ PeersAgree(Replace(t, d, e))
<1> DEFINE u == Replace(t, d, e)
<1>1. u \in Table /\ d.mac \in Mac
  BY ReplaceType DEF Table, Device
<1>2. e.key # NoKey
  BY DEF Sound, Keyed
<1>3. Sound(u) /\ \A m \in Mac \ {d.mac} : SameView(t, u, m)
  BY <1>2, ReplaceSound
<1>4. \A m \in Mac \ {d.mac} : Station(u, m)
  BY <1>1, <1>3, SameStation DEF PeersAgree
<1>5. Station(u, d.mac)
  <2>1. /\ u.devices = (t.devices \ {d}) \cup {e}
        /\ u.pending = t.pending /\ u.peers = t.peers
    BY DEF Replace, Table
  <2>2. HasPending(u, d.mac) <=> HasPending(t, d.mac)
    BY <2>1 DEF HasPending, PendingSlots, Active
  <2>3. HasSession(u, d.mac) /\ HasSession(t, d.mac)
    BY <2>1 DEF HasSession
  <2>4. Station(t, d.mac)
    BY <1>1 DEF PeersAgree
  <2>5. \A c \in u.devices : c.mac = d.mac => c = e
    BY <2>1 DEF Sound, Distinct
  <2> QED
    BY <2>1, <2>2, <2>3, <2>4, <2>5 DEF Station
<1> QED
  BY <1>3, <1>4, <1>5 DEF PeersAgree

LEMMA EraseSessionSound ==
    ASSUME NEW t \in Table, NEW mac \in Mac, NEW keep \in BOOLEAN, Distinct(t), OneEach(t),
           \A d \in t.devices : d.mac # mac => d.state # "AUTHENTICATED" /\ d.key # NoKey
    PROVE  LET u == EraseSession(t, mac, keep) IN
           /\ Sound(u)
           /\ ~HasSession(u, mac)
           /\ \A m \in Mac : HasPending(u, m) <=> HasPending(t, m)
           /\ u.peers[mac] = IF keep \/ ~HasSession(t, mac) THEN t.peers[mac] ELSE NoPeer
           /\ \A m \in Mac \ {mac} : SameView(t, u, m)
<1> DEFINE u == EraseSession(t, mac, keep)
<1>1. /\ u.devices = {d \in t.devices : d.mac # mac}
      /\ u.pending = t.pending
      /\ u.peers = [t.peers EXCEPT ![mac] = IF keep \/ ~HasSession(t, mac) THEN @ ELSE NoPeer]
  BY DEF EraseSession, Table
<1>2. Distinct(u) /\ Keyed(u)
  BY <1>1 DEF Distinct, Keyed
<1>3. OneEach(u) /\ \A m \in Mac : HasPending(u, m) <=> HasPending(t, m)
  BY <1>1 DEF OneEach, HasPending, PendingSlots, Active
<1>4. ~HasSession(u, mac)
  BY <1>1 DEF HasSession
<1>5. t.peers \in [Mac -> Key \cup {Plain, NoPeer}]
  BY DEF Table
<1>6. \A m \in Mac \ {mac} : SameView(t, u, m)
  BY <1>1, <1>3, <1>5 DEF SameView, SameSessions
<1> QED
  BY <1>1, <1>2, <1>3, <1>4, <1>5, <1>6 DEF Sound

\* Ending the session of a station that is not shaking hands forgets it.
LEMMA EraseSessionAgreed ==
    ASSUME NEW t \in Table, NEW mac \in Mac, Sound(t), ~HasPending(t, mac), HasSession(t, mac),
           \A m \in Mac \ {mac} : Station(t, m)
    PROVE  Sound(EraseSession(t, mac, FALSE)) /\ PeersAgree(EraseSession(t, mac, FALSE))
<1> DEFINE u == EraseSession(t, mac, FALSE)
<1>1. u \in Table
  BY EraseSessionType
<1>2. /\ Sound(u) /\ ~HasSession(u, mac) /\ ~HasPending(u, mac) /\ u.peers[mac] = NoPeer
      /\ \A m \in Mac \ {mac} : SameView(t, u, m)
  BY EraseSessionSound DEF Sound, Keyed
<1>3. Station(u, mac)
  BY <1>2 DEF Station, HasSession
<1> QED
  BY <1>1, <1>2, <1>3, SameStation DEF PeersAgree
LEMMA FreePendingView ==
    ASSUME NEW t \in Table, NEW mac \in Mac
    PROVE  LET u == FreePending(t, mac) IN
           /\ u.devices = t.devices /\ u.peers = t.peers
           /\ ~HasPending(u, mac)
           /\ \A m \in Mac \ {mac} : SameView(t, u, m)
           /\ Sound(t) => Sound(u)
<1> DEFINE u == FreePending(t, mac)
<1>1. /\ u.devices = t.devices /\ u.peers = t.peers
      /\ u.pending = [s \in Slot |-> IF s \in PendingSlots(t, mac) THEN Free ELSE t.pending[s]]
  BY DEF FreePending, Table
<1>2. \A s \in Slot : /\ Active(u, s) <=> Active(t, s) /\ t.pending[s].mac # mac
                      /\ Active(u, s) => u.pending[s] = t.pending[s]
  BY <1>1 DEF Active, PendingSlots
<1>3. ~HasPending(u, mac)
  BY <1>2 DEF HasPending, PendingSlots
<1>4. \A m \in Mac \ {mac} : PendingSlots(u, m) = PendingSlots(t, m)
  BY <1>2 DEF PendingSlots
<1>5. Sound(t) => Sound(u)
  BY <1>1, <1>2 DEF Sound, Distinct, Keyed, OneEach
<1> QED
  BY <1>1, <1>3, <1>4, <1>5 DEF SameView, SameSessions, HasPending

LEMMA SetPeerView ==
    ASSUME NEW t \in Table, NEW mac \in Mac, NEW p \in Key \cup {Plain, NoPeer}
    PROVE  LET u == SetPeer(t, mac, p) IN
           /\ u.devices = t.devices /\ u.pending = t.pending /\ u.peers[mac] = p
           /\ \A m \in Mac : HasSession(u, m) <=> HasSession(t, m)
           /\ \A m \in Mac : HasPending(u, m) <=> HasPending(t, m)
           /\ \A m \in Mac \ {mac} : SameView(t, u, m)
           /\ Sound(t) => Sound(u)
<1> DEFINE u == SetPeer(t, mac, p)
<1>1. u.devices = t.devices /\ u.pending = t.pending /\ u.peers = [t.peers EXCEPT ![mac] = p]
  BY DEF SetPeer, Table
<1>2. t.peers \in [Mac -> Key \cup {Plain, NoPeer}]
  BY DEF Table
<1>3. \A m \in Mac : HasPending(u, m) <=> HasPending(t, m)
  BY <1>1 DEF HasPending, PendingSlots, Active
<1>4. Sound(t) => Sound(u)
  BY <1>1 DEF Sound, Distinct, Keyed, OneEach, Active
<1> QED
  BY <1>1, <1>2, <1>3, <1>4 DEF SameView, SameSessions, HasSession

LEMMA ResumeAgreed ==
    ASSUME NEW t \in Table, Sound(t), NEW mac \in Mac, HasSession(t, mac), ~HasPending(t, mac)
    PROVE  LET u == Resume(t, mac) IN
           /\ Sound(u)
           /\ ~HasPending(u, mac)
           /\ \A m \in Mac \ {mac} : SameView(t, u, m)
           /\ Station(u, mac)
<1> DEFINE d == SessionFor(t, mac)
           e == [d EXCEPT !.suspended = FALSE]
           r == Replace(t, d, e)
           u == SetPeer(r, mac, d.key)
<1>1. d \in t.devices /\ d \in Device /\ d.mac = mac
  BY SessionForType
<1>2. d.key # NoKey /\ d.state # "AUTHENTICATED"
  BY <1>1 DEF Sound, Keyed
<1>3. e \in Device /\ e.mac = mac /\ e.cid = d.cid /\ e.state = d.state /\ e.key = d.key /\ ~e.suspended
  BY <1>1 DEF Device
<1>4. r \in Table /\ Sound(r) /\ \A m \in Mac \ {mac} : SameView(t, r, m)
  BY <1>1, <1>2, <1>3, ReplaceType, ReplaceSound
<1>5. r.devices = (t.devices \ {d}) \cup {e} /\ r.pending = t.pending
  BY DEF Replace, Table
<1>6. ~HasPending(r, mac)
  BY <1>5 DEF HasPending, PendingSlots, Active
<1>7. d.key \in Key
  BY <1>1, <1>2 DEF Device
<1> HIDE DEF d, e, r
<1>8. /\ u.devices = r.devices /\ u.peers[mac] = d.key /\ ~HasPending(u, mac)
      /\ \A m \in Mac \ {mac} : SameView(r, u, m)
      /\ Sound(u)
  BY <1>4, <1>6, <1>7, SetPeerView
<1>9. \A m \in Mac \ {mac} : SameView(t, u, m)
  BY <1>4, <1>8 DEF SameView, SameSessions
<1>10. \A c \in u.devices : c.mac = mac => c = e
  BY <1>3, <1>5, <1>8 DEF Sound, Distinct
<1>11. Station(u, mac)
  BY <1>3, <1>5, <1>8, <1>10 DEF Station, HasSession
<1> QED
  BY <1>8, <1>9, <1>11 DEF Resume, d, e, r

LEMMA AbandonHandshakeSound ==
    ASSUME NEW t \in Table, Sound(t), NEW mac \in Mac, NEW secured
    PROVE  LET u == AbandonHandshake(t, mac, secured) IN
           /\ Sound(u)
           /\ ~HasPending(u, mac)
           /\ \A m \in Mac \ {mac} : SameView(t, u, m)
           /\ Station(t, mac) => Station(u, mac)
<1> DEFINE freed == FreePending(t, mac)
           u == AbandonHandshake(t, mac, secured)
<1>1. /\ freed \in Table /\ Sound(freed) /\ ~HasPending(freed, mac)
      /\ freed.devices = t.devices /\ freed.peers = t.peers
      /\ \A m \in Mac \ {mac} : SameView(t, freed, m)
  BY FreePendingType, FreePendingView
<1>2. \A v \in Table : (\A m \in Mac \ {mac} : SameView(freed, v, m))
                       => \A m \in Mac \ {mac} : SameView(t, v, m)
  BY <1>1 DEF SameView, SameSessions
<1>3. HasSession(freed, mac) <=> HasSession(t, mac)
  BY <1>1 DEF HasSession
<1>4. CASE ~HasPending(t, mac)
  BY <1>4 DEF AbandonHandshake, SameView, SameSessions
<1>5. CASE HasPending(t, mac) /\ ~HasSession(t, mac)
  <2>1. u = SetPeer(freed, mac, NoPeer) /\ u \in Table
    BY <1>1, <1>5, SetPeerType DEF AbandonHandshake
  <2>2. /\ Sound(u) /\ ~HasPending(u, mac) /\ ~HasSession(u, mac) /\ u.peers[mac] = NoPeer
        /\ \A m \in Mac \ {mac} : SameView(freed, u, m)
    BY <1>1, <1>3, <1>5, <2>1, SetPeerView
  <2>3. Station(u, mac)
    BY <2>2 DEF Station, HasSession
  <2> QED
    BY <1>2, <2>1, <2>2, <2>3
<1>6. CASE HasPending(t, mac) /\ HasSession(t, mac) /\ ~Paused(t, mac)
  <2>1. u = freed
    BY <1>6 DEF AbandonHandshake
  <2>2. SessionFor(t, mac) \in t.devices /\ SessionFor(t, mac).mac = mac /\ ~SessionFor(t, mac).suspended
    BY <1>6, SessionForType DEF Paused
  <2>3. ~Station(t, mac)
    BY <1>6, <2>2 DEF Station
  <2> QED
    BY <1>1, <2>1, <2>3
<1>7. CASE HasPending(t, mac) /\ Paused(t, mac) /\ Restorable(t, mac, secured)
  <2>1. HasSession(t, mac)
    BY <1>7 DEF Paused
  <2>2. u = Resume(freed, mac)
    BY <1>7, <2>1 DEF AbandonHandshake
  <2>3. SessionFor(freed, mac).key # NoKey
    BY <1>7, FreePendingSessions DEF Restorable
  <2>4. u \in Table
    BY <1>1, <1>3, <2>1, <2>2, <2>3, ResumeType
  <2> QED
    BY <1>1, <1>2, <1>3, <2>1, <2>2, <2>4, ResumeAgreed
<1>8. CASE HasPending(t, mac) /\ Paused(t, mac) /\ ~Restorable(t, mac, secured)
  <2>1. HasSession(t, mac)
    BY <1>8 DEF Paused
  <2>2. u = EraseSession(freed, mac, FALSE) /\ u \in Table
    BY <1>1, <1>8, <2>1, EraseSessionType DEF AbandonHandshake
  <2> HIDE DEF u, freed
  <2>3. /\ Sound(u) /\ ~HasPending(u, mac) /\ ~HasSession(u, mac) /\ u.peers[mac] = NoPeer
        /\ \A m \in Mac \ {mac} : SameView(freed, u, m)
    BY <1>1, <1>3, <2>1, <2>2, EraseSessionSound DEF Sound, Keyed
  <2>4. Station(u, mac)
    BY <2>3 DEF Station, HasSession
  <2> QED
    BY <1>2, <2>2, <2>3, <2>4 DEF u
<1> QED
  BY <1>4, <1>5, <1>6, <1>7, <1>8 DEF Paused

\* Abandoning a handshake gives its station back what it had.
LEMMA AbandonHandshakeAgreed ==
    ASSUME NEW t \in Table, Sound(t), PeersAgree(t), NEW mac \in Mac, NEW secured
    PROVE  PeersAgree(AbandonHandshake(t, mac, secured))
<1> DEFINE u == AbandonHandshake(t, mac, secured)
<1>1. u \in Table
  BY AbandonHandshakeType
<1>2. Station(u, mac) /\ \A m \in Mac \ {mac} : SameView(t, u, m)
  BY AbandonHandshakeSound DEF PeersAgree
<1>3. \A m \in Mac \ {mac} : Station(u, m)
  BY <1>1, <1>2, SameStation DEF PeersAgree
<1> QED
  BY <1>2, <1>3 DEF PeersAgree
\* CONNECT: whatever the radio answers, at most one session and one handshake
\* per station; and when it turns the peer to plaintext, all of it agrees.
LEMMA SuspendView ==
    ASSUME NEW t \in Table, Sound(t), NEW mac \in Mac
    PROVE  LET u == Suspend(t, mac) IN
           /\ Sound(u)
           /\ u.pending = t.pending /\ u.peers = t.peers
           /\ \A d \in u.devices : d.mac = mac => d.suspended
           /\ \A m \in Mac \ {mac} : SameSessions(t, u, m)
<1> DEFINE u == Suspend(t, mac)
           Pause(d) == IF d.mac = mac THEN [d EXCEPT !.suspended = TRUE] ELSE d
<1>1. u.devices = {Pause(d) : d \in t.devices} /\ u.pending = t.pending /\ u.peers = t.peers
  BY DEF Suspend, Table
<1>2. \A d \in t.devices : /\ Pause(d) \in Device
                           /\ Pause(d).mac = d.mac /\ Pause(d).cid = d.cid
                           /\ Pause(d).state = d.state /\ Pause(d).key = d.key
                           /\ d.mac = mac => Pause(d).suspended
                           /\ d.mac # mac => Pause(d) = d
  BY DEF Table, Device
<1> HIDE DEF Pause
<1>3. Distinct(u)
  BY <1>1, <1>2 DEF Sound, Distinct
<1>4. Keyed(u) /\ OneEach(u)
  BY <1>1, <1>2 DEF Sound, Keyed, OneEach, Active
<1>5. \A m \in Mac \ {mac} : SameSessions(t, u, m)
  BY <1>1, <1>2 DEF SameSessions
<1> QED
  BY <1>1, <1>2, <1>3, <1>4, <1>5 DEF Sound

\* The slot a CONNECT takes is its sender's, or holds nothing once evicted.
LEMMA SlotView ==
    ASSUME NEW t \in Table, Sound(t), NEW mac \in Mac, NEW s \in SlotFor(t, mac), NEW secured
    PROVE  LET u == Evicted(t, s, mac, secured) IN
           /\ u \in Table /\ Sound(u)
           /\ PeersAgree(t) => PeersAgree(u)
           /\ Active(u, s) => u.pending[s].mac = mac
           /\ \A r \in Slot : Active(u, r) /\ u.pending[r].mac = mac => r = s
<1> DEFINE u == Evicted(t, s, mac, secured)
<1>1. s \in Slot
  BY DEF SlotFor, PendingSlots
<1>2. CASE HasPending(t, mac)
  <2>1. u = t
    BY <1>2 DEF Evicted
  <2>2. Active(t, s) /\ t.pending[s].mac = mac
    BY <1>2 DEF SlotFor, PendingSlots
  <2> QED
    BY <1>1, <2>1, <2>2 DEF Sound, OneEach
<1>3. CASE ~HasPending(t, mac) /\ ~Active(t, s)
  <2>1. u = t
    BY <1>3 DEF Evicted
  <2> QED
    BY <1>3, <2>1 DEF HasPending, PendingSlots
<1>4. CASE ~HasPending(t, mac) /\ Active(t, s)
  <2> DEFINE other == t.pending[s].mac
  <2>1. other \in Mac /\ u = AbandonHandshake(t, other, secured)
    BY <1>1, <1>4 DEF Evicted, Active, Table, PendingHandshake
  <2>2. other # mac
    BY <1>1, <1>4 DEF HasPending, PendingSlots
  <2>3. u \in Table /\ Sound(u) /\ (PeersAgree(t) => PeersAgree(u))
    BY <2>1, AbandonHandshakeType, AbandonHandshakeSound, AbandonHandshakeAgreed
  <2>4. ~HasPending(u, other) /\ ~HasPending(u, mac)
    BY <1>4, <2>1, <2>2, AbandonHandshakeSound DEF SameView
  <2>5. Active(u, s) => u.pending[s] = t.pending[s]
    BY <1>1, <2>1 DEF AbandonHandshake, FreePending, SetPeer, Resume, Replace, EraseSession, Active, Table
  <2>6. ~Active(u, s)
    BY <1>1, <2>4, <2>5 DEF HasPending, PendingSlots
  <2> QED
    BY <2>3, <2>4, <2>6 DEF HasPending, PendingSlots
<1> QED
  BY <1>2, <1>3, <1>4
LEMMA BeginHandshakeSound ==
    ASSUME NEW t \in Table, Sound(t), NEW mac \in Mac, NEW cn \in Nonce, NEW gn \in Nonce,
           NEW addOk \in BOOLEAN, NEW secured
    PROVE  LET u == BeginHandshake(t, mac, cn, gn, addOk, secured).t IN
           Sound(u) /\ (PeersAgree(t) /\ addOk => PeersAgree(u))
<1>1. CASE SlotFor(t, mac) = {}
  BY <1>1 DEF BeginHandshake
<1>2. CASE SlotFor(t, mac) # {}
  <2> DEFINE s == CHOOSE x \in SlotFor(t, mac) : TRUE
             cleared == Evicted(t, s, mac, secured)
             entry == [mac |-> mac, clientNonce |-> cn, gatewayNonce |-> gn, age |-> 0]
             paused == Suspend(cleared, mac)
             plain == SetPeer(paused, mac, Plain)
             begun == [plain EXCEPT !.pending[s] = entry]
             refused == [cleared EXCEPT !.pending[s] = Free]
             u == BeginHandshake(t, mac, cn, gn, addOk, secured).t
  <2>1. s \in SlotFor(t, mac) /\ s \in Slot
    BY <1>2 DEF SlotFor, PendingSlots
  <2>2. /\ cleared \in Table /\ Sound(cleared)
        /\ PeersAgree(t) => PeersAgree(cleared)
        /\ Active(cleared, s) => cleared.pending[s].mac = mac
        /\ \A r \in Slot : Active(cleared, r) /\ cleared.pending[r].mac = mac => r = s
    BY <2>1, SlotView
  <2>3. u = IF addOk THEN begun ELSE refused
    BY <1>2 DEF BeginHandshake
  <2>4. entry \in PendingHandshake /\ entry # Free /\ entry.mac = mac
    BY ManagerAssumption DEF PendingHandshake
  <2> HIDE DEF s, cleared, entry, u
  <2>5. Sound(refused)
    BY <2>1, <2>2 DEF Sound, Distinct, Keyed, OneEach, Active, Table
  <2>6. /\ paused \in Table /\ Sound(paused)
        /\ paused.pending = cleared.pending /\ paused.peers = cleared.peers
        /\ \A d \in paused.devices : d.mac = mac => d.suspended
        /\ \A m \in Mac \ {mac} : SameSessions(cleared, paused, m)
    BY <2>2, SuspendType, SuspendView
  <2> HIDE DEF paused
  <2>7. /\ plain \in Table /\ Sound(plain)
        /\ plain.devices = paused.devices /\ plain.pending = cleared.pending
        /\ plain.peers = [cleared.peers EXCEPT ![mac] = Plain]
    BY <2>6, SetPeerType, SetPeerView DEF SetPeer, Table
  <2> HIDE DEF plain
  <2>8. /\ begun \in Table
        /\ begun.devices = paused.devices
        /\ begun.pending = [cleared.pending EXCEPT ![s] = entry]
        /\ begun.peers = [cleared.peers EXCEPT ![mac] = Plain]
    BY <2>1, <2>4, <2>7 DEF Table
  <2> HIDE DEF begun
  <2>9. cleared.pending \in [Slot -> PendingHandshake \cup {Free}]
        /\ cleared.peers \in [Mac -> Key \cup {Plain, NoPeer}]
    BY <2>2 DEF Table
  <2>10. Sound(begun)
    <3>1. Distinct(begun) /\ Keyed(begun)
      BY <2>6, <2>8 DEF Sound, Distinct, Keyed
    <3>2. OneEach(begun)
      BY <2>1, <2>2, <2>4, <2>8, <2>9 DEF Sound, OneEach, Active
    <3> QED
      BY <3>1, <3>2 DEF Sound
  <2>11. ASSUME PeersAgree(t) PROVE PeersAgree(begun)
    <3>1. Station(begun, mac)
      <4>1. HasPending(begun, mac)
        BY <2>1, <2>4, <2>8, <2>9 DEF HasPending, PendingSlots, Active
      <4>2. begun.peers[mac] = Plain /\ \A d \in begun.devices : d.mac = mac => d.suspended
        BY <2>6, <2>8, <2>9
      <4> QED
        BY <4>1, <4>2 DEF Station
    <3>2. ASSUME NEW m \in Mac, m # mac
          PROVE  Station(begun, m)
      <4>1. HasPending(begun, m) <=> HasPending(cleared, m)
        <5>1. \A r \in Slot \ {s} : begun.pending[r] = cleared.pending[r]
          BY <2>1, <2>8, <2>9
        <5>2. begun.pending[s].mac = mac /\ (Active(cleared, s) => cleared.pending[s].mac = mac)
          BY <2>1, <2>2, <2>4, <2>8, <2>9
        <5> QED
          BY <3>2, <5>1, <5>2 DEF HasPending, PendingSlots, Active
      <4>2. SameView(cleared, begun, m)
        BY <2>6, <2>8, <2>9, <3>2, <4>1 DEF SameView, SameSessions
      <4> QED
        BY <2>2, <2>8, <2>11, <4>2, SameStation DEF PeersAgree
    <3> QED
      BY <3>1, <3>2 DEF PeersAgree
  <2> QED
    BY <2>3, <2>5, <2>10, <2>11 DEF u
<1> QED
  BY <1>1, <1>2

\* A verified AUTH: the new session, and once the key is installed the peer's.
LEMMA CompleteHandshakeSound ==
    ASSUME NEW t \in Table, Sound(t), NEW mac \in Mac, NEW cid \in Cid,
           FreeCid(Superseded(t, mac), cid)
    PROVE  LET u == CompleteHandshake(t, mac, cid) IN
           /\ Distinct(u) /\ OneEach(u)
           /\ HasSession(u, mac) /\ ~SessionFor(u, mac).suspended
           /\ ~HasPending(u, mac)
           /\ \A d \in u.devices : d.mac # mac => d.state # "AUTHENTICATED" /\ d.key # NoKey
           /\ \A m \in Mac \ {mac} : SameView(t, u, m)
<1> DEFINE freed == FreePending(t, mac)
           old == Superseded(t, mac)
           d == [mac |-> mac, cid |-> cid, state |-> "AUTHENTICATED", suspended |-> FALSE,
                 key |-> NoKey, silent |-> 0, subs |-> {}, will |-> NoWill]
           u == CompleteHandshake(t, mac, cid)
<1>1. freed \in Table /\ Sound(freed) /\ ~HasPending(freed, mac)
      /\ \A m \in Mac \ {mac} : SameView(t, freed, m)
  BY FreePendingType, FreePendingView
<1>2. old = EraseSession(freed, mac, TRUE) /\ old \in Table
  BY <1>1, EraseSessionType DEF Superseded
<1>3. /\ Sound(old) /\ ~HasSession(old, mac) /\ ~HasPending(old, mac)
      /\ \A m \in Mac \ {mac} : SameView(freed, old, m)
  <2> HIDE DEF freed, old
  <2> QED
    BY <1>1, <1>2, EraseSessionSound DEF Sound, Keyed
<1>4. d \in Device /\ d.mac = mac /\ d.cid = cid /\ ~d.suspended
  BY DEF Device
<1>5. u = [old EXCEPT !.devices = @ \cup {d}, !.nextCid = After(cid)] /\ u \in Table
  BY CompleteHandshakeType DEF CompleteHandshake
<1>6. \A c \in old.devices : c.cid # cid
  BY DEF FreeCid
<1> HIDE DEF freed, old, d, u
<1>7. u.devices = old.devices \cup {d} /\ u.pending = old.pending /\ u.peers = old.peers
  BY <1>2, <1>5 DEF Table
<1>8. \A c \in old.devices : c.mac # mac
  BY <1>3 DEF HasSession
<1>9. Distinct(u) /\ OneEach(u)
  BY <1>3, <1>4, <1>6, <1>7, <1>8 DEF Sound, Distinct, OneEach, Active
<1>10. SessionFor(u, mac) = d /\ HasSession(u, mac)
  BY <1>4, <1>5, <1>7, <1>9, SessionForIs
<1>11. \A m \in Mac : HasPending(u, m) <=> HasPending(old, m)
  BY <1>7 DEF HasPending, PendingSlots, Active
<1>12. \A m \in Mac \ {mac} : SameView(t, u, m)
  BY <1>1, <1>3, <1>4, <1>7, <1>11 DEF SameView, SameSessions
<1>13. \A c \in u.devices : c.mac # mac => c.state # "AUTHENTICATED" /\ c.key # NoKey
  BY <1>3, <1>4, <1>7 DEF Sound, Keyed
<1> QED
  BY <1>3, <1>4, <1>9, <1>10, <1>11, <1>12, <1>13 DEF u

LEMMA SecureSessionSound ==
    ASSUME NEW t \in Table, NEW mac \in Mac, NEW key \in Key, NEW secured,
           Distinct(t), OneEach(t), HasSession(t, mac), ~SessionFor(t, mac).suspended,
           ~HasPending(t, mac),
           \A d \in t.devices : d.mac # mac => d.state # "AUTHENTICATED" /\ d.key # NoKey
    PROVE  LET u == SecureSession(t, mac, key, secured)
               v == EraseSession(t, mac, FALSE)
           IN  /\ Sound(u) /\ Station(u, mac)
               /\ Sound(v) /\ Station(v, mac)
               /\ \A m \in Mac \ {mac} : SameView(t, u, m) /\ SameView(t, v, m)
<1> DEFINE v == EraseSession(t, mac, FALSE)
           u == SecureSession(t, mac, key, secured)
           d == SessionFor(t, mac)
           e == [d EXCEPT !.key = key, !.state = "SECURING"]
           r == Replace(t, d, e)
           k == SetPeer(r, mac, key)
<1>1. /\ Sound(v) /\ ~HasSession(v, mac) /\ ~HasPending(v, mac) /\ v.peers[mac] = NoPeer
      /\ \A m \in Mac \ {mac} : SameView(t, v, m)
  BY EraseSessionSound
<1>2. Station(v, mac)
  BY <1>1 DEF Station, HasSession
<1>3. d \in t.devices /\ d \in Device /\ d.mac = mac
  BY SessionForType
<1>4. /\ e \in Device /\ e.mac = mac /\ e.cid = d.cid /\ e.state = "SECURING"
      /\ e.key = key /\ key # NoKey /\ e.suspended = d.suspended
  BY <1>3, ManagerAssumption DEF Device
<1>5. u = (IF mac \in secured THEN k ELSE v)
  BY DEF SecureSession
<1>6. k \in Table /\ r \in Table
  BY <1>4, ReplaceType, SetPeerType
<1>7. r.devices = (t.devices \ {d}) \cup {e} /\ r.pending = t.pending /\ r.peers = t.peers
  BY DEF Replace, Table
<1> HIDE DEF d, e, r, v, u
<1>8. Sound(r)
  BY <1>3, <1>4, <1>7 DEF Sound, Distinct, Keyed, OneEach, Active
<1>9. \A m \in Mac : HasPending(r, m) <=> HasPending(t, m)
  BY <1>7 DEF HasPending, PendingSlots, Active
<1>10. /\ k.devices = r.devices /\ k.peers[mac] = key /\ Sound(k) /\ ~HasPending(k, mac)
       /\ \A m \in Mac \ {mac} : SameView(r, k, m)
  BY <1>6, <1>8, <1>9, SetPeerView
<1>11. \A m \in Mac \ {mac} : SameView(t, k, m)
  BY <1>3, <1>4, <1>7, <1>9, <1>10 DEF SameView, SameSessions
<1>12. \A c \in k.devices : c.mac = mac => c = e
  BY <1>4, <1>7, <1>10 DEF Sound, Distinct
<1>13. Station(k, mac)
  BY <1>4, <1>7, <1>10, <1>12 DEF Station, HasSession, d
<1> QED
  BY <1>1, <1>2, <1>5, <1>10, <1>11, <1>13 DEF u, v
\* expire(), first loop.
LEMMA AbandonTimedOutSound ==
    ASSUME NEW t \in Table, Sound(t), NEW secured
    PROVE  LET u == AbandonTimedOut(t, secured) IN
           Sound(u) /\ (PeersAgree(t) => PeersAgree(u))
<1> DEFINE out == TimedOut(t)
           resumed == {m \in out : Paused(t, m) /\ Restorable(t, m, secured)}
           ended == {m \in out : Paused(t, m) /\ ~Restorable(t, m, secured)}
           Woken(d) == IF d.mac \in resumed THEN [d EXCEPT !.suspended = FALSE] ELSE d
           u == AbandonTimedOut(t, secured)
<1>1. u \in Table
  BY AbandonTimedOutType
<1>2. /\ u.pending = [s \in Slot |-> IF Active(t, s) /\ t.pending[s].mac \in out THEN Free ELSE t.pending[s]]
      /\ u.devices = {Woken(d) : d \in {e \in t.devices : e.mac \notin ended}}
      /\ u.peers = [m \in Mac |-> IF m \in resumed THEN SessionFor(t, m).key
                                  ELSE IF m \in ended \/ (m \in out /\ ~HasSession(t, m)) THEN NoPeer
                                  ELSE t.peers[m]]
  BY DEF AbandonTimedOut, Table
<1>3. \A d \in t.devices : /\ Woken(d) \in Device
                           /\ Woken(d).mac = d.mac /\ Woken(d).cid = d.cid
                           /\ Woken(d).state = d.state /\ Woken(d).key = d.key
                           /\ d.mac \in resumed => ~Woken(d).suspended
                           /\ d.mac \notin resumed => Woken(d) = d
  BY DEF Table, Device
<1>4. \A s \in Slot : /\ Active(u, s) <=> Active(t, s) /\ t.pending[s].mac \notin out
                      /\ Active(u, s) => u.pending[s] = t.pending[s]
  BY <1>2 DEF Active
<1>5. \A m \in Mac : HasPending(u, m) <=> HasPending(t, m) /\ m \notin out
  BY <1>4 DEF HasPending, PendingSlots
<1>6. resumed \subseteq out /\ ended \subseteq out /\ resumed \cap ended = {}
  OBVIOUS
<1>7. \A m \in out : m \in Mac /\ HasPending(t, m)
  BY DEF TimedOut, HasPending, PendingSlots, Active, Table, PendingHandshake
<1>8. \A m \in out : Paused(t, m) => m \in resumed \/ m \in ended
  OBVIOUS
<1>9. \A m \in resumed : HasSession(t, m)
  BY DEF Paused
<1> HIDE DEF Woken, out, resumed, ended, u
<1>10. Sound(u)
  <2>1. Distinct(u)
    BY <1>2, <1>3 DEF Sound, Distinct
  <2>2. Keyed(u)
    BY <1>2, <1>3 DEF Sound, Keyed
  <2>3. OneEach(u)
    BY <1>4 DEF Sound, OneEach
  <2> QED
    BY <2>1, <2>2, <2>3 DEF Sound
<1>11. ASSUME PeersAgree(t), NEW m \in Mac
       PROVE  Station(u, m)
  <2>1. Station(t, m) /\ Sound(t)
    BY <1>11 DEF PeersAgree
  <2>2. CASE m \notin out
    <3>1. SameSessions(t, u, m)
      BY <1>2, <1>3, <1>6, <2>2 DEF SameSessions, Table
    <3>2. u.peers[m] = t.peers[m] /\ (HasPending(u, m) <=> HasPending(t, m))
      BY <1>2, <1>5, <1>6, <2>2
    <3> QED
      BY <1>1, <2>1, <3>1, <3>2, SameStation DEF SameView
  <2>3. CASE m \in resumed
    <3>1. ~HasPending(u, m) /\ HasSession(t, m) /\ m \notin ended
      BY <1>5, <1>6, <1>9, <2>3
    <3>2. PICK d \in t.devices : d = SessionFor(t, m) /\ d.mac = m
      BY <3>1, SessionForType
    <3>3. Woken(d) \in u.devices /\ Woken(d).mac = m /\ ~Woken(d).suspended /\ Woken(d).key = d.key
      BY <1>2, <1>3, <2>3, <3>1, <3>2
    <3>4. u.peers[m] = d.key
      BY <1>2, <2>3, <3>2
    <3>5. \A c \in u.devices : c.mac = m => c = Woken(d)
      BY <1>10, <3>3 DEF Sound, Distinct
    <3> QED
      BY <3>1, <3>3, <3>4, <3>5 DEF Station, HasSession
  <2>4. CASE m \in ended
    <3>1. ~HasPending(u, m) /\ u.peers[m] = NoPeer
      BY <1>2, <1>5, <1>6, <2>4
    <3>2. \A c \in u.devices : c.mac # m
      BY <1>2, <1>3, <2>4
    <3> QED
      BY <3>1, <3>2 DEF Station, HasSession
  <2>5. CASE m \in out /\ m \notin resumed /\ m \notin ended
    <3>1. HasPending(t, m) /\ ~Paused(t, m) /\ ~HasPending(u, m)
      BY <1>5, <1>7, <1>8, <2>5
    <3>2. \A d \in t.devices : d.mac # m
      BY <2>1, <3>1, SessionForIs DEF Station, Sound
    <3>3. ~HasSession(t, m) /\ \A c \in u.devices : c.mac # m
      BY <1>2, <1>3, <3>2 DEF HasSession
    <3>4. u.peers[m] = NoPeer
      BY <1>2, <2>5, <3>3
    <3> QED
      BY <3>1, <3>3, <3>4 DEF Station, HasSession
  <2> QED
    BY <2>2, <2>3, <2>4, <2>5
<1> QED
  BY <1>10, <1>11 DEF PeersAgree, u

\* expire(), second loop.
LEMMA EndSilentSound ==
    ASSUME NEW t \in Table, Sound(t)
    PROVE  LET u == EndSilent(t) IN
           Sound(u) /\ (PeersAgree(t) => PeersAgree(u))
<1> DEFINE u == EndSilent(t)
<1>1. /\ u \in Table
      /\ u.devices = t.devices \ Gone(t) /\ u.pending = t.pending
      /\ u.peers = [m \in Mac |-> IF \E d \in Gone(t) : d.mac = m THEN NoPeer ELSE t.peers[m]]
  BY EndSilentType DEF EndSilent, Table
<1>2. Gone(t) \subseteq t.devices /\ \A d \in Gone(t) : ~d.suspended
  BY DEF Gone, Silent
<1> HIDE DEF u
<1>3. Sound(u)
  BY <1>1 DEF Sound, Distinct, Keyed, OneEach, Active
<1>4. \A m \in Mac : HasPending(u, m) <=> HasPending(t, m)
  BY <1>1 DEF HasPending, PendingSlots, Active
<1>5. ASSUME PeersAgree(t), NEW m \in Mac
      PROVE  Station(u, m)
  <2>1. Station(t, m)
    BY <1>5 DEF PeersAgree
  <2>2. CASE \E d \in Gone(t) : d.mac = m
    <3>1. PICK d \in Gone(t) : d.mac = m
      BY <2>2
    <3>2. \A c \in u.devices : c.mac # m
      BY <1>1, <1>2, <3>1 DEF Sound, Distinct
    <3>3. ~HasPending(u, m) /\ u.peers[m] = NoPeer
      BY <1>1, <1>2, <1>4, <2>1, <3>1 DEF Station
    <3> QED
      BY <3>2, <3>3 DEF Station, HasSession
  <2>3. CASE ~ \E d \in Gone(t) : d.mac = m
    <3>1. SameView(t, u, m)
      BY <1>1, <1>4, <2>3 DEF SameView, SameSessions
    <3> QED
      BY <1>1, <2>1, <3>1, SameStation
  <2> QED
    BY <2>2, <2>3
<1> QED
  BY <1>3, <1>5 DEF PeersAgree, u

LEMMA ResetSound ==
    ASSUME NEW t \in Table
    PROVE  Sound(Reset(t)) /\ PeersAgree(Reset(t))
<1>1. /\ Reset(t).devices = {} /\ Reset(t).pending = [s \in Slot |-> Free]
      /\ Reset(t).peers = [m \in Mac |-> NoPeer]
  BY DEF Reset, EmptyTable
<1> QED
  BY <1>1 DEF Sound, Distinct, Keyed, OneEach, PeersAgree, Station, HasSession, HasPending, PendingSlots, Active

LEMMA AgedSound ==
    ASSUME NEW t \in Table, Sound(t)
    PROVE  Sound(Aged(t)) /\ (PeersAgree(t) => PeersAgree(Aged(t)))
<1> DEFINE u == Aged(t)
           Later(d) == [d EXCEPT !.silent = Older(@, SessionTimeout)]
           Aging(p) == [p EXCEPT !.age = Older(@, HandshakeTimeout)]
<1>1. /\ u.devices = {Later(d) : d \in t.devices} /\ u.peers = t.peers
      /\ u.pending = [s \in Slot |-> IF Active(t, s) THEN Aging(t.pending[s]) ELSE Free]
  BY DEF Aged, Table
<1>2. \A d \in t.devices : /\ Later(d).mac = d.mac /\ Later(d).cid = d.cid
                           /\ Later(d).state = d.state /\ Later(d).key = d.key
                           /\ Later(d).suspended = d.suspended
  BY DEF Table, Device
<1>3. \A s \in Slot : /\ Active(u, s) <=> Active(t, s)
                      /\ Active(u, s) => u.pending[s].mac = t.pending[s].mac
  <2>1. u \in Table
    BY AgedType
  <2>2. \A s \in Slot : Active(t, s) => Aging(t.pending[s]) \in PendingHandshake
                                        /\ Aging(t.pending[s]).mac = t.pending[s].mac
    <3>1. \A p \in PendingHandshake : Aging(p) \in PendingHandshake /\ Aging(p).mac = p.mac
      BY ManagerAssumption DEF PendingHandshake, Older
    <3> HIDE DEF Aging
    <3> QED
      BY <3>1 DEF Active, Table
  <2> HIDE DEF Aging
  <2> QED
    BY <1>1, <2>2, ManagerAssumption DEF Active
<1> HIDE DEF Later, Aging, u
<1>4. Sound(u)
  BY <1>1, <1>2, <1>3 DEF Sound, Distinct, Keyed, OneEach
<1>5. \A m \in Mac : HasPending(u, m) <=> HasPending(t, m)
  BY <1>3 DEF HasPending, PendingSlots
<1>6. \A m \in Mac : HasSession(u, m) <=> HasSession(t, m)
  BY <1>1, <1>2 DEF HasSession
<1>7. PeersAgree(t) => PeersAgree(u)
  BY <1>1, <1>2, <1>5, <1>6 DEF PeersAgree, Station
<1> QED
  BY <1>4, <1>7 DEF u
-------------------------------------------------------------------------------
(* The inductive invariant, and what follows from it.  The peers agree with   *)
(* the table only while the radio does not refuse to turn a peer to plaintext *)
(* ("add" in Faults): the run broker_stranded shows how they part then.       *)

Consistent(t) == Sound(t) /\ ("add" \notin Faults => PeersAgree(t))
IInv == TypeOK /\ Consistent(table)

LEMMA HandshakeConsistent ==
    ASSUME IInv, NEW type \in FromClient, NEW f \in Frame(type), NEW n \in Nonce,
           HandleConnect(f, n) \/ HandleAuth(f)
    PROVE  Consistent(table')
<1>1. f.mac \in Mac /\ f.type = type /\ f.data \in Payload(type) /\ table \in Table
      /\ Sound(table) /\ ("add" \notin Faults => PeersAgree(table))
  BY DEF Frame, IInv, TypeOK, Consistent
<1>2. \A secured : Consistent(AbandonHandshake(table, f.mac, secured))
  BY <1>1, AbandonHandshakeSound, AbandonHandshakeAgreed DEF Consistent
<1>3. CASE HandleConnect(f, n)
  <2>1. f.data \in Nonce
    BY <1>1, <1>3, Payloads DEF HandleConnect
  <2>2. PICK addOk \in AddOk, secured \in Securable, sent \in BOOLEAN :
          LET u == BeginHandshake(table, f.mac, f.data, n, addOk, secured).t IN
          table' = u \/ table' = AbandonHandshake(u, f.mac, secured)
    BY <1>3 DEF HandleConnect
  <2>3. addOk \in BOOLEAN /\ ("add" \notin Faults => addOk)
    BY DEF AddOk
  <2> DEFINE u == BeginHandshake(table, f.mac, f.data, n, addOk, secured).t
  <2>4. u \in Table /\ Sound(u) /\ ("add" \notin Faults => PeersAgree(u))
    BY <1>1, <2>1, <2>3, BeginHandshakeType, BeginHandshakeSound
  <2> HIDE DEF u
  <2>5. Consistent(AbandonHandshake(u, f.mac, secured))
    BY <1>1, <2>4, AbandonHandshakeSound, AbandonHandshakeAgreed DEF Consistent
  <2> QED
    BY <2>2, <2>4, <2>5 DEF Consistent, u
<1>4. CASE HandleAuth(f)
  <2>1. HasPending(table, f.mac)
    BY <1>4 DEF HandleAuth
  <2>2. CASE RejectAuth(f) \/ \E lmkOk \in BOOLEAN : RefuseAuth(f, lmkOk)
    BY <1>2, <2>2 DEF RejectAuth, RefuseAuth
  <2>3. CASE AcceptAuth(f)
    <3>1. PICK cid \in Cid, secured \in Securable :
            /\ IsNextCid(Superseded(table, f.mac), cid)
            /\ LET done == CompleteHandshake(table, f.mac, cid) IN
               \/ table' = SecureSession(done, f.mac, KeyOf(PendingFor(table, f.mac)), secured)
               \/ table' = EraseSession(done, f.mac, FALSE)
      BY <2>3 DEF AcceptAuth
    <3> DEFINE done == CompleteHandshake(table, f.mac, cid)
               key == KeyOf(PendingFor(table, f.mac))
    <3>2. FreeCid(Superseded(table, f.mac), cid)
      BY <3>1 DEF IsNextCid
    <3>3. key \in Key
      BY <1>1, <2>1, KeyOfType
    <3>4. /\ done \in Table /\ Distinct(done) /\ OneEach(done)
          /\ HasSession(done, f.mac) /\ ~SessionFor(done, f.mac).suspended
          /\ ~HasPending(done, f.mac)
          /\ \A d \in done.devices : d.mac # f.mac => d.state # "AUTHENTICATED" /\ d.key # NoKey
          /\ \A m \in Mac \ {f.mac} : SameView(table, done, m)
      BY <1>1, <3>2, CompleteHandshakeType, CompleteHandshakeSound
    <3> HIDE DEF done, key
    <3> DEFINE u == SecureSession(done, f.mac, key, secured)
               v == EraseSession(done, f.mac, FALSE)
    <3>5. /\ u \in Table /\ Sound(u) /\ Station(u, f.mac)
          /\ v \in Table /\ Sound(v) /\ Station(v, f.mac)
          /\ \A m \in Mac \ {f.mac} : SameView(done, u, m) /\ SameView(done, v, m)
      BY <1>1, <3>3, <3>4, SecureSessionType, EraseSessionType, SecureSessionSound
    <3> HIDE DEF u, v
    <3>6. \A m \in Mac \ {f.mac} : SameView(table, u, m) /\ SameView(table, v, m)
      BY <3>4, <3>5 DEF SameView, SameSessions
    <3>7. PeersAgree(table) => PeersAgree(u) /\ PeersAgree(v)
      BY <1>1, <3>5, <3>6, SameStation DEF PeersAgree
    <3> QED
      BY <1>1, <3>1, <3>5, <3>7 DEF Consistent, done, key, u, v
  <2> QED
    BY <1>4, <2>2, <2>3 DEF HandleAuth
<1> QED
  BY <1>3, <1>4

LEMMA SessionFrameConsistent ==
    ASSUME IInv, NEW type \in FromClient, NEW f \in Frame(type), NEW n \in Nonce,
           Admit(table, f.mac, f.type, f.cid) = "SESSION", HandleSessionFrame(f)
    PROVE  Consistent(table')
<1> DEFINE d == SessionFor(table, f.mac)
<1>1. f.mac \in Mac /\ f.type = type /\ table \in Table
      /\ Sound(table) /\ ("add" \notin Faults => PeersAgree(table))
  BY DEF Frame, IInv, TypeOK, Consistent
<1>2. HasSession(table, f.mac) /\ ~Paused(table, f.mac)
  BY DEF Admit, Deaf, Paused
<1>3. d \in table.devices /\ d \in Device /\ d.mac = f.mac /\ d.state # "AUTHENTICATED"
  BY <1>1, <1>2, SessionForType DEF Sound, Keyed
<1>4. ASSUME NEW e \in Device, e.mac = d.mac, e.cid = d.cid, e.state # "AUTHENTICATED",
             e.key = d.key, e.suspended = d.suspended
      PROVE  Consistent(Update(f, e))
  <2>1. e.key # NoKey
    BY <1>1, <1>3, <1>4 DEF Sound, Keyed
  <2> QED
    BY <1>1, <1>3, <1>4, <2>1, ReplaceSound, ReplaceAgreed DEF Consistent, Update
<1>5. /\ Session(f) \in Device
      /\ Session(f).mac = d.mac /\ Session(f).cid = d.cid /\ Session(f).state = d.state
      /\ Session(f).key = d.key /\ Session(f).suspended = d.suspended
  BY <1>3 DEF Session, Seen, Device
<1>6. Consistent(Update(f, Session(f)))
  BY <1>3, <1>4, <1>5
<1> HIDE DEF d
<1>7. CASE HandlePing(f)
  BY <1>4, <1>5, <1>7 DEF HandlePing, Device
<1>8. CASE HandleDisconnect(f)
  <2>1. "add" \notin Faults => ~HasPending(table, f.mac)
    BY <1>1, <1>2, <1>3 DEF PeersAgree, Station, Paused, d
  <2>2. Sound(EraseSession(table, f.mac, FALSE))
    BY <1>1, EraseSessionSound DEF Sound, Keyed
  <2>3. "add" \notin Faults => PeersAgree(EraseSession(table, f.mac, FALSE))
    BY <1>1, <1>2, <2>1, EraseSessionAgreed DEF PeersAgree
  <2> QED
    BY <1>8, <2>2, <2>3 DEF HandleDisconnect, Consistent
<1>9. CASE HandleSubscribe(f)
  <2>1. SubscribeOk(Session(f), f.data) => Consistent(Update(f, Subscribed(Session(f), f.data)))
    BY <1>3, <1>4, <1>5 DEF SubscribeOk, Subscribed, Device
  <2> QED
    BY <1>6, <1>9, <2>1 DEF HandleSubscribe
<1>10. CASE HandleUnsubscribe(f)
  BY <1>3, <1>4, <1>5, <1>10 DEF HandleUnsubscribe, Unsubscribed, Device
<1>11. CASE HandleMessage(f) \/ HandleOther(f)
  BY <1>6, <1>11 DEF HandleMessage, HandleOther
<1>12. CASE HandleLastWill(f)
  <2>1. f.data \in Will => Consistent(Update(f, [Session(f) EXCEPT !.will = f.data]))
    BY <1>3, <1>4, <1>5 DEF Device
  <2> QED
    BY <1>6, <1>12, <2>1 DEF HandleLastWill
<1> QED
  BY <1>7, <1>8, <1>9, <1>10, <1>11, <1>12 DEF HandleSessionFrame

\* So a packet leaves the tables in agreement, whatever it is.
LEMMA PacketConsistent ==
    ASSUME IInv, NEW type \in FromClient, NEW f \in Frame(type), NEW n \in Nonce, HandlePacket(f, n)
    PROVE  Consistent(table')
<1>1. table' = table => Consistent(table')
  BY DEF IInv
<1>2. CASE f.type = "INVALID"
  BY <1>1, <1>2 DEF HandlePacket, HandleInvalid, IgnoreFrame
<1>3. CASE f.type # "INVALID"
  BY <1>1, <1>3, HandshakeConsistent, SessionFrameConsistent
     DEF HandlePacket, HandleValid, RefuseFrame, IgnoreFrame
<1> QED
  BY <1>2, <1>3

LEMMA ByItselfConsistent ==
    ASSUME IInv, ByItself
    PROVE  Consistent(table')
<1>1. table \in Table /\ Sound(table) /\ ("add" \notin Faults => PeersAgree(table))
  BY DEF IInv, TypeOK, Consistent
<1>2. CASE ExpirePass
  <2>1. PICK secured \in Securable : table' = EndSilent(AbandonTimedOut(table, secured))
    BY <1>2 DEF ExpirePass, Expire
  <2> QED
    BY <1>1, <2>1, AbandonTimedOutType, AbandonTimedOutSound, EndSilentSound DEF Consistent
<1>3. CASE Tick
  BY <1>1, <1>3, AgedSound DEF Tick, Consistent
<1>4. CASE Shutdown
  BY <1>1, <1>4, ResetSound DEF Shutdown, Consistent
<1>5. CASE Start
  BY <1>1, <1>5 DEF Start, Consistent
<1> QED
  BY <1>2, <1>3, <1>4, <1>5 DEF ByItself

LEMMA EmptyConsistent == Consistent(EmptyTable) /\ Sound(EmptyTable) /\ PeersAgree(EmptyTable)
<1>1. EmptyTable.devices = {} /\ EmptyTable.pending = [s \in Slot |-> Free]
      /\ EmptyTable.peers = [m \in Mac |-> NoPeer]
  BY DEF EmptyTable
<1>2. Sound(EmptyTable) /\ PeersAgree(EmptyTable)
  BY <1>1 DEF Sound, Distinct, Keyed, OneEach, PeersAgree, Station, HasSession, HasPending, PendingSlots, Active
<1> QED
  BY <1>2 DEF Consistent

LEMMA Begins ==
    ASSUME table = EmptyTable, up = FALSE, frame = NoFrame, replies = <<>>, published = {}
    PROVE  IInv
BY EmptyConsistent, EmptyTableType, NoReply DEF IInv, TypeOK, Consistent, RepliesOK

\* IInv of the state after a step.
LEMMA InvariantAfter == TypeOK' /\ Consistent(table') => IInv'
BY DEF IInv, Consistent, Sound, Distinct, Keyed, OneEach, PeersAgree, Station, Active, HasPending,
       HasSession, PendingSlots

LEMMA PacketInductive ==
    ASSUME IInv, NEW type \in FromClient, NEW f \in Frame(type), NEW n \in Nonce, HandlePacket(f, n)
    PROVE  IInv'
BY PacketKeepsTypes, PacketConsistent, InvariantAfter DEF IInv

LEMMA ByItselfInductive ==
    ASSUME IInv, ByItself
    PROVE  IInv'
BY ByItselfKeepsTypes, ByItselfConsistent, InvariantAfter DEF IInv

LEMMA Inductive == Spec => []IInv
<1>1. Init => IInv
  BY Begins DEF Init
<1>2. IInv /\ [Next]_vars => IInv'
  <2> SUFFICES ASSUME IInv, [Next]_vars
               PROVE  IInv'
    OBVIOUS
  <2>1. ASSUME NEW mac \in Mac, NEW type \in FromClient, Receive(mac, type)
        PROVE  IInv'
    BY <2>1, ReceivedFrame, PacketInductive DEF IInv
  <2>2. CASE UNCHANGED vars
    BY <2>2, InvariantAfter DEF vars, IInv, TypeOK
  <2> QED
    BY <2>1, <2>2, ByItselfInductive DEF Next, ByItself
<1> QED
  BY <1>1, <1>2, PTL DEF Spec

\* A station has one session and a cid one station, whatever the stations send
\* and the radio refuses: admit() may pick the session by MAC.
THEOREM SessionsAreUnique == Spec => []UniqueSessions
<1>1. IInv => UniqueSessions
  BY DEF IInv, Consistent, Sound, Distinct, Keyed, UniqueSessions
<1> QED
  BY <1>1, Inductive, PTL

\* A station has one pending handshake.
THEOREM HandshakesAreUnique == Spec => []OneHandshakePerMac
<1>1. IInv => OneHandshakePerMac
  BY DEF IInv, Consistent, Sound, OneEach, OneHandshakePerMac
<1> QED
  BY <1>1, Inductive, PTL

\* While no peer is refused its plaintext entry, every usable session's key is on
\* its peer, and a station shaking hands is plaintext.
THEOREM RadioAgrees ==
    ASSUME "add" \notin Faults
    PROVE  Spec => []PeerMatchesSession
<1>1. IInv => PeerMatchesSession
  <2> SUFFICES ASSUME IInv PROVE PeerMatchesSession
    OBVIOUS
  <2>1. table \in Table /\ Sound(table) /\ \A m \in Mac : Station(table, m)
    BY DEF IInv, TypeOK, Consistent, PeersAgree
  <2>2. \A d \in table.devices : d.mac \in Mac
    BY <2>1 DEF Table, Device
  <2>3. \A m \in Mac : Paused(table, m) => HasPending(table, m)
    <3> SUFFICES ASSUME NEW m \in Mac, Paused(table, m) PROVE HasPending(table, m)
      OBVIOUS
    <3>1. SessionFor(table, m) \in table.devices /\ SessionFor(table, m).mac = m
          /\ SessionFor(table, m).suspended
      BY <2>1, SessionForType DEF Paused
    <3> QED
      BY <2>1, <3>1 DEF Station
  <2> QED
    BY <2>1, <2>2, <2>3 DEF Station, PeerMatchesSession
<1> QED
  BY <1>1, Inductive, PTL

\* Under the same assumption a session is paused exactly while its station has a
\* handshake pending, whose timeout ends the pause.
THEOREM PausesHaveHandshakes ==
    ASSUME "add" \notin Faults
    PROVE  Spec => []SuspendedAwaitsHandshake
<1>1. IInv => SuspendedAwaitsHandshake
  BY DEF IInv, TypeOK, Consistent, PeersAgree, Station, SuspendedAwaitsHandshake, Table, Device
<1> QED
  BY <1>1, Inductive, PTL

\* And no peer entry outlives its session or handshake.
THEOREM PeersAreHeld ==
    ASSUME "add" \notin Faults
    PROVE  Spec => []NoPeerLeak
<1>1. IInv => NoPeerLeak
  BY DEF IInv, Consistent, PeersAgree, Station, NoPeerLeak
<1> QED
  BY <1>1, Inductive, PTL

\* On such a radio the whole session table agrees with itself and with the radio, for
\* any stations, ids and limits, whatever the stations send.
THEOREM TablesAgree ==
    ASSUME "add" \notin Faults
    PROVE  Spec => []SessionTables
<1>1. TypeOK /\ UniqueSessions /\ OneHandshakePerMac
        /\ PeerMatchesSession /\ SuspendedAwaitsHandshake /\ NoPeerLeak
        => SessionTables
  BY DEF SessionTables
<1> QED
  BY <1>1, TypeCorrect, SessionsAreUnique, HandshakesAreUnique, RadioAgrees,
     PausesHaveHandshakes, PeersAreHeld, PTL

-------------------------------------------------------------------------------
(* Capacity.  Sessions are counted by the stations that have one, of which    *)
(* every operation but a proven AUTH only leaves some out.                    *)

Macs(t) == {m \in Mac : HasSession(t, m)}
InSlots(t) == {m \in Mac : HasPending(t, m)}
Room(t) == IsFiniteSet(Macs(t)) /\ Cardinality(Macs(t)) <= MaxDevices

\* As many sessions as stations that have one.
LEMMA SessionsAreMacs ==
    ASSUME NEW t \in Table, Distinct(t), IsFiniteSet(Macs(t))
    PROVE  IsFiniteSet(t.devices) /\ Cardinality(t.devices) = Cardinality(Macs(t))
<1> DEFINE f == [m \in Macs(t) |-> SessionFor(t, m)]
<1>1. \A m \in Macs(t) : SessionFor(t, m) \in t.devices /\ SessionFor(t, m).mac = m
  BY SessionForType DEF Macs
<1>2. \A d \in t.devices : d.mac \in Macs(t) /\ SessionFor(t, d.mac) = d
  <2> TAKE d \in t.devices
  <2>1. d.mac \in Mac /\ HasSession(t, d.mac)
    BY DEF Table, Device, HasSession
  <2> QED
    BY <2>1, SessionForIs DEF Macs
<1>3. f \in Bijection(Macs(t), t.devices)
  <2>1. f \in [Macs(t) -> t.devices]
    BY <1>1
  <2>2. \A m, n \in Macs(t) : f[m] = f[n] => m = n
    BY <1>1
  <2>3. \A d \in t.devices : \E m \in Macs(t) : f[m] = d
    BY <1>2
  <2> QED
    BY <2>1, <2>2, <2>3, Zenon DEF Bijection, Injection, Surjection, IsInjective
<1> QED
  BY <1>3, FS_Bijection DEF ExistsBijection

\* No station gets a session.
NoNew(t, u) == \A m \in Mac : HasSession(u, m) => HasSession(t, m)

LEMMA FewerMacs ==
    ASSUME NEW t, NEW u, Room(t), NoNew(t, u)
    PROVE  Room(u)
<1>1. Macs(u) \subseteq Macs(t)
  BY DEF NoNew, Macs
<1> QED
  BY <1>1, FS_Subset, FS_CardinalityType, ManagerAssumption DEF Room

LEMMA AbandonHandshakeNoNew ==
    ASSUME NEW t \in Table, NEW mac \in Mac, NEW secured
    PROVE  NoNew(t, AbandonHandshake(t, mac, secured))
<1> DEFINE freed == FreePending(t, mac)
<1>1. freed.devices = t.devices /\ freed \in Table
  BY FreePendingType DEF FreePending, Table
<1>2. SetPeer(freed, mac, NoPeer).devices = t.devices
  BY <1>1 DEF SetPeer, Table
<1>3. \A d \in EraseSession(freed, mac, FALSE).devices : d \in t.devices
  BY <1>1 DEF EraseSession, Table
<1>4. ASSUME HasSession(freed, mac)
      PROVE  \A d \in Resume(freed, mac).devices : \E e \in t.devices : e.mac = d.mac
  <2> DEFINE d == SessionFor(freed, mac)
  <2>1. d \in t.devices /\ d \in Device
    BY <1>1, <1>4, SessionForType
  <2>2. [d EXCEPT !.suspended = FALSE].mac = d.mac
    BY <2>1 DEF Device
  <2>3. Resume(freed, mac).devices = (t.devices \ {d}) \cup {[d EXCEPT !.suspended = FALSE]}
    BY <1>1 DEF Resume, Replace, SetPeer, Table
  <2> QED
    BY <2>1, <2>2, <2>3
<1> HIDE DEF freed
<1>5. AbandonHandshake(t, mac, secured) \in {t, SetPeer(freed, mac, NoPeer), freed,
                                             EraseSession(freed, mac, FALSE)}
      \/ (HasSession(freed, mac) /\ AbandonHandshake(t, mac, secured) = Resume(freed, mac))
  <2>1. HasSession(freed, mac) <=> HasSession(t, mac)
    BY <1>1 DEF HasSession
  <2> QED
    BY <2>1 DEF AbandonHandshake, freed
<1> QED
  BY <1>1, <1>2, <1>3, <1>4, <1>5 DEF NoNew, HasSession

LEMMA BeginHandshakeNoNew ==
    ASSUME NEW t \in Table, NEW mac \in Mac, NEW cn \in Nonce, NEW gn \in Nonce,
           NEW addOk \in BOOLEAN, NEW secured
    PROVE  NoNew(t, BeginHandshake(t, mac, cn, gn, addOk, secured).t)
<1>1. CASE SlotFor(t, mac) = {}
  BY <1>1 DEF BeginHandshake, NoNew
<1>2. CASE SlotFor(t, mac) # {}
  <2> DEFINE s == CHOOSE x \in SlotFor(t, mac) : TRUE
             cleared == Evicted(t, s, mac, secured)
             entry == [mac |-> mac, clientNonce |-> cn, gatewayNonce |-> gn, age |-> 0]
             added == [SetPeer(Suspend(cleared, mac), mac, Plain) EXCEPT !.pending[s] = entry]
             refused == [cleared EXCEPT !.pending[s] = Free]
  <2>1. s \in Slot
    BY <1>2 DEF SlotFor, PendingSlots
  <2>2. cleared \in Table /\ NoNew(t, cleared)
    <3>1. cleared = t \/ (Active(t, s) /\ cleared = AbandonHandshake(t, t.pending[s].mac, secured))
      BY DEF Evicted
    <3>2. Active(t, s) => t.pending[s].mac \in Mac
      BY <2>1 DEF Active, Table, PendingHandshake
    <3> QED
      BY <2>1, <3>1, <3>2, EvictedType, AbandonHandshakeNoNew DEF NoNew
  <2>3. BeginHandshake(t, mac, cn, gn, addOk, secured).t \in {added, refused}
    BY <1>2 DEF BeginHandshake
  <2> HIDE DEF s, cleared
  <2>4. \A d \in Device : [d EXCEPT !.suspended = TRUE].mac = d.mac
    BY DEF Device
  <2>5. cleared.devices \subseteq Device
    BY <2>2 DEF Table
  <2>6. \A d \in added.devices : \E e \in cleared.devices : e.mac = d.mac
    <3>1. added.devices = {IF d.mac = mac THEN [d EXCEPT !.suspended = TRUE] ELSE d : d \in cleared.devices}
      BY <2>2 DEF SetPeer, Suspend, Table
    <3> QED
      BY <2>4, <2>5, <3>1
  <2>7. refused.devices = cleared.devices
    BY <2>2 DEF Table
  <2> QED
    BY <2>2, <2>3, <2>6, <2>7 DEF NoNew, HasSession
<1> QED
  BY <1>1, <1>2


LEMMA CompleteHandshakeMacs ==
    ASSUME NEW t \in Table, NEW mac \in Mac, NEW cid \in Cid, NEW key \in Key, NEW secured
    PROVE  LET done == CompleteHandshake(t, mac, cid) IN
           /\ Macs(SecureSession(done, mac, key, secured)) \subseteq Macs(t) \cup {mac}
           /\ NoNew(t, EraseSession(done, mac, FALSE))
<1> DEFINE done == CompleteHandshake(t, mac, cid)
           d == [mac |-> mac, cid |-> cid, state |-> "AUTHENTICATED", suspended |-> FALSE,
                 key |-> NoKey, silent |-> 0, subs |-> {}, will |-> NoWill]
<1>1. done \in Table
  BY CompleteHandshakeType
<1>2. Superseded(t, mac).devices = {e \in t.devices : e.mac # mac} /\ Superseded(t, mac) \in Table
  BY FreePendingType, EraseSessionType DEF Superseded, EraseSession, FreePending, Table
<1>3. done.devices = {e \in t.devices : e.mac # mac} \cup {d}
  BY <1>2 DEF CompleteHandshake, Table
<1>4. HasSession(done, mac) /\ \A m \in Mac : HasSession(done, m) => m = mac \/ HasSession(t, m)
  <2>1. d.mac = mac /\ d \in done.devices
    BY <1>3
  <2> HIDE DEF d, done
  <2> QED
    BY <1>3, <2>1 DEF HasSession
<1> HIDE DEF done, d
<1>5. \A e \in EraseSession(done, mac, FALSE).devices : e \in done.devices /\ e.mac # mac
  BY <1>1 DEF EraseSession, Table
<1>6. \A m \in Mac : HasSession(SecureSession(done, mac, key, secured), m) => HasSession(done, m)
  <2> DEFINE f == SessionFor(done, mac)
             g == [f EXCEPT !.key = key, !.state = "SECURING"]
  <2>1. f \in done.devices /\ f \in Device /\ g.mac = f.mac
    BY <1>1, <1>4, SessionForType DEF Device
  <2>2. SetPeer(Replace(done, f, g), mac, key).devices = (done.devices \ {f}) \cup {g}
    BY <1>1 DEF SetPeer, Replace, Table
  <2> HIDE DEF g
  <2>3. \A m \in Mac : HasSession(SetPeer(Replace(done, f, g), mac, key), m) => HasSession(done, m)
    BY <2>1, <2>2 DEF HasSession
  <2>4. \A m \in Mac : HasSession(EraseSession(done, mac, FALSE), m) => HasSession(done, m)
    BY <1>5 DEF HasSession
  <2> QED
    BY <2>3, <2>4 DEF SecureSession, g
<1>7. NoNew(t, EraseSession(done, mac, FALSE))
  BY <1>4, <1>5 DEF NoNew, HasSession
<1> QED
  BY <1>4, <1>6, <1>7 DEF Macs, done

LEMMA ExpireNoNew ==
    ASSUME NEW t \in Table, NEW secured
    PROVE  NoNew(t, EndSilent(AbandonTimedOut(t, secured))) /\ NoNew(t, Aged(t))
<1> DEFINE u == AbandonTimedOut(t, secured)
<1>1. t.devices \subseteq Device
      /\ \A d \in Device : [d EXCEPT !.suspended = FALSE].mac = d.mac
                          /\ [d EXCEPT !.silent = Older(@, SessionTimeout)].mac = d.mac
  BY DEF Table, Device
<1>2. u \in Table
  BY AbandonTimedOutType
<1> DEFINE out == TimedOut(t)
           resumed == {m \in out : Paused(t, m) /\ Restorable(t, m, secured)}
           ended == {m \in out : Paused(t, m) /\ ~Restorable(t, m, secured)}
           back(d) == IF d.mac \in resumed THEN [d EXCEPT !.suspended = FALSE] ELSE d
           older(d) == [d EXCEPT !.silent = Older(@, SessionTimeout)]
<1>3. u.devices = {back(d) : d \in {e \in t.devices : e.mac \notin ended}}
      /\ Aged(t).devices = {older(d) : d \in t.devices}
  BY DEF AbandonTimedOut, Aged, Table
<1>4. \A d \in t.devices : back(d).mac = d.mac /\ older(d).mac = d.mac
  BY <1>1
<1> HIDE DEF u, back, older, ended
<1>5. \A d \in u.devices : \E e \in t.devices : e.mac = d.mac
  BY <1>3, <1>4
<1>6. EndSilent(u).devices \subseteq u.devices
  BY <1>2 DEF EndSilent, Table
<1>7. \A d \in Aged(t).devices : \E e \in t.devices : e.mac = d.mac
  BY <1>3, <1>4
<1> QED
  BY <1>6, <1>7, <1>5 DEF NoNew, HasSession, u

LEMMA PacketRoom ==
    ASSUME IInv, Room(table), NEW type \in FromClient, NEW f \in Frame(type), NEW n \in Nonce,
           HandlePacket(f, n)
    PROVE  Room(table')
<1>1. f.mac \in Mac /\ f.type = type /\ f.data \in Payload(type) /\ table \in Table /\ Sound(table)
  BY DEF Frame, IInv, TypeOK, Consistent
<1>2. \A u : NoNew(table, u) => Room(u)
  BY FewerMacs
<1>3. ASSUME NEW u \in Table, NoNew(table, u), NEW secured
      PROVE  Room(AbandonHandshake(u, f.mac, secured))
  BY <1>1, <1>2, <1>3, AbandonHandshakeNoNew DEF NoNew
<1>4. NoNew(table, table)
  BY DEF NoNew
<1>5. CASE f.type # "INVALID" /\ HandleConnect(f, n)
  <2>1. f.data \in Nonce
    BY <1>1, <1>5, Payloads DEF HandleConnect
  <2>2. PICK addOk \in AddOk, secured \in Securable :
          LET u == BeginHandshake(table, f.mac, f.data, n, addOk, secured).t IN
          table' = u \/ table' = AbandonHandshake(u, f.mac, secured)
    BY <1>5 DEF HandleConnect
  <2>3. addOk \in BOOLEAN
    BY DEF AddOk
  <2> DEFINE u == BeginHandshake(table, f.mac, f.data, n, addOk, secured).t
  <2>4. u \in Table /\ NoNew(table, u)
    BY <1>1, <2>1, <2>3, BeginHandshakeType, BeginHandshakeNoNew
  <2> HIDE DEF u
  <2> QED
    BY <1>2, <1>3, <2>2, <2>4 DEF u
<1>6. CASE f.type # "INVALID" /\ HandleAuth(f)
  <2>1. HasPending(table, f.mac)
    BY <1>6 DEF HandleAuth
  <2>2. CASE RejectAuth(f) \/ \E lmkOk \in BOOLEAN : RefuseAuth(f, lmkOk)
    BY <1>1, <1>3, <1>4, <2>2 DEF RejectAuth, RefuseAuth
  <2>3. CASE AcceptAuth(f)
    <3> DEFINE key == KeyOf(PendingFor(table, f.mac))
    <3>1. PICK cid \in Cid, secured \in Securable :
            LET done == CompleteHandshake(table, f.mac, cid) IN
            \/ table' = SecureSession(done, f.mac, key, secured)
            \/ table' = EraseSession(done, f.mac, FALSE)
      BY <2>3 DEF AcceptAuth
    <3>2. key \in Key
      BY <1>1, <2>1, KeyOfType
    <3> HIDE DEF key
    <3>3. Macs(table') \subseteq Macs(table) \cup {f.mac} \/ NoNew(table, table')
      <4> DEFINE done == CompleteHandshake(table, f.mac, cid)
      <4>1. /\ Macs(SecureSession(done, f.mac, key, secured)) \subseteq Macs(table) \cup {f.mac}
            /\ NoNew(table, EraseSession(done, f.mac, FALSE))
        BY <1>1, <3>2, CompleteHandshakeMacs
      <4> HIDE DEF done
      <4>2. table' = SecureSession(done, f.mac, key, secured) \/ table' = EraseSession(done, f.mac, FALSE)
        BY <3>1 DEF done
      <4> QED
        BY <4>1, <4>2
    <3>4. f.mac \in Macs(table) \/ Cardinality(Macs(table)) < MaxDevices
      <4>1. IsFiniteSet(table.devices) /\ Cardinality(table.devices) = Cardinality(Macs(table))
        BY <1>1, SessionsAreMacs DEF Room, Sound
      <4>2. HasSession(table, f.mac) \/ ~(Cardinality(table.devices) >= MaxDevices)
        BY <2>3 DEF AcceptAuth, SessionTableFull
      <4> QED
        BY <1>1, <4>1, <4>2, FS_CardinalityType, ManagerAssumption DEF Macs
    <3>5. Macs(table') \subseteq Macs(table) \cup {f.mac} => Room(table')
      <4>1. /\ IsFiniteSet(Macs(table) \cup {f.mac})
            /\ Cardinality(Macs(table) \cup {f.mac}) <= MaxDevices
        <5>1. IsFiniteSet(Macs(table)) /\ Cardinality(Macs(table)) \in Nat
              /\ Cardinality(Macs(table)) <= MaxDevices /\ MaxDevices \in Nat
          BY FS_CardinalityType, ManagerAssumption DEF Room
        <5>2. /\ IsFiniteSet(Macs(table) \cup {f.mac})
              /\ Cardinality(Macs(table) \cup {f.mac})
                   = IF f.mac \in Macs(table) THEN Cardinality(Macs(table)) ELSE Cardinality(Macs(table)) + 1
          BY <5>1, FS_AddElement
        <5> QED
          BY <3>4, <5>1, <5>2
      <4> QED
        BY <4>1, FS_Subset, FS_CardinalityType, ManagerAssumption DEF Room
    <3> QED
      BY <1>2, <3>3, <3>5
  <2> QED
    BY <1>6, <2>2, <2>3 DEF HandleAuth
<1>7. CASE f.type # "INVALID" /\ HandleSessionFrame(f) /\ Admit(table, f.mac, f.type, f.cid) = "SESSION"
  <2> DEFINE d == SessionFor(table, f.mac)
  <2>1. d \in table.devices /\ d \in Device /\ d.mac = f.mac
    BY <1>1, <1>7, SessionForType DEF Admit, Deaf
  <2>2. ASSUME NEW e, e.mac = d.mac
        PROVE  Room(Update(f, e))
    <3>1. Update(f, e).devices = (table.devices \ {d}) \cup {e}
      BY <1>1 DEF Update, Replace, Table
    <3> HIDE DEF d
    <3>2. NoNew(table, Update(f, e))
      BY <2>1, <2>2, <3>1 DEF NoNew, HasSession
    <3> QED
      BY <1>2, <3>2
  <2>3. Session(f) \in Device /\ Session(f).mac = d.mac
    BY <2>1 DEF Session, Seen, Device
  <2>4. Room(EraseSession(table, f.mac, FALSE))
    <3>1. EraseSession(table, f.mac, FALSE).devices \subseteq table.devices
      BY <1>1 DEF EraseSession, Table
    <3> QED
      BY <1>2, <3>1 DEF NoNew, HasSession
  <2> HIDE DEF d
  <2>5. /\ [Session(f) EXCEPT !.state = "CONNECTED"].mac = d.mac
        /\ Subscribed(Session(f), f.data).mac = d.mac
        /\ Unsubscribed(Session(f), f.data).mac = d.mac
        /\ [Session(f) EXCEPT !.will = f.data].mac = d.mac
    BY <2>3 DEF Subscribed, Unsubscribed, Device
  <2> QED
    BY <1>7, <2>2, <2>3, <2>4, <2>5
       DEF HandleSessionFrame, HandlePing, HandleDisconnect, HandleSubscribe, HandleUnsubscribe,
           HandleMessage, HandleLastWill, HandleOther
<1>8. CASE table' = table
  BY <1>2, <1>4, <1>8
<1> QED
  BY <1>5, <1>6, <1>7, <1>8
     DEF HandlePacket, HandleInvalid, HandleValid, RefuseFrame, IgnoreFrame

LEMMA RoomInvariant == Spec => [](IInv /\ Room(table))
<1>1. Init => Room(table)
  <2>1. Init => Macs(table) = {}
    BY DEF Init, EmptyTable, Macs, HasSession
  <2> QED
    BY <2>1, FS_EmptySet, ManagerAssumption DEF Room
<1>2. ASSUME IInv, Room(table), [Next]_vars
      PROVE  Room(table')
  <2>1. table \in Table /\ TypeOK
    BY <1>2 DEF IInv, TypeOK
  <2>2. ASSUME NEW mac \in Mac, NEW type \in FromClient, Receive(mac, type)
        PROVE  Room(table')
    BY <1>2, <2>1, <2>2, ReceivedFrame, PacketRoom
  <2>3. CASE ExpirePass
    BY <1>2, <2>1, <2>3, ExpireNoNew, FewerMacs DEF ExpirePass, Expire
  <2>4. CASE Tick
    BY <1>2, <2>1, <2>4, ExpireNoNew, FewerMacs DEF Tick
  <2>5. CASE Shutdown
    <3>1. NoNew(table, Reset(table))
      BY DEF Reset, EmptyTable, NoNew, HasSession
    <3> QED
      BY <1>2, <2>5, <3>1, FewerMacs DEF Shutdown
  <2>6. CASE Start \/ UNCHANGED vars
    BY <1>2, <2>6 DEF Start, vars
  <2> QED
    BY <1>2, <2>2, <2>3, <2>4, <2>5, <2>6 DEF Next
<1>3. IInv /\ Room(table) /\ [Next]_vars => Room(table)'
  BY <1>2 DEF Room, Macs, HasSession
<1> QED
  BY <1>1, <1>3, Inductive, PTL DEF Spec

\* The stations that are shaking hands are no more than the slots there are.
LEMMA FewHandshakes ==
    ASSUME NEW t \in Table
    PROVE  IsFiniteSet(InSlots(t)) /\ Cardinality(InSlots(t)) <= MaxPending
<1> DEFINE A == {s \in Slot : Active(t, s)}
           f == [s \in A |-> t.pending[s].mac]
<1>1. IsFiniteSet(Slot) /\ Cardinality(Slot) = MaxPending
  BY FS_Interval, ManagerAssumption DEF Slot
<1>2. IsFiniteSet(A) /\ Cardinality(A) <= MaxPending
  <2>1. A \in SUBSET Slot
    OBVIOUS
  <2> QED
    BY <1>1, <2>1, FS_Subset
<1>3. f \in Surjection(A, InSlots(t))
  <2>1. \A s \in A : t.pending[s].mac \in InSlots(t)
    BY DEF InSlots, HasPending, PendingSlots, Active, Table, PendingHandshake
  <2>2. \A m \in InSlots(t) : \E s \in A : t.pending[s].mac = m
    BY DEF InSlots, HasPending, PendingSlots
  <2> HIDE DEF A
  <2> QED
    BY <2>1, <2>2 DEF Surjection
<1> HIDE DEF A, f
<1>4. IsFiniteSet(InSlots(t)) /\ Cardinality(InSlots(t)) <= Cardinality(A)
  BY <1>2, <1>3, FS_Surjection
<1> QED
  BY <1>2, <1>4, FS_CardinalityType, ManagerAssumption

\* The table never holds more sessions than it has room for (completeHandshake), and on
\* a radio that does not refuse an add, the radio's table fits as many peers as there may
\* be sessions and handshakes: what MaxDevices and MaxPending were chosen for.
THEOREM TablesFit ==
    /\ Spec => [](Cardinality(table.devices) <= MaxDevices)
    /\ "add" \notin Faults => (Spec => []Capacity)
<1>1. IInv /\ Room(table) => Cardinality(table.devices) <= MaxDevices
  BY SessionsAreMacs DEF IInv, TypeOK, Consistent, Sound, Room
<1>2. ASSUME "add" \notin Faults, IInv, Room(table)
      PROVE  Capacity
  <2>1. table \in Table /\ \A m \in Mac : Station(table, m)
    BY <1>2 DEF IInv, TypeOK, Consistent, PeersAgree
  <2> DEFINE both == Macs(table) \cup InSlots(table)
  <2>2. PeersInUse \in SUBSET both
    BY <2>1 DEF PeersInUse, Station, Macs, InSlots
  <2>3. IsFiniteSet(InSlots(table)) /\ Cardinality(InSlots(table)) <= MaxPending
    BY <2>1, FewHandshakes
  <2>4. /\ IsFiniteSet(both)
        /\ Cardinality(both) = Cardinality(Macs(table)) + Cardinality(InSlots(table))
                                 - Cardinality(Macs(table) \cap InSlots(table))
    BY <1>2, <2>3, FS_Union DEF Room
  <2>5. /\ Cardinality(Macs(table)) \in Nat /\ Cardinality(InSlots(table)) \in Nat
        /\ Cardinality(Macs(table) \cap InSlots(table)) \in Nat
    BY <1>2, <2>3, FS_Intersection, FS_CardinalityType DEF Room
  <2> HIDE DEF both
  <2>6. IsFiniteSet(PeersInUse) /\ Cardinality(PeersInUse) <= Cardinality(both)
    BY <2>2, <2>4, FS_Subset
  <2>7. Cardinality(PeersInUse) \in Nat /\ Cardinality(both) \in Nat
    BY <2>4, <2>6, FS_CardinalityType
  <2>8. Cardinality(PeersInUse) <= MaxDevices + MaxPending
    BY <1>2, <2>3, <2>4, <2>5, <2>6, <2>7, ManagerAssumption DEF Room
  <2> QED
    BY <1>1, <1>2, <2>8 DEF Capacity
<1>3. Spec => [](Cardinality(table.devices) <= MaxDevices)
  BY <1>1, RoomInvariant, PTL
<1>4. ASSUME "add" \notin Faults PROVE Spec => []Capacity
  BY <1>2, <1>4, RoomInvariant, PTL
<1> QED
  BY <1>3, <1>4

-------------------------------------------------------------------------------
(* Two relations between the table before a step and after it, which hold of  *)
(* a sequence of operations if they hold of each.                             *)

\* No session appears: each has the station, the id and the key of one from before.
Kept(t, u) ==
    \A e \in u.devices : \E d \in t.devices : d.mac = e.mac /\ d.cid = e.cid /\ d.key = e.key

\* One session, whatever it was told.
SameName(d, e) == e.mac = d.mac /\ e.cid = d.cid /\ e.key = d.key

\* The session as it was, paused or not.
SameSession(d, e) == [d EXCEPT !.suspended = e.suspended] = e

\* No session is lost: each is there as it was, paused or not.
Spared(t, u) == \A d \in t.devices : \E e \in u.devices : SameSession(d, e)

LEMMA KeptThrough ==
    ASSUME NEW t \in Table, NEW u \in Table, NEW v \in Table, Kept(t, u), Kept(u, v)
    PROVE  Kept(t, v)
BY DEF Kept

LEMMA SparedThrough ==
    ASSUME NEW t \in Table, NEW u \in Table, NEW v \in Table, Spared(t, u), Spared(u, v)
    PROVE  Spared(t, v)
<1> SUFFICES ASSUME NEW d \in t.devices
             PROVE  \E g \in v.devices : SameSession(d, g)
  BY DEF Spared
<1>1. PICK e \in u.devices : SameSession(d, e)
  BY DEF Spared
<1>2. PICK g \in v.devices : SameSession(e, g)
  BY DEF Spared
<1>3. d \in Device /\ e \in Device /\ g \in Device
  BY DEF Table
<1>4. SameSession(d, g)
  BY <1>1, <1>2, <1>3 DEF SameSession, Device
<1> QED
  BY <1>4

\* A table that keeps its sessions.
LEMMA Unchanged ==
    ASSUME NEW t \in Table, NEW u, u.devices = t.devices
    PROVE  Kept(t, u) /\ Spared(t, u)
<1>1. \A d \in Device : SameSession(d, d)
  BY DEF SameSession, Device
<1>2. t.devices \subseteq Device
  BY DEF Table
<1> QED
  BY <1>1, <1>2 DEF Kept, Spared

\* Pausing sessions and resuming them.
Pauses(d) == {d, [d EXCEPT !.suspended = TRUE], [d EXCEPT !.suspended = FALSE]}

LEMMA PausesOnly ==
    ASSUME NEW t \in Table, NEW u,
           \A e \in u.devices : \E d \in t.devices : e \in Pauses(d),
           \A d \in t.devices : \E e \in u.devices : e \in Pauses(d)
    PROVE  Kept(t, u) /\ Spared(t, u)
<1>1. \A d \in Device : \A e \in Pauses(d) : SameSession(d, e) /\ e.mac = d.mac /\ e.cid = d.cid /\ e.key = d.key
  BY DEF Pauses, SameSession, Device
<1>2. t.devices \subseteq Device
  BY DEF Table
<1> QED
  BY <1>1, <1>2 DEF Kept, Spared

\* A handshake given up pauses nothing and costs no session, unless its key is refused.
LEMMA AbandonHandshakeKeeps ==
    ASSUME NEW t \in Table, Sound(t), NEW mac \in Mac, NEW secured
    PROVE  LET u == AbandonHandshake(t, mac, secured) IN
           Kept(t, u) /\ (mac \in secured => Spared(t, u))
<1> DEFINE u == AbandonHandshake(t, mac, secured)
           freed == FreePending(t, mac)
<1>1. freed \in Table /\ freed.devices = t.devices /\ HasSession(freed, mac) = HasSession(t, mac)
  BY FreePendingType, FreePendingSessions DEF HasSession
<1>2. CASE ~HasPending(t, mac)
  BY <1>2, Unchanged DEF AbandonHandshake
<1>3. CASE HasPending(t, mac) /\ ~HasSession(t, mac)
  <2>1. u.devices = t.devices
    BY <1>1, <1>3 DEF AbandonHandshake, SetPeer, Table
  <2> QED
    BY <2>1, Unchanged
<1>4. CASE HasPending(t, mac) /\ HasSession(t, mac) /\ ~Paused(t, mac)
  BY <1>1, <1>4, Unchanged DEF AbandonHandshake
<1>5. CASE HasPending(t, mac) /\ Paused(t, mac) /\ Restorable(t, mac, secured)
  <2> DEFINE d == SessionFor(t, mac)
  <2>1. HasSession(t, mac) /\ d \in t.devices /\ d.mac = mac
    BY <1>5, SessionForType DEF Paused
  <2>2. u = Resume(freed, mac)
    BY <1>5, <2>1 DEF AbandonHandshake
  <2>3. SessionFor(freed, mac) = d
    BY FreePendingSessions
  <2>4. u.devices = (t.devices \ {d}) \cup {[d EXCEPT !.suspended = FALSE]}
    BY <1>1, <2>2, <2>3 DEF Resume, SetPeer, Replace, Table
  <2>5. \A e \in u.devices : \E c \in t.devices : e \in Pauses(c)
    BY <2>1, <2>4 DEF Pauses
  <2>6. \A c \in t.devices : \E e \in u.devices : e \in Pauses(c)
    BY <2>4 DEF Pauses
  <2> QED
    BY <2>5, <2>6, PausesOnly
<1>6. CASE HasPending(t, mac) /\ Paused(t, mac) /\ ~Restorable(t, mac, secured)
  <2>1. HasSession(t, mac) /\ SessionFor(t, mac) \in t.devices
    BY <1>6, SessionForType DEF Paused
  <2>2. u = EraseSession(freed, mac, FALSE)
    BY <1>6, <2>1 DEF AbandonHandshake
  <2>3. u.devices \subseteq t.devices
    BY <1>1, <2>2 DEF EraseSession, Table
  <2>4. mac \notin secured
    BY <1>6, <2>1 DEF Restorable, Sound, Keyed
  <2> QED
    BY <2>3, <2>4 DEF Kept
<1> QED
  BY <1>2, <1>3, <1>4, <1>5, <1>6 DEF Paused

\* A CONNECT creates no session and, if no key is refused, costs none.
LEMMA BeginHandshakeKeeps ==
    ASSUME NEW t \in Table, Sound(t), NEW mac \in Mac, NEW cn \in Nonce, NEW gn \in Nonce,
           NEW addOk \in BOOLEAN, NEW secured
    PROVE  LET u == BeginHandshake(t, mac, cn, gn, addOk, secured).t IN
           Kept(t, u) /\ (Mac \subseteq secured => Spared(t, u))
<1>1. CASE SlotFor(t, mac) = {}
  BY <1>1, Unchanged DEF BeginHandshake
<1>2. CASE SlotFor(t, mac) # {}
  <2> DEFINE s == CHOOSE x \in SlotFor(t, mac) : TRUE
             cleared == Evicted(t, s, mac, secured)
             entry == [mac |-> mac, clientNonce |-> cn, gatewayNonce |-> gn, age |-> 0]
             begun == [SetPeer(Suspend(cleared, mac), mac, Plain) EXCEPT !.pending[s] = entry]
             refused == [cleared EXCEPT !.pending[s] = Free]
             u == BeginHandshake(t, mac, cn, gn, addOk, secured).t
  <2>1. s \in Slot
    BY <1>2 DEF SlotFor, PendingSlots
  <2>2. cleared \in Table
    BY <2>1, EvictedType
  <2>3. Kept(t, cleared) /\ (Mac \subseteq secured => Spared(t, cleared))
    <3>1. CASE HasPending(t, mac) \/ ~Active(t, s)
      BY <3>1, Unchanged DEF Evicted
    <3>2. CASE ~(HasPending(t, mac) \/ ~Active(t, s))
      <4>1. t.pending[s].mac \in Mac
        BY <2>1, <3>2 DEF Active, Table, PendingHandshake
      <4> QED
        BY <3>2, <4>1, AbandonHandshakeKeeps DEF Evicted
    <3> QED
      BY <3>1, <3>2
  <2>4. u = IF addOk THEN begun ELSE refused
    BY <1>2 DEF BeginHandshake
  <2>5. u \in Table
    BY BeginHandshakeType
  <2> HIDE DEF s, cleared, entry, u
  <2>6. /\ begun.devices = {IF d.mac = mac THEN [d EXCEPT !.suspended = TRUE] ELSE d : d \in cleared.devices}
        /\ refused.devices = cleared.devices
    BY <2>2 DEF SetPeer, Suspend, Table
  <2>7. Kept(cleared, begun) /\ Spared(cleared, begun)
    <3> HIDE DEF begun
    <3>1. /\ \A e \in begun.devices : \E d \in cleared.devices : e \in Pauses(d)
          /\ \A d \in cleared.devices : \E e \in begun.devices : e \in Pauses(d)
      BY <2>6 DEF Pauses
    <3> QED
      BY <2>2, <3>1, PausesOnly
  <2>8. Kept(cleared, refused) /\ Spared(cleared, refused)
    BY <2>2, <2>6, Unchanged
  <2> HIDE DEF begun, refused
  <2>9. Kept(cleared, u) /\ Spared(cleared, u)
    BY <2>4, <2>7, <2>8
  <2> QED
    BY <2>2, <2>3, <2>5, <2>9, KeptThrough, SparedThrough DEF u
<1> QED
  BY <1>1, <1>2

\* A proven AUTH touches the session of its own station only.
LEMMA AcceptKeeps ==
    ASSUME IInv, NEW type \in FromClient, NEW f \in Frame(type), HasPending(table, f.mac), AcceptAuth(f)
    PROVE  \A d \in Device : d.mac # f.mac => (d \in table'.devices <=> d \in table.devices)
<1>1. f.mac \in Mac /\ table \in Table /\ Sound(table)
  BY DEF Frame, IInv, TypeOK, Consistent
<1>2. PICK cid \in Cid, secured \in Securable :
        /\ IsNextCid(Superseded(table, f.mac), cid)
        /\ LET done == CompleteHandshake(table, f.mac, cid) IN
           \/ table' = SecureSession(done, f.mac, KeyOf(PendingFor(table, f.mac)), secured)
           \/ table' = EraseSession(done, f.mac, FALSE)
  BY DEF AcceptAuth
<1> DEFINE done == CompleteHandshake(table, f.mac, cid)
           key == KeyOf(PendingFor(table, f.mac))
<1>3. key \in Key
  BY <1>1, KeyOfType
<1>4. FreeCid(Superseded(table, f.mac), cid)
  BY <1>2 DEF IsNextCid
<1>5. /\ done \in Table /\ Distinct(done) /\ OneEach(done)
      /\ HasSession(done, f.mac) /\ ~SessionFor(done, f.mac).suspended
      /\ ~HasPending(done, f.mac)
      /\ \A d \in done.devices : d.mac # f.mac => d.state # "AUTHENTICATED" /\ d.key # NoKey
      /\ \A m \in Mac \ {f.mac} : SameView(table, done, m)
  BY <1>1, <1>4, CompleteHandshakeType, CompleteHandshakeSound
<1>6. table' = SecureSession(done, f.mac, key, secured) \/ table' = EraseSession(done, f.mac, FALSE)
  BY <1>2
<1> HIDE DEF done, key
<1>7. \A m \in Mac \ {f.mac} : SameView(done, table', m)
  BY <1>1, <1>3, <1>5, <1>6, SecureSessionSound
<1>8. \A m \in Mac \ {f.mac} : SameSessions(table, done, m) /\ SameSessions(done, table', m)
  BY <1>5, <1>7 DEF SameView
<1>9. \A d \in Device : d.mac \in Mac
  BY DEF Device
<1> QED
  BY <1>8, <1>9 DEF SameSessions

\* The two loops of expire(), and time.
LEMMA ExpireKeeps ==
    ASSUME NEW t \in Table, NEW secured, NEW u, u = AbandonTimedOut(t, secured)
    PROVE  /\ \A e \in u.devices : \E d \in t.devices : e \in Pauses(d)
           /\ Kept(t, EndSilent(u)) /\ Kept(t, Aged(t))
<1> DEFINE out == TimedOut(t)
           resumed == {m \in out : Paused(t, m) /\ Restorable(t, m, secured)}
           ended == {m \in out : Paused(t, m) /\ ~Restorable(t, m, secured)}
<1>1. u \in Table
  BY AbandonTimedOutType
<1>2. /\ u.devices = {IF d.mac \in resumed THEN [d EXCEPT !.suspended = FALSE] ELSE d :
                        d \in {e \in t.devices : e.mac \notin ended}}
      /\ Aged(t).devices = {[d EXCEPT !.silent = Older(@, SessionTimeout)] : d \in t.devices}
  BY DEF AbandonTimedOut, Aged, Table
<1> HIDE DEF resumed, ended
<1>3. \A e \in u.devices : \E d \in t.devices : e \in Pauses(d)
  BY <1>2 DEF Pauses
<1>4. EndSilent(u).devices \subseteq u.devices
  BY <1>1 DEF EndSilent, Table
<1>5. /\ t.devices \subseteq Device
      /\ \A d \in Device : /\ \A e \in Pauses(d) : e.mac = d.mac /\ e.cid = d.cid /\ e.key = d.key
                           /\ [d EXCEPT !.silent = Older(@, SessionTimeout)].mac = d.mac
                           /\ [d EXCEPT !.silent = Older(@, SessionTimeout)].cid = d.cid
                           /\ [d EXCEPT !.silent = Older(@, SessionTimeout)].key = d.key
  BY DEF Table, Device, Pauses
<1>6. Kept(t, EndSilent(u))
  <2>1. \A e \in u.devices : \E d \in t.devices : d.mac = e.mac /\ d.cid = e.cid /\ d.key = e.key
    BY <1>3, <1>5
  <2> QED
    BY <1>4, <2>1 DEF Kept
<1>7. Kept(t, Aged(t))
  <2> DEFINE older(d) == [d EXCEPT !.silent = Older(@, SessionTimeout)]
  <2>1. Aged(t).devices = {older(d) : d \in t.devices}
    BY <1>2
  <2>2. \A d \in t.devices : older(d).mac = d.mac /\ older(d).cid = d.cid /\ older(d).key = d.key
    BY <1>5
  <2> HIDE DEF older
  <2> QED
    BY <2>1, <2>2 DEF Kept
<1> QED
  BY <1>3, <1>6, <1>7

-------------------------------------------------------------------------------
(* The steps.                                                                 *)

\* A frame of a session changes that session, or ends it.
LEMMA SessionFrameKeeps ==
    ASSUME IInv, NEW type \in FromClient, NEW f \in Frame(type),
           Admit(table, f.mac, f.type, f.cid) = "SESSION", HandleSessionFrame(f)
    PROVE  /\ Kept(table, table')
           /\ \A d \in table.devices : d.mac # f.mac => d \in table'.devices
           /\ \A d \in table.devices :
                d.mac = f.mac => /\ d.cid = f.cid /\ ~d.suspended
                                 /\ f.type = "DISCONNECT" \/ \E e \in table'.devices : SameName(d, e)
<1> DEFINE d == SessionFor(table, f.mac)
<1>1. f.mac \in Mac /\ f.type = type /\ table \in Table
  BY DEF Frame, IInv, TypeOK
<1>2. HasSession(table, f.mac)
  BY DEF Admit, Deaf
<1>3. d \in table.devices /\ d \in Device /\ d.mac = f.mac
  BY <1>1, <1>2, SessionForType
<1>4. ASSUME NEW e, e.mac = d.mac, e.cid = d.cid, e.key = d.key, table' = Update(f, e)
      PROVE  /\ Kept(table, table') /\ \A c \in table.devices : c.mac # f.mac => c \in table'.devices
             /\ e \in table'.devices /\ SameName(d, e)
  <2>1. table'.devices = (table.devices \ {d}) \cup {e}
    BY <1>1, <1>4 DEF Update, Replace, Table
  <2> HIDE DEF d
  <2> QED
    BY <1>3, <1>4, <2>1 DEF Kept, SameName
<1>5. ASSUME table' = EraseSession(table, f.mac, FALSE)
      PROVE  Kept(table, table') /\ \A c \in table.devices : c.mac # f.mac => c \in table'.devices
  <2>1. table'.devices = {c \in table.devices : c.mac # f.mac}
    BY <1>1, <1>5 DEF EraseSession, Table
  <2> QED
    BY <2>1 DEF Kept
<1>6. Session(f) \in Device /\ Session(f).mac = d.mac /\ Session(f).cid = d.cid /\ Session(f).key = d.key
  BY <1>3 DEF Session, Seen, Device
<1> HIDE DEF d
<1>7. /\ [Session(f) EXCEPT !.state = "CONNECTED"].mac = d.mac
      /\ [Session(f) EXCEPT !.state = "CONNECTED"].cid = d.cid /\ [Session(f) EXCEPT !.state = "CONNECTED"].key = d.key
      /\ Subscribed(Session(f), f.data).mac = d.mac /\ Subscribed(Session(f), f.data).cid = d.cid /\ Subscribed(Session(f), f.data).key = d.key
      /\ Unsubscribed(Session(f), f.data).mac = d.mac /\ Unsubscribed(Session(f), f.data).cid = d.cid /\ Unsubscribed(Session(f), f.data).key = d.key
      /\ [Session(f) EXCEPT !.will = f.data].mac = d.mac
      /\ [Session(f) EXCEPT !.will = f.data].cid = d.cid /\ [Session(f) EXCEPT !.will = f.data].key = d.key
  BY <1>6 DEF Subscribed, Unsubscribed, Device
<1>8. /\ Kept(table, table') /\ \A c \in table.devices : c.mac # f.mac => c \in table'.devices
      /\ f.type = "DISCONNECT" \/ \E e \in table'.devices : SameName(d, e)
  BY <1>4, <1>5, <1>6, <1>7
     DEF HandleSessionFrame, HandlePing, HandleDisconnect, HandleSubscribe, HandleUnsubscribe,
         HandleMessage, HandleLastWill, HandleOther
<1>9. f.cid = d.cid /\ ~d.suspended
  BY DEF Admit, Deaf, d
<1>10. \A c \in table.devices : c.mac = f.mac => c = d
  BY <1>3 DEF IInv, Consistent, Sound, Distinct
<1> QED
  BY <1>8, <1>9, <1>10

\* What a packet does to the sessions: a CONNECT pauses and resumes, an AUTH that is not
\* proven does no more, and everything else concerns the session of the sender.
LEMMA PacketKeeps ==
    ASSUME IInv, NEW type \in FromClient, NEW f \in Frame(type), NEW n \in Nonce, HandlePacket(f, n)
    PROVE  /\ f.type # "AUTH" => Kept(table, table')
           /\ \A e \in table'.devices :
                (\A d \in table.devices : d.mac = e.mac => d.cid # e.cid) => Proven(e.mac)
           /\ "secure" \notin Faults =>
                \A d \in table.devices :
                  \/ Left(d) \/ Replaced(d)
                  \/ OwnFrame(d) /\ \E e \in table'.devices : SameName(d, e)
                  \/ \E e \in table'.devices : SameSession(d, e)
<1>1. f.mac \in Mac /\ f.type = type /\ f.data \in Payload(type) /\ table \in Table /\ Sound(table)
      /\ table.devices \subseteq Device
  BY DEF Frame, IInv, TypeOK, Consistent, Table
<1>2. frame' = f /\ f # NoFrame
  BY FrameAssumption DEF HandlePacket
<1>3. "secure" \notin Faults => \A secured \in Securable : Mac \subseteq secured
  BY DEF Securable
<1>4. \A d \in Device : SameSession(d, d)
  BY DEF SameSession, Device
<1>5. CASE f.type # "INVALID" /\ HandleConnect(f, n)
  <2>1. f.data \in Nonce
    BY <1>1, <1>5, Payloads DEF HandleConnect
  <2>2. PICK addOk \in AddOk, secured \in Securable :
          LET u == BeginHandshake(table, f.mac, f.data, n, addOk, secured).t IN
          table' = u \/ table' = AbandonHandshake(u, f.mac, secured)
    BY <1>5 DEF HandleConnect
  <2>3. addOk \in BOOLEAN
    BY DEF AddOk
  <2> DEFINE u == BeginHandshake(table, f.mac, f.data, n, addOk, secured).t
  <2>4. u \in Table /\ Sound(u) /\ Kept(table, u) /\ (Mac \subseteq secured => Spared(table, u))
    BY <1>1, <2>1, <2>3, BeginHandshakeType, BeginHandshakeSound, BeginHandshakeKeeps
  <2> HIDE DEF u
  <2>5. table' \in Table /\ Kept(u, table') /\ (Mac \subseteq secured => Spared(u, table'))
    BY <1>1, <2>2, <2>4, Unchanged, AbandonHandshakeType, AbandonHandshakeKeeps DEF u
  <2>6. Kept(table, table') /\ (Mac \subseteq secured => Spared(table, table'))
    BY <1>1, <2>4, <2>5, KeptThrough, SparedThrough
  <2> QED
    BY <1>3, <2>6 DEF Kept, Spared
<1>6. CASE f.type # "INVALID" /\ HandleAuth(f)
  <2>1. HasPending(table, f.mac) /\ f.type = "AUTH"
    BY <1>6 DEF HandleAuth
  <2>2. CASE RejectAuth(f) \/ \E lmkOk \in BOOLEAN : RefuseAuth(f, lmkOk)
    <3>1. PICK secured \in Securable : table' = AbandonHandshake(table, f.mac, secured)
      BY <2>2 DEF RejectAuth, RefuseAuth
    <3>2. Kept(table, table') /\ (Mac \subseteq secured => Spared(table, table'))
      BY <1>1, <3>1, AbandonHandshakeKeeps
    <3> QED
      BY <1>3, <3>2 DEF Kept, Spared
  <2>3. CASE AcceptAuth(f)
    <3>1. Proven(f.mac) /\ replies' # <<>>
      BY <1>2, <2>1, <2>3 DEF Proven, AcceptAuth, ProofOk
    <3>2. \A d \in Device : d.mac # f.mac => (d \in table'.devices <=> d \in table.devices)
      BY <2>1, <2>3, AcceptKeeps
    <3>3. table'.devices \subseteq Device
      <4>1. table' \in Table
        BY <1>1, <1>6, HandshakeTypes DEF StepTypeOK
      <4> QED
        BY <4>1 DEF Table
    <3> QED
      BY <1>1, <1>4, <2>1, <3>1, <3>2, <3>3 DEF Replaced
  <2> QED
    BY <1>6, <2>2, <2>3 DEF HandleAuth
<1>7. CASE f.type # "INVALID" /\ HandleSessionFrame(f) /\ Admit(table, f.mac, f.type, f.cid) = "SESSION"
  <2>1. f.type \notin {"CONNECT", "AUTH", "INVALID"}
    BY <1>7 DEF Admit
  <2>2. /\ Kept(table, table') /\ \A d \in table.devices : d.mac # f.mac => d \in table'.devices
        /\ \A d \in table.devices :
             d.mac = f.mac => /\ d.cid = f.cid /\ ~d.suspended
                              /\ f.type = "DISCONNECT" \/ \E e \in table'.devices : SameName(d, e)
    BY <1>7, SessionFrameKeeps
  <2>3. \A d \in table.devices : d.mac = f.mac => OwnFrame(d)
    BY <1>2, <2>1, <2>2 DEF OwnFrame
  <2> QED
    BY <1>1, <1>2, <1>4, <2>1, <2>2, <2>3 DEF Kept, Left
<1>8. CASE table' = table
  BY <1>1, <1>4, <1>8 DEF Kept
<1>9. CASE f.type = "INVALID"
  <2>1. HandleInvalid(f)
    BY <1>9 DEF HandlePacket
  <2>2. table' = table
    BY <2>1, Zenon DEF HandleInvalid, IgnoreFrame
  <2> QED
    BY <1>8, <2>2
<1>10. CASE f.type # "INVALID"
  <2>1. HandleValid(f, n)
    BY <1>10 DEF HandlePacket
  <2>2. \/ HandleConnect(f, n) \/ HandleAuth(f)
        \/ HandleSessionFrame(f) /\ Admit(table, f.mac, f.type, f.cid) = "SESSION"
        \/ table' = table
    BY <2>1, Zenon DEF HandleValid, RefuseFrame, IgnoreFrame
  <2> QED
    BY <1>5, <1>6, <1>7, <1>8, <1>10, <2>2
<1> QED
  BY <1>9, <1>10

\* "Nothing but a verified AUTH may replace a session": whatever the stations send and
\* the radio refuses, a session appears only for a station that proved the handshake
\* pending for it.
THEOREM SessionsAreProven == Spec => OnlyProofCreates
<1> DEFINE Step == \A e \in table'.devices :
                     (\A d \in table.devices : d.mac = e.mac => d.cid # e.cid) => Proven(e.mac)
<1>1. ASSUME IInv, [Next]_vars PROVE Step
  <2>1. table \in Table /\ TypeOK
    BY <1>1 DEF IInv, TypeOK
  <2>2. Kept(table, table') => Step
    BY DEF Kept
  <2>3. ASSUME NEW mac \in Mac, NEW type \in FromClient, Receive(mac, type)
        PROVE  Step
    BY <1>1, <2>1, <2>3, ReceivedFrame, PacketKeeps
  <2>4. CASE ExpirePass
    BY <2>1, <2>2, <2>4, ExpireKeeps DEF ExpirePass, Expire
  <2>5. CASE Tick
    BY <2>1, <2>2, <2>5, ExpireKeeps DEF Tick
  <2>6. CASE Shutdown
    <3>1. table'.devices = {}
      BY <2>6 DEF Shutdown, Reset, EmptyTable
    <3> QED
      BY <3>1
  <2>7. CASE Start \/ UNCHANGED vars
    BY <2>1, <2>2, <2>7, Unchanged DEF Start, vars
  <2> QED
    BY <1>1, <2>3, <2>4, <2>5, <2>6, <2>7 DEF Next
<1>2. IInv /\ [Next]_vars => [Step]_vars
  BY <1>1
<1> QED
  BY <1>2, Inductive, PTL DEF Spec, OnlyProofCreates

\* One pass of expire(), when every key is taken back: what is not there afterwards was
\* silent for too long, and a session that was paused had run out of handshake.
LEMMA ExpireSpares ==
    ASSUME NEW t \in Table, Sound(t), NEW secured, Mac \subseteq secured, NEW d \in t.devices
    PROVE  \/ Overdue(d) /\ (d.suspended => d.mac \in TimedOut(t))
           \/ \E e \in Expire(t, secured).devices : SameSession(d, e)
<1> DEFINE u == AbandonTimedOut(t, secured)
           resumed == {m \in TimedOut(t) : Paused(t, m) /\ Restorable(t, m, secured)}
           ended == {m \in TimedOut(t) : Paused(t, m) /\ ~Restorable(t, m, secured)}
           e == IF d.mac \in resumed THEN [d EXCEPT !.suspended = FALSE] ELSE d
<1>1. d \in Device /\ d.mac \in Mac /\ d.key # NoKey /\ SessionFor(t, d.mac) = d
  BY SessionForIs DEF Table, Device, Sound, Keyed
<1>2. d.mac \notin ended
  BY <1>1 DEF Restorable
<1>3. /\ u \in Table
      /\ u.devices = {IF c.mac \in resumed THEN [c EXCEPT !.suspended = FALSE] ELSE c :
                        c \in {x \in t.devices : x.mac \notin ended}}
  BY AbandonTimedOutType DEF AbandonTimedOut, Table
<1>4. e \in u.devices
  BY <1>2, <1>3
<1>5. /\ SameSession(d, e) /\ e.silent = d.silent /\ e.state = d.state
      /\ ~e.suspended => ~d.suspended \/ d.mac \in TimedOut(t)
  BY <1>1 DEF SameSession, Device
<1>6. Expire(t, secured).devices = u.devices \ Gone(u)
  BY <1>3 DEF Expire, EndSilent, Table
<1> HIDE DEF u, e, resumed, ended
<1>7. e \in Gone(u) => Overdue(d) /\ ~e.suspended
  BY <1>5 DEF Gone, Silent, Overdue
<1> QED
  BY <1>4, <1>5, <1>6, <1>7

\* A session that a step leaves as it was, paused or not, goes on: the tables agree about
\* it again.
LEMMA GoesOn ==
    ASSUME table' \in Table, PeersAgree(table'), NEW d \in Device, NEW e \in table'.devices,
           \/ SameSession(d, e)
           \/ e.silent >= d.silent /\ [d EXCEPT !.silent = e.silent] = e
           \/ OwnFrame(d) /\ SameName(d, e)
    PROVE  Continues(d, e)
<1>1. e \in Device /\ e.mac \in Mac
  BY DEF Table, Device
<1>2. /\ e.mac = d.mac /\ e.cid = d.cid /\ e.key = d.key
      /\ OwnFrame(d) \/ (e.state = d.state /\ e.subs = d.subs /\ e.will = d.will /\ e.silent >= d.silent)
  BY <1>1 DEF SameSession, SameName, Device
<1>3. IF e.suspended THEN HasPending(table', d.mac) ELSE table'.peers[d.mac] = d.key
  BY <1>1, <1>2 DEF PeersAgree, Station
<1> QED
  BY <1>2, <1>3 DEF Continues

\* On a radio that refuses nothing a session ends in three ways alone: its station leaves,
\* proves itself anew, or has fallen silent.  A handshake that nobody proves, however it
\* ends, hands the session it paused back as it was.
THEOREM SessionsAreSpared ==
    ASSUME Faults = {}
    PROVE  Spec => UnprovenKeepsSession
<1> DEFINE Step == up' => \A d \in table.devices :
                            \/ Left(d) \/ Replaced(d) \/ FellSilent(d)
                            \/ \E e \in table'.devices : Continues(d, e)
<1>1. ASSUME IInv, IInv', Next PROVE Step
  <2>1. /\ TypeOK /\ table \in Table /\ Sound(table) /\ table.devices \subseteq Device
        /\ table' \in Table /\ PeersAgree(table')
    BY <1>1 DEF IInv, TypeOK, Consistent, Table
  <2>2. ASSUME NEW mac \in Mac, NEW type \in FromClient, Receive(mac, type)
        PROVE  Step
    <3>1. PICK f \in Frame(type), n \in Nonce : HandlePacket(f, n)
      BY <2>1, <2>2, ReceivedFrame
    <3>2. \A d \in table.devices :
            \/ Left(d) \/ Replaced(d)
            \/ OwnFrame(d) /\ \E e \in table'.devices : SameName(d, e)
            \/ \E e \in table'.devices : SameSession(d, e)
      BY <1>1, <3>1, PacketKeeps
    <3> QED
      BY <2>1, <3>2, GoesOn
  <2>3. CASE ExpirePass
    <3>1. PICK secured \in Securable : table' = Expire(table, secured)
      BY <2>3 DEF ExpirePass
    <3>2. Mac \subseteq secured
      BY <3>1 DEF Securable
    <3>3. \A d \in table.devices :
            \/ Overdue(d) /\ (d.suspended => d.mac \in TimedOut(table))
            \/ \E e \in table'.devices : SameSession(d, e)
      BY <2>1, <3>1, <3>2, ExpireSpares
    <3> QED
      BY <2>1, <2>3, <3>3, GoesOn DEF FellSilent, ExpirePass
  <2>4. CASE Tick
    <3> DEFINE older(d) == [d EXCEPT !.silent = Older(@, SessionTimeout)]
    <3>1. table'.devices = {older(d) : d \in table.devices}
      BY <2>1, <2>4 DEF Tick, Aged, Table
    <3>2. \A d \in Device : older(d).silent >= d.silent /\ [d EXCEPT !.silent = older(d).silent] = older(d)
      BY ManagerAssumption DEF Device, Older
    <3> HIDE DEF older
    <3> QED
      BY <2>1, <3>1, <3>2, GoesOn
  <2>5. CASE Start
    <3>1. table' = table /\ \A d \in Device : SameSession(d, d)
      BY <2>5 DEF Start, SameSession, Device
    <3> QED
      BY <2>1, <3>1, GoesOn
  <2>6. CASE Shutdown
    BY <2>6 DEF Shutdown
  <2> QED
    BY <1>1, <2>2, <2>3, <2>4, <2>5, <2>6 DEF Next
<1>2. IInv /\ IInv' /\ [Next]_vars => [Step]_vars
  BY <1>1
<1> QED
  BY <1>2, Inductive, PTL DEF Spec, UnprovenKeepsSession
-------------------------------------------------------------------------------
(* What the broker sends and publishes.                                       *)

\* A frame of a station that is paused is answered by the handshake alone.
LEMMA PacketAnswers ==
    ASSUME IInv, "add" \notin Faults, NEW type \in FromClient, NEW f \in Frame(type),
           NEW n \in Nonce, HandlePacket(f, n), HasPending(table, f.mac)
    PROVE  \/ replies' = <<>>
           \/ \E kind \in {"CHALLENGE", "CONNACK"} : \E cid, data : replies' = <<Send(f, kind, cid, data)>>
           \/ \E kind, cid : replies' = <<Send(f, kind, cid, "AUTH_FAILED")>>
<1>1. f.mac \in Mac /\ f.type = type /\ table \in Table /\ Station(table, f.mac)
  BY DEF Frame, IInv, TypeOK, Consistent, PeersAgree
<1>2. Deaf(table, f.mac)
  <2>1. CASE ~HasSession(table, f.mac)
    BY <2>1 DEF Deaf
  <2>2. CASE HasSession(table, f.mac)
    <3>1. SessionFor(table, f.mac) \in table.devices /\ SessionFor(table, f.mac).mac = f.mac
      BY <1>1, <2>2, SessionForType
    <3> QED
      BY <1>1, <3>1 DEF Deaf, Station
  <2> QED
    BY <2>1, <2>2
<1>3. CASE f.type = "INVALID"
  <2>1. HandleInvalid(f) /\ ~(HasSession(table, f.mac) /\ ~Paused(table, f.mac))
    BY <1>2, <1>3 DEF HandlePacket, Deaf, Paused
  <2> QED
    BY <2>1, Zenon DEF HandleInvalid, IgnoreFrame
<1>4. CASE f.type # "INVALID"
  <2>1. HandleValid(f, n)
    BY <1>4 DEF HandlePacket
  <2>2. Admit(table, f.mac, f.type, f.cid) \in {"HANDSHAKE", "IGNORE"}
    BY <1>2 DEF Admit
  <2>3. HandleConnect(f, n) \/ HandleAuth(f) \/ IgnoreFrame
    BY <2>1, <2>2 DEF HandleValid
  <2>4. CASE HandleConnect(f, n)
    BY <2>4 DEF HandleConnect
  <2>5. CASE HandleAuth(f)
    <3>1. RejectAuth(f) \/ (\E lmkOk \in BOOLEAN : RefuseAuth(f, lmkOk)) \/ AcceptAuth(f)
      BY <2>5 DEF HandleAuth
    <3> QED
      BY <3>1, Zenon DEF RejectAuth, RefuseAuth, AcceptAuth
  <2> QED
    BY <2>3, <2>4, <2>5 DEF IgnoreFrame
<1> QED
  BY <1>3, <1>4

\* Every answer of a packet goes to the station that sent it.
LEMMA PacketAnswersSender ==
    ASSUME NEW f, NEW n, HandlePacket(f, n)
    PROVE  \/ replies' = <<>>
           \/ \E r : replies' = <<r>> /\ r.mac = f.mac
<1>1. \A kind, cid, data : Send(f, kind, cid, data).mac = f.mac
  BY DEF Send
<1>2. CASE f.type = "INVALID"
  <2>1. CASE HasSession(table, f.mac) /\ ~Paused(table, f.mac)
    <3>1. PICK error \in {"UNSUPPORTED_VERSION", "INVALID_FRAME"} :
            replies' = <<[Send(f, "ERROR", SessionFor(table, f.mac).cid, error) EXCEPT !.id = 0]>>
      BY <1>2, <2>1 DEF HandlePacket, HandleInvalid
    <3> DEFINE r == [Send(f, "ERROR", SessionFor(table, f.mac).cid, error) EXCEPT !.id = 0]
    <3>2. r.mac = f.mac /\ replies' = <<r>>
      BY <3>1 DEF Send
    <3> HIDE DEF r
    <3> QED
      BY <3>2
  <2>2. CASE ~(HasSession(table, f.mac) /\ ~Paused(table, f.mac))
    BY <1>2, <2>2 DEF HandlePacket, HandleInvalid, IgnoreFrame
  <2> QED
    BY <2>1, <2>2
<1>3. CASE f.type # "INVALID"
  <2>1. HandleValid(f, n)
    BY <1>3 DEF HandlePacket
  <2>2. \/ HandleConnect(f, n) \/ HandleAuth(f) \/ HandleSessionFrame(f) \/ IgnoreFrame
        \/ \E cid, error : RefuseFrame(f, cid, error)
    BY <2>1, Zenon DEF HandleValid
  <2>3. CASE HandleConnect(f, n)
    BY <1>1, <2>3, Zenon DEF HandleConnect
  <2>4. CASE HandleAuth(f)
    <3>1. RejectAuth(f) \/ (\E lmkOk \in BOOLEAN : RefuseAuth(f, lmkOk)) \/ AcceptAuth(f)
      BY <2>4 DEF HandleAuth
    <3>2. \/ replies' = <<>> \/ replies' = <<Send(f, "ERROR", 0, "AUTH_FAILED")>>
          \/ \E cid \in Cid : replies' = <<Send(f, "CONNACK", cid, NoData)>>
      BY <3>1, Zenon DEF RejectAuth, RefuseAuth, AcceptAuth
    <3> QED
      BY <1>1, <3>2
  <2>5. CASE HandleSessionFrame(f)
    <3>1. \A ok : Answer(f, ok).mac = f.mac
      BY <1>1, Zenon DEF Answer
    <3>2. \/ replies' = <<>> \/ replies' = <<Send(f, "PONG", f.cid, NoData)>>
          \/ \E ok : replies' = <<Answer(f, ok)>>
      BY <2>5, Zenon
         DEF HandleSessionFrame, HandlePing, HandleDisconnect, HandleSubscribe, HandleUnsubscribe,
             HandleMessage, HandleLastWill, HandleOther
    <3> QED
      BY <1>1, <3>1, <3>2
  <2>6. CASE IgnoreFrame \/ \E cid, error : RefuseFrame(f, cid, error)
    <3>1. replies' = <<>> \/ \E cid, error : replies' = <<Send(f, "ERROR", cid, error)>>
      BY <2>6, Zenon DEF IgnoreFrame, RefuseFrame
    <3> QED
      BY <1>1, <3>1
  <2> QED
    BY <2>2, <2>3, <2>4, <2>5, <2>6
<1> QED
  BY <1>2, <1>3

\* If no peer is refused a place in the radio's table, a station whose handshake runs is
\* sent that handshake's frames and no error about the session it may get back.
THEOREM PausedAreNotDisturbed ==
    ASSUME "add" \notin Faults
    PROVE  Spec => SilentWhilePaused
<1> DEFINE Step == \A i \in DOMAIN replies' :
                     HasPending(table, replies'[i].mac) =>
                        \/ replies'[i].type \in {"CHALLENGE", "CONNACK"}
                        \/ replies'[i].data = "AUTH_FAILED"
<1>1. ASSUME IInv, Next PROVE Step
  <2>1. CASE replies' = <<>>
    BY <2>1
  <2>2. ASSUME NEW mac \in Mac, NEW type \in FromClient, Receive(mac, type)
        PROVE  Step
    <3>1. TypeOK
      BY <1>1 DEF IInv
    <3>2. PICK f \in Frame(type), n \in Nonce : HandlePacket(f, n)
      BY <2>2, <3>1, ReceivedFrame
    <3>3. CASE ~HasPending(table, f.mac)
      <4>1. CASE \E r : replies' = <<r>> /\ r.mac = f.mac
        BY <3>3, <4>1
      <4> QED
        BY <2>1, <3>2, <4>1, PacketAnswersSender
    <3>4. CASE HasPending(table, f.mac)
      <4>1. ASSUME NEW kind \in {"CHALLENGE", "CONNACK"}, NEW cid, NEW data,
                   replies' = <<Send(f, kind, cid, data)>>
            PROVE  Step
        BY <4>1 DEF Send
      <4>2. ASSUME NEW kind, NEW cid, replies' = <<Send(f, kind, cid, "AUTH_FAILED")>>
            PROVE  Step
        BY <4>2 DEF Send
      <4> HIDE DEF Step
      <4> QED
        BY <1>1, <2>1, <3>2, <3>4, <4>1, <4>2, PacketAnswers
    <3> QED
      BY <3>3, <3>4
  <2>3. CASE ExpirePass \/ Tick \/ Shutdown \/ Start
    BY <2>1, <2>3 DEF ExpirePass, Tick, Shutdown, Start
  <2> QED
    BY <1>1, <2>2, <2>3 DEF Next
<1>2. IInv /\ [Next]_vars => [Step]_vars
  BY <1>1
<1> QED
  BY <1>2, Inductive, PTL DEF Spec, SilentWhilePaused

\* A pass of expire() ends every session whose will it publishes, and none of them is in
\* a handshake.
LEMMA LostAreGone ==
    ASSUME IInv, "add" \notin Faults, NEW secured, NEW d \in Lost(table, secured),
           table' = Expire(table, secured)
    PROVE  /\ \E c \in table.devices : c.mac = d.mac /\ c.will = d.will
                                      /\ c.state = "CONNECTED" /\ c.silent > SessionTimeout
           /\ ~HasSession(table', d.mac) /\ ~HasPending(table', d.mac)
<1> DEFINE u == AbandonTimedOut(table, secured)
<1>1. table \in Table /\ Sound(table) /\ PeersAgree(table)
  BY DEF IInv, TypeOK, Consistent
<1>2. u \in Table /\ Sound(u) /\ PeersAgree(u)
  BY <1>1, AbandonTimedOutType, AbandonTimedOutSound
<1>3. \A e \in u.devices : \E c \in table.devices : e \in Pauses(c)
  BY <1>1, ExpireKeeps
<1>4. table' = EndSilent(u) /\ d \in Gone(u) /\ d.state = "CONNECTED"
  BY DEF Expire, Lost
<1> HIDE DEF u
<1>5. /\ d \in u.devices /\ d \in Device /\ d.mac \in Mac
      /\ ~d.suspended /\ d.silent > SessionTimeout
  <2>1. d \in u.devices /\ Silent(d)
    BY <1>4 DEF Gone
  <2>2. d \in Device
    BY <1>2, <2>1 DEF Table
  <2> QED
    BY <1>4, <2>1, <2>2 DEF Silent, Overdue, Device
<1>6. PICK c \in table.devices : d \in Pauses(c)
  BY <1>3, <1>5
<1>7. c.mac = d.mac /\ c.will = d.will /\ c.state = d.state /\ c.silent = d.silent
  <2>1. c \in Device
    BY <1>1, <1>6 DEF Table
  <2> QED
    BY <1>6, <2>1 DEF Pauses, Device
<1>8. table'.devices = u.devices \ Gone(u) /\ table'.pending = u.pending
  BY <1>2, <1>4 DEF EndSilent, Table
<1>9. ~HasSession(table', d.mac)
  BY <1>2, <1>4, <1>5, <1>8 DEF HasSession, Sound, Distinct
<1>10. ~HasPending(table', d.mac)
  <2>1. ~HasPending(u, d.mac)
    BY <1>2, <1>5 DEF PeersAgree, Station
  <2> QED
    BY <1>8, <2>1 DEF HasPending, PendingSlots, Active
<1> QED
  BY <1>4, <1>5, <1>6, <1>7, <1>9, <1>10

\* A packet publishes a message or nothing.
LEMMA PacketPublishes ==
    ASSUME NEW f, NEW n, HandlePacket(f, n)
    PROVE  \A p \in published' : p.what = "MESSAGE"
<1>1. CASE f.type = "INVALID"
  <2>1. HandleInvalid(f)
    BY <1>1 DEF HandlePacket
  <2>2. published' = {}
    BY <2>1, Zenon DEF HandleInvalid, IgnoreFrame
  <2> QED
    BY <2>2
<1>2. CASE f.type # "INVALID"
  <2>1. HandleValid(f, n)
    BY <1>2 DEF HandlePacket
  <2>2. published' \in {{}, {[mac |-> f.mac, what |-> "MESSAGE"]}}
    BY <2>1, Zenon
       DEF HandleValid, HandleConnect, HandleAuth, HandleSessionFrame, HandlePing, HandleDisconnect,
           HandleSubscribe, HandleUnsubscribe, HandleMessage, HandleLastWill, HandleOther,
           RefuseFrame, IgnoreFrame
  <2> QED
    BY <2>2
<1> QED
  BY <1>1, <1>2

\* If no peer is refused a place in the radio's table, a last will is published only for a
\* session in use that fell silent, once, and never while the station is coming back.
THEOREM WillsAreLast ==
    ASSUME "add" \notin Faults
    PROVE  Spec => WillMeansGone
<1> DEFINE Step == \A p \in published' :
                     p.what \in Will =>
                        /\ \E d \in table.devices : d.mac = p.mac /\ d.will = p.what
                                       /\ d.state = "CONNECTED" /\ d.silent > SessionTimeout
                        /\ ~HasSession(table', p.mac) /\ ~HasPending(table', p.mac)
<1>1. ASSUME IInv, Next PROVE Step
  <2>1. ASSUME NEW mac \in Mac, NEW type \in FromClient, Receive(mac, type)
        PROVE  Step
    <3>1. PICK f \in Frame(type), n \in Nonce : HandlePacket(f, n)
      BY <1>1, <2>1, ReceivedFrame DEF IInv
    <3> QED
      BY <3>1, PacketPublishes, BrokerAssumption
  <2>2. CASE ExpirePass
    <3>1. PICK secured \in Securable :
            /\ table' = Expire(table, secured)
            /\ published' = {[mac |-> d.mac, what |-> d.will] : d \in Lost(table, secured)}
      BY <2>2 DEF ExpirePass
    <3>2. ASSUME NEW p \in published' PROVE \E d \in Lost(table, secured) : p.mac = d.mac /\ p.what = d.will
      BY <3>1, <3>2
    <3> QED
      BY <1>1, <3>1, <3>2, LostAreGone
  <2>3. CASE Tick \/ Shutdown \/ Start
    BY <2>3 DEF Tick, Shutdown, Start
  <2> QED
    BY <1>1, <2>1, <2>2, <2>3 DEF Next
<1>2. IInv /\ [Next]_vars => [Step]_vars
  BY <1>1
<1> QED
  BY <1>2, Inductive, PTL DEF Spec, WillMeansGone
===============================================================================
