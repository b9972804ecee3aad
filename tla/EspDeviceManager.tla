--------------------------- MODULE EspDeviceManager ---------------------------
(* The gateway's ESP-NOW session table (Gateway/EspNow/espDeviceManager):     *)
(* pending handshakes, established sessions, the cid allocator, the rule for  *)
(* which frames a sender may send, and the radio's peer entry that has to     *)
(* follow all of them.  The table is one record t and every operation of the  *)
(* class is an operator from table to table; EspBroker owns the variable.     *)
(*                                                                            *)
(* Clock values are abstracted to ages: the time since a handshake started or *)
(* a session was last heard, counted in ticks and capped past the longest     *)
(* timeout it is compared with.                                               *)
(*                                                                            *)
(* A definition marked "Faulty" is a slip this code could have: nothing uses  *)
(* it, and putting it in the place of the definition after it must break a    *)
(* property (PROJECT.json, "mutants").                                        *)
EXTENDS Naturals, FiniteSets

CONSTANTS
    Mac,              \* sender addresses
    Nonce,            \* 64-bit handshake nonces, 0 being a wiped one
    Filter, Will,     \* what a session may be told: topic filters, last wills
    MaxDevices,       \* espDeviceManager::MaxDevices, 16
    MaxPending,       \* espDeviceManager::MaxPending, 3
    MaxCid,           \* session ids are 1..MaxCid, 65535 for a uint16_t
    MaxSubscriptions, \* Device::MaxSubscriptions, 32
    HandshakeTimeout, SecuringTimeout, SessionTimeout,
    NoKey, NoWill, NoPeer, Plain, Free

\* A session key is derived from both nonces of one handshake; the proof an
\* AUTH carries is over the same pair (Auth.cpp: HMACs over the same context
\* under different labels), so both are identified with the pair.
Key == Nonce \X Nonce
Slot == 1..MaxPending
Cid == 1..MaxCid

Device == [mac : Mac, cid : Cid, state : {"AUTHENTICATED", "SECURING", "CONNECTED"},
           suspended : BOOLEAN, key : Key \cup {NoKey}, silent : Nat,
           subs : SUBSET Filter, will : Will \cup {NoWill}]

PendingHandshake == [mac : Mac, clientNonce : Nonce, gatewayNonce : Nonce, age : Nat]

Table == [devices : SUBSET Device,
          pending : [Slot -> PendingHandshake \cup {Free}],
          peers   : [Mac -> Key \cup {Plain, NoPeer}],
          nextCid : Cid]

ASSUME ManagerAssumption ==
    /\ MaxDevices \in Nat \ {0} /\ MaxPending \in Nat \ {0} /\ MaxCid \in Nat \ {0}
    /\ MaxSubscriptions \in Nat
    /\ HandshakeTimeout \in Nat /\ SecuringTimeout \in Nat /\ SessionTimeout \in Nat
    /\ SecuringTimeout <= SessionTimeout
    /\ MaxDevices <= MaxCid \* or allocateCid() would search for ever
    /\ 0 \in Nonce
    /\ NoKey \notin Key /\ Plain \notin Key /\ NoPeer \notin Key
    /\ Plain # NoPeer /\ NoKey # Plain /\ NoKey # NoPeer
    /\ NoWill \notin Will
    /\ Free \notin PendingHandshake

EmptyTable == [devices |-> {}, pending |-> [s \in Slot |-> Free],
               peers |-> [m \in Mac |-> NoPeer], nextCid |-> 1]

-------------------------------------------------------------------------------
(* Lookups.  A session is found by its MAC; a pending entry too.              *)

HasSession(t, mac) == \E d \in t.devices : d.mac = mac
SessionFor(t, mac) == CHOOSE d \in t.devices : d.mac = mac

Active(t, s) == t.pending[s] # Free
PendingSlots(t, mac) == {s \in Slot : Active(t, s) /\ t.pending[s].mac = mac}
HasPending(t, mac) == PendingSlots(t, mac) # {}
PendingFor(t, mac) == t.pending[CHOOSE s \in PendingSlots(t, mac) : TRUE]

\* Usable right now: secured, and not paused by a handshake.
IsConnected(d) == d.state = "CONNECTED" /\ ~d.suspended

Expired(p) == p.age > HandshakeTimeout
Older(age, limit) == IF age > limit THEN age ELSE age + 1

\* Faulty: answers a paused session too.
DeafUnlessPaused(t, mac) == ~HasSession(t, mac)
\* A station whose session frames are dropped without a word.
Deaf(t, mac) == ~HasSession(t, mac) \/ SessionFor(t, mac).suspended

\* What a session may be asked for: the encrypted PING is what secures it.
Served(d, type) ==
    \/ d.state = "CONNECTED"
    \/ d.state = "SECURING" /\ type \in {"PING", "DISCONNECT"}

\* What a frame is admitted as.  Nothing here changes the table.
Admit(t, mac, type, cid) ==
    LET d == SessionFor(t, mac) IN
    CASE type = "CONNECT" -> "HANDSHAKE"
      [] type = "AUTH" -> IF HasPending(t, mac) THEN "HANDSHAKE" ELSE "IGNORE"
      [] type \in {"BEACON", "CHALLENGE", "CONNACK"} -> "IGNORE"
      [] OTHER ->
           IF Deaf(t, mac) THEN "IGNORE"
           ELSE IF cid # d.cid THEN "INVALID_SESSION"
           ELSE IF Served(d, type) THEN "SESSION" ELSE "NOT_CONNECTED"

-------------------------------------------------------------------------------
(* Changes.  addOk and secured are the results of PeerOps: whether the peer   *)
(* can be turned to plaintext, and the MACs a key can be installed for.  When *)
(* esp_now refuses a change, the peer stays what it was.                      *)

SetPeer(t, mac, p) == [t EXCEPT !.peers[mac] = p]
Replace(t, d, e) == [t EXCEPT !.devices = (@ \ {d}) \cup {e}]

EraseSession(t, mac, keepPeer) ==
    [t EXCEPT !.devices = {d \in @ : d.mac # mac},
              !.peers[mac] = IF keepPeer \/ ~HasSession(t, mac) THEN @ ELSE NoPeer]

FreePending(t, mac) ==
    [t EXCEPT !.pending = [s \in Slot |-> IF s \in PendingSlots(t, mac) THEN Free ELSE @[s]]]

\* A handshake that failed or expired: a suspended session gets its key back
\* on the peer and resumes exactly as it was, or ends if that is refused.
Paused(t, mac) == HasSession(t, mac) /\ SessionFor(t, mac).suspended
Restorable(t, mac, secured) == SessionFor(t, mac).key # NoKey /\ mac \in secured
\* Faulty: resumes without putting the key back.
ResumePlain(t, mac) ==
    Replace(t, SessionFor(t, mac), [SessionFor(t, mac) EXCEPT !.suspended = FALSE])
Resume(t, mac) ==
    LET d == SessionFor(t, mac) IN
    SetPeer(Replace(t, d, [d EXCEPT !.suspended = FALSE]), mac, d.key)
AbandonHandshake(t, mac, secured) ==
    LET freed == FreePending(t, mac) IN
    IF ~HasPending(t, mac) THEN t
    ELSE IF ~HasSession(t, mac) THEN SetPeer(freed, mac, NoPeer)
    ELSE IF ~Paused(t, mac) THEN freed
    ELSE IF Restorable(t, mac, secured) THEN Resume(freed, mac)
    ELSE EraseSession(freed, mac, FALSE)

\* The slot a CONNECT takes: its sender's own, or the first one that is free
\* or past the handshake timeout.
Usable(t, s) == ~Active(t, s) \/ Expired(t.pending[s])
SlotFor(t, mac) ==
    IF HasPending(t, mac) THEN PendingSlots(t, mac)
    ELSE {s \in Slot : Usable(t, s) /\ \A r \in Slot : Usable(t, r) => s <= r}

\* Taking over the slot of an expired handshake abandons it.
Evicted(t, s, mac, secured) ==
    IF HasPending(t, mac) \/ ~Active(t, s) THEN t
    ELSE AbandonHandshake(t, t.pending[s].mac, secured)

Suspend(t, mac) ==
    [t EXCEPT !.devices = {IF d.mac = mac THEN [d EXCEPT !.suspended = TRUE] ELSE d : d \in @}]

\* CONNECT.  ok is false when every slot is live or the peer could not be
\* turned to plaintext.
BeginHandshake(t, mac, clientNonce, gatewayNonce, addOk, secured) ==
    IF SlotFor(t, mac) = {} THEN [ok |-> FALSE, t |-> t]
    ELSE LET s == CHOOSE x \in SlotFor(t, mac) : TRUE
             cleared == Evicted(t, s, mac, secured)
             entry == [mac |-> mac, clientNonce |-> clientNonce,
                       gatewayNonce |-> gatewayNonce, age |-> 0]
         IN  IF addOk
             THEN [ok |-> TRUE, t |-> [SetPeer(Suspend(cleared, mac), mac, Plain)
                                         EXCEPT !.pending[s] = entry]]
             ELSE [ok |-> FALSE, t |-> [cleared EXCEPT !.pending[s] = Free]]

\* allocateCid(): the first id from nextCid on, cyclically, that no session
\* holds.  cid is that id, and After the allocator's next candidate.
Steps(from, cid) == IF cid >= from THEN cid - from ELSE cid + MaxCid - from
FreeCid(t, cid) == \A d \in t.devices : d.cid # cid
IsNextCid(t, cid) ==
    /\ FreeCid(t, cid)
    /\ \A c \in Cid : FreeCid(t, c) => Steps(t.nextCid, cid) <= Steps(t.nextCid, c)
After(cid) == IF cid = MaxCid THEN 1 ELSE cid + 1

\* A verified AUTH: the one thing that may replace a session.  Replacing needs
\* no room, a new session does.
SessionTableFull(t, mac) == ~HasSession(t, mac) /\ Cardinality(t.devices) >= MaxDevices
Superseded(t, mac) == EraseSession(FreePending(t, mac), mac, TRUE)
CompleteHandshake(t, mac, cid) ==
    LET old == Superseded(t, mac)
        d == [mac |-> mac, cid |-> cid, state |-> "AUTHENTICATED", suspended |-> FALSE,
              key |-> NoKey, silent |-> 0, subs |-> {}, will |-> NoWill]
    IN  [old EXCEPT !.devices = @ \cup {d}, !.nextCid = After(cid)]

SecureSession(t, mac, key, secured) ==
    LET d == SessionFor(t, mac) IN
    IF mac \in secured THEN SetPeer(Replace(t, d, [d EXCEPT !.key = key, !.state = "SECURING"]), mac, key)
    ELSE EraseSession(t, mac, FALSE)

\* expire(), first loop: every timed-out handshake is abandoned.  Handshakes of
\* different MACs do not touch each other, so the loop is one step here.
TimedOut(t) == {t.pending[s].mac : s \in {r \in Slot : Active(t, r) /\ Expired(t.pending[r])}}
\* Faulty: takes the session of a handshake that timed out for a station that is gone.
EndTimedOut(t, secured) ==
    LET out == TimedOut(t)
    IN  [t EXCEPT
           !.pending = [s \in Slot |-> IF Active(t, s) /\ t.pending[s].mac \in out THEN Free ELSE @[s]],
           !.devices = {d \in @ : d.mac \notin out},
           !.peers = [m \in Mac |-> IF m \in out THEN NoPeer ELSE @[m]]]
AbandonTimedOut(t, secured) ==
    LET out == TimedOut(t)
        resumed == {m \in out : Paused(t, m) /\ Restorable(t, m, secured)}
        ended == {m \in out : Paused(t, m) /\ ~Restorable(t, m, secured)}
    IN  [t EXCEPT
           !.pending = [s \in Slot |-> IF Active(t, s) /\ t.pending[s].mac \in out THEN Free ELSE @[s]],
           !.devices = {IF d.mac \in resumed THEN [d EXCEPT !.suspended = FALSE] ELSE d :
                          d \in {e \in @ : e.mac \notin ended}},
           !.peers = [m \in Mac |-> IF m \in resumed THEN SessionFor(t, m).key
                                    ELSE IF m \in ended \/ (m \in out /\ ~HasSession(t, m)) THEN NoPeer
                                    ELSE @[m]]]

\* expire(), second loop: sessions that stayed silent, a paused one excepted.
Overdue(d) == d.silent > (IF d.state = "CONNECTED" THEN SessionTimeout ELSE SecuringTimeout)
Silent(d) == ~d.suspended /\ Overdue(d)
Gone(t) == {d \in t.devices : Silent(d)}
EndSilent(t) ==
    [t EXCEPT !.devices = @ \ Gone(t),
              !.peers = [m \in Mac |-> IF \E d \in Gone(t) : d.mac = m THEN NoPeer ELSE @[m]]]

Expire(t, secured) == EndSilent(AbandonTimedOut(t, secured))

\* Faulty: looks for the lost sessions after they were ended.
LostAfterEnd(t, secured) ==
    {d \in Gone(Expire(t, secured)) : d.state = "CONNECTED" /\ d.will # NoWill}
\* The sessions whose last will that pass publishes.
Lost(t, secured) ==
    {d \in Gone(AbandonTimedOut(t, secured)) : d.state = "CONNECTED" /\ d.will # NoWill}

\* reset(), when the whole ESP-NOW stack goes down: esp_now_deinit() has
\* dropped every peer.  The allocator keeps counting.
Reset(t) == [EmptyTable EXCEPT !.nextCid = t.nextCid]

\* One tick of the clock the timeouts are read against.
Aged(t) ==
    [t EXCEPT !.devices = {[d EXCEPT !.silent = Older(@, SessionTimeout)] : d \in t.devices},
              !.pending = [s \in Slot |-> IF Active(t, s)
                                          THEN [t.pending[s] EXCEPT !.age = Older(@, HandshakeTimeout)]
                                          ELSE Free]]

-------------------------------------------------------------------------------
(* Device: what a session remembers.                                          *)

SubscribeOk(d, filter) ==
    /\ filter \in Filter \* not empty, not too long
    /\ filter \in d.subs \/ Cardinality(d.subs) < MaxSubscriptions
Subscribed(d, filter) == [d EXCEPT !.subs = @ \cup {filter}]
\* The empty filter is found in any unused place of the subscription array.
UnsubscribeOk(d, filter) ==
    \/ filter \in d.subs
    \/ filter \notin Filter /\ Cardinality(d.subs) < MaxSubscriptions
Unsubscribed(d, filter) == [d EXCEPT !.subs = @ \ {filter}]
Seen(d) == [d EXCEPT !.silent = 0]
===============================================================================
