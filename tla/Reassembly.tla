------------------------------ MODULE Reassembly ------------------------------
(* Messages in fragments between ESP-NOW stations and their gateway: publish()  *)
(* on the station, from several tasks at once, into the gateway's table of      *)
(* partial messages (Gateway/EspNow/Reassembly), and espBroker_sendMessage()    *)
(* into the one partial message of a station (EspNowClient).  Frames are lost,  *)
(* and sessions end on either side between any two of them.  How a session is   *)
(* made is in EspNowLink.                                                       *)
EXTENDS Naturals, Sequences, FiniteSets

CONSTANTS
    Senders,           \* the stations
    Gateway,
    PartialSlots,      \* ReassemblyTable::Slots
    ReceiveDepth,      \* RX_QUEUE_DEPTH
    LastId,            \* UINT16_MAX
    MaxPublications,   \* bounds: messages,
    MaxCids,           \* sessions,
    Crews              \* and the stations there are, how many frames their messages
                       \* take, and how many losses, ends of sessions, boots and
                       \* timeouts befall them

ASSUME FragmentsAssumption ==
    /\ Gateway \notin Senders
    /\ PartialSlots \in Nat /\ ReceiveDepth \in Nat /\ LastId \in Nat \ {0}
    /\ MaxPublications \in Nat /\ MaxCids \in Nat
    /\ \A crew \in Crews : crew.senders \subseteq Senders /\ crew.counts \subseteq Nat \ {0} /\ crew.left \in Nat

VARIABLE air    \* sessions as either side sees them, what is sent, on its way, and received

NoPartial == [cid |-> 0]

FragmentsInit ==
    \E crew \in Crews :
        air = [here |-> crew.senders, counts |-> crew.counts, left |-> crew.left,
               session |-> [s \in Senders |-> 0], joined |-> [s \in Senders |-> 0], cids |-> 0,
               ids |-> [s \in Senders \cup {Gateway} |-> 1],
               pubs |-> <<>>, uplink |-> <<>>, delivered |-> <<>>,
               slots |-> [i \in 1 .. PartialSlots |-> NoPartial],
               partial |-> [s \in Senders |-> NoPartial]]

\* Of what the bound counts, one more.
Trouble(a) == [a EXCEPT !.left = a.left - 1]
Troubled == air.left > 0

InProgress(a, p) == a.pubs[p].next <= a.pubs[p].total
GatewayBusy == \E p \in DOMAIN air.pubs : air.pubs[p].by = Gateway /\ InProgress(air, p)

\* History: what befell the publications that are among ps.
Spoil(a, ps) ==
    [a EXCEPT !.pubs = [p \in DOMAIN a.pubs |-> [a.pubs[p] EXCEPT !.fine = a.pubs[p].fine /\ p \notin ps]]]
Between(a, s) == {p \in DOMAIN a.pubs : s \in {a.pubs[p].by, a.pubs[p].to}}
Within(partial) == IF partial = NoPartial THEN {} ELSE {d[1] : d \in {partial.data[i] : i \in DOMAIN partial.data}}

-------------------------------------------------------------------------------
(* ReassemblyTable.                                                            *)

Begun(f) == [from |-> f.from, cid |-> f.cid, id |-> f.id, next |-> 0, total |-> f.total,
             old |-> FALSE, data |-> <<>>]
Extended(partial, f) ==
    [partial EXCEPT !.next = partial.next + 1, !.data = Append(partial.data, f.data)]
Held(a) == {i \in DOMAIN a.slots : a.slots[i] # NoPartial}

\* Faulty: a message is known by its sender and its id.
FindAnySession(a, f) == {i \in Held(a) : a.slots[i].from = f.from /\ a.slots[i].id = f.id}
Find(a, f) ==
    {i \in Held(a) : a.slots[i].from = f.from /\ a.slots[i].cid = f.cid /\ a.slots[i].id = f.id}

\* Free, timed out, or left by this sender under another session.
Claimable(a, f) ==
    {i \in DOMAIN a.slots : \/ i \notin Held(a) \/ a.slots[i].old
                            \/ a.slots[i].from = f.from /\ a.slots[i].cid # f.cid}
First(at) == CHOOSE i \in at : \A j \in at : i <= j

Consume(a, i, partial, f) ==
    IF f.index # partial.next \/ f.total # partial.total THEN [a EXCEPT !.slots[i] = NoPartial]
    ELSE IF f.index + 1 < f.total
    THEN [a EXCEPT !.slots[i] = Extended(partial, f)]
    ELSE [a EXCEPT !.slots[i] = NoPartial, !.delivered = Append(@, Append(partial.data, f.data))]

\* feed()
Feed(a, f) ==
    IF f.total = 1 THEN [a EXCEPT !.delivered = Append(@, <<f.data>>)]
    ELSE IF Find(a, f) # {} THEN LET i == First(Find(a, f)) IN Consume(a, i, a.slots[i], f)
    ELSE IF f.index # 0 THEN a
    ELSE IF Claimable(a, f) = {} THEN Spoil(a, {f.data[1]})
    ELSE Consume(a, First(Claimable(a, f)), Begun(f), f)

DropPartials(a, s) ==
    [a EXCEPT !.slots = [i \in DOMAIN a.slots |->
                             IF i \in Held(a) /\ a.slots[i].from = s THEN NoPartial ELSE a.slots[i]]]

-------------------------------------------------------------------------------
(* What a station publishes.                                                   *)

NextId(id) == IF id = LastId THEN 1 ELSE id + 1

\* A message of this session, or of one that had its cid, still has this id.
Reused(by, cid, id) ==
    \/ \E p \in DOMAIN air.pubs :
          /\ air.pubs[p].by = by /\ air.pubs[p].cid = cid /\ air.pubs[p].id = id
          /\ InProgress(air, p) \/ \E i \in DOMAIN air.uplink : air.uplink[i].data[1] = p
    \/ \E i \in Held(air) : /\ air.slots[i].from = by /\ air.slots[i].cid = cid
                            /\ air.slots[i].id = id
    \/ \E s \in Senders : /\ by = Gateway /\ air.partial[s].cid = cid
                          /\ ~air.partial[s].old /\ air.partial[s].id = id

Begin(by, to, cid, total) ==
    LET id == air.ids[by]
        reused == Reused(by, cid, id)
        same == {p \in DOMAIN air.pubs : /\ reused /\ air.pubs[p].by = by
                                         /\ air.pubs[p].cid = cid /\ air.pubs[p].id = id}
    IN  /\ Len(air.pubs) < MaxPublications
        /\ air' = [Spoil(air, same) EXCEPT
                     !.ids[by] = NextId(@),
                     !.pubs = Append(@, [by |-> by, to |-> to, cid |-> cid, id |-> id, total |-> total,
                                         next |-> 1, fine |-> ~reused, reused |-> reused])]

FragmentOf(p, i) ==
    LET q == air.pubs[p]
    IN  [from |-> q.by, cid |-> q.cid, id |-> q.id, index |-> i - 1, total |-> q.total, data |-> <<p, i>>]

\* sendMessageFrames(): the session is read once; two tasks may be in it.
BeginPublish(s, total) ==
    /\ air.joined[s] # 0
    /\ Cardinality({p \in DOMAIN air.pubs : air.pubs[p].by = s /\ InProgress(air, p)}) < 2
    /\ Begin(s, Gateway, air.joined[s], total)

\* sendRaw(): the radio may lose a frame it took, and one that it refused, or said
\* nothing of in time, ends the publication, whether it arrives or not.
Aired(p, arrives, taken) ==
    LET a == [air EXCEPT !.pubs[p].next = IF taken THEN air.pubs[p].next + 1 ELSE air.pubs[p].total + 1]
    IN  IF arrives /\ taken THEN a ELSE Trouble(Spoil(a, {p}))
SendFragment(p, arrives, taken) ==
    /\ InProgress(air, p) /\ air.pubs[p].by # Gateway
    /\ IF arrives THEN Len(air.uplink) < ReceiveDepth ELSE Troubled
    /\ taken \/ Troubled
    /\ air' = [Aired(p, arrives, taken) EXCEPT
                 !.uplink = IF arrives THEN Append(@, FragmentOf(p, air.pubs[p].next)) ELSE @]

\* handlePacket() of what the session admits: a fragment, or a DISCONNECT (index 0 of 0).
HandleUplink ==
    /\ air.uplink # <<>> /\ ~GatewayBusy
    /\ LET f == Head(air.uplink)
           a == [air EXCEPT !.uplink = Tail(@)]
       IN  air' = IF a.session[f.from] # f.cid THEN Spoil(a, {f.data[1]} \cap DOMAIN a.pubs)
                  ELSE IF f.total = 0
                  THEN DropPartials([Spoil(a, Between(a, f.from)) EXCEPT !.session[f.from] = 0], f.from)
                  ELSE Feed(a, f)

-------------------------------------------------------------------------------
(* What the gateway publishes, in its one task.                                *)

BeginSend(s, total) ==
    /\ air.session[s] # 0 /\ ~GatewayBusy
    /\ Begin(Gateway, s, air.session[s], total)

\* handleMessageFrame() of the client.
Take(a, s, f) ==
    LET old == IF a.partial[s] # NoPartial /\ a.partial[s].old THEN NoPartial ELSE a.partial[s]
        other == old.cid # f.cid \/ old.id # f.id
        partial == IF other THEN Begun(f) ELSE old
    IN  IF f.total = 1 THEN [a EXCEPT !.delivered = Append(@, <<f.data>>)]
        ELSE IF other /\ f.index # 0 THEN [a EXCEPT !.partial[s] = old]
        ELSE IF f.index # partial.next THEN [a EXCEPT !.partial[s] = NoPartial]
        ELSE IF f.index + 1 < partial.total
        THEN [Spoil(a, IF other THEN Within(old) ELSE {}) EXCEPT !.partial[s] = Extended(partial, f)]
        ELSE [a EXCEPT !.partial[s] = NoPartial,
                       !.delivered = Append(@, Append(partial.data, f.data))]

\* enterSearching(): what is being published goes on under the old cid.
Ended(a, s) == [Trouble(Spoil(a, Between(a, s))) EXCEPT !.joined[s] = 0, !.partial[s] = NoPartial]
Loses(s) == Troubled /\ air.joined[s] # 0 /\ air' = Ended(air, s)

\* The callback takes a frame of the session there is, which the client's task may end
\* after the callback has looked.
SendDown(p, arrives, taken) ==
    /\ InProgress(air, p) /\ air.pubs[p].by = Gateway /\ (Troubled \/ (arrives /\ taken))
    /\ LET s == air.pubs[p].to
           f == FragmentOf(p, air.pubs[p].next)
           a == Aired(p, arrives, taken)
       IN  IF arrives /\ air.joined[s] = f.cid
           THEN \/ air' = Take(a, s, f)
                \/ /\ a.left > 0
                   /\ air' = Take(Ended(a, s), s, f)
           ELSE air' = Spoil(a, {p})

-------------------------------------------------------------------------------
(* Sessions and time.                                                          *)

\* The handshake, which replaces the session the gateway had.
Joins(s) ==
    /\ s \in air.here /\ air.joined[s] = 0 /\ air.cids < MaxCids /\ ~GatewayBusy
    /\ air' = [Spoil(air, Between(air, s)) EXCEPT !.cids = @ + 1, !.joined[s] = air.cids + 1,
                                                  !.session[s] = air.cids + 1]

\* end(), whose DISCONNECT may be lost.
Goodbye(s) == [from |-> s, cid |-> air.joined[s], id |-> 0, index |-> 0, total |-> 0, data |-> <<0, 0>>]
Leaves(s) ==
    /\ Troubled /\ air.joined[s] # 0 /\ Len(air.uplink) < ReceiveDepth
    /\ air' = [Ended(air, s) EXCEPT !.uplink = Append(@, Goodbye(s))]

\* Its task is gone.
Abandoned(publication) == [publication EXCEPT !.next = publication.total + 1]
Reboots(s) ==
    /\ Troubled /\ air.joined[s] # 0
    /\ LET a == Ended(air, s)
       IN  air' = [a EXCEPT !.ids[s] = 1,
                            !.pubs = [p \in DOMAIN a.pubs |->
                                        IF a.pubs[p].by = s THEN Abandoned(a.pubs[p]) ELSE a.pubs[p]]]

\* expire(), of a session that fell silent, whether the station has left it or was not
\* heard: its partial messages stay.
Expires(s) ==
    /\ air.session[s] # 0 /\ ~GatewayBusy
    /\ air.session[s] = air.joined[s] => Troubled
    /\ air' = [(IF air.session[s] = air.joined[s] THEN Trouble(Spoil(air, Between(air, s))) ELSE air)
                 EXCEPT !.session[s] = 0]

\* espBroker_shutdown() drops those of the sessions there are.
GatewayStops ==
    /\ ~GatewayBusy
    /\ LET live == {s \in Senders : air.session[s] # 0}
       IN  /\ Troubled /\ live # {}
           /\ air' = [Trouble(Spoil(air, DOMAIN air.pubs)) EXCEPT
                        !.uplink = <<>>, !.session = [s \in Senders |-> 0],
                        !.slots = [i \in DOMAIN air.slots |-> IF i \in Held(air) /\ air.slots[i].from \in live
                                                              THEN NoPartial ELSE air.slots[i]]]

GatewayReboots ==
    /\ Troubled
    /\ LET a == Trouble(Spoil(air, DOMAIN air.pubs))
       IN  air' = [a EXCEPT
                     !.uplink = <<>>, !.session = [s \in Senders |-> 0], !.cids = 0,
                     !.ids[Gateway] = 1, !.slots = [i \in DOMAIN a.slots |-> NoPartial],
                     !.pubs = [p \in DOMAIN a.pubs |-> IF a.pubs[p].by = Gateway THEN Abandoned(a.pubs[p])
                                                       ELSE a.pubs[p]]]

\* A partial message becomes older than its timeout.
Ages ==
    \/ \E i \in Held(air) :
          /\ ~air.slots[i].old /\ Troubled
          /\ air' = Spoil([Trouble(air) EXCEPT !.slots[i].old = TRUE], Within(air.slots[i]))
    \/ \E s \in Senders :
          /\ air.partial[s] # NoPartial /\ ~air.partial[s].old /\ Troubled
          /\ air' = Spoil([Trouble(air) EXCEPT !.partial[s].old = TRUE], Within(air.partial[s]))

FragmentsNext ==
    \/ \E s \in Senders, total \in air.counts : BeginPublish(s, total) \/ BeginSend(s, total)
    \/ \E p \in DOMAIN air.pubs, arrives, taken \in BOOLEAN :
          SendFragment(p, arrives, taken) \/ SendDown(p, arrives, taken)
    \/ \E s \in Senders : Joins(s) \/ Loses(s) \/ Leaves(s) \/ Reboots(s) \/ Expires(s)
    \/ HandleUplink \/ GatewayStops \/ GatewayReboots \/ Ages

-------------------------------------------------------------------------------
(* Properties.                                                                 *)

Whole(p) == [i \in 1 .. air.pubs[p].total |-> <<p, i>>]

\* What is delivered is one message, all of it and in order, and no message is
\* delivered twice: sessions, ids and slots come round, and no fragment joins those of
\* another message.  Unless a message took the id, in a session of the same cid, of one
\* that waits in part: after 65535 others, or after a boot of the gateway if the
\* station's session ended while a frame of it was being taken.
WholeMessages ==
    /\ \A i \in DOMAIN air.delivered :
          \/ \E p \in DOMAIN air.pubs : air.delivered[i] = Whole(p)
          \/ \E d \in {air.delivered[i][j] : j \in DOMAIN air.delivered[i]} : air.pubs[d[1]].reused
    /\ \A i, j \in DOMAIN air.delivered : i # j => air.delivered[i] # air.delivered[j]

\* A message all of whose frames arrived in one session, in time and with a slot to
\* begin in, is delivered, however messages of other tasks and stations come between.
CarriedMessages ==
    \A p \in DOMAIN air.pubs :
        /\ air.pubs[p].fine /\ ~InProgress(air, p)
        /\ \A i \in DOMAIN air.uplink : air.uplink[i].data[1] # p
        => \E i \in DOMAIN air.delivered : air.delivered[i] = Whole(p)

\* Messages are put together from their own fragments, and only from these, and those
\* that can be are (ReassemblyTable::feed(), handleMessageFrame()).
MessagesArriveWhole == WholeMessages /\ CarriedMessages
===============================================================================
