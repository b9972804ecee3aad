----------------------------- MODULE Gateway_proofs -----------------------------
(* What the gateway owes to the wills of another gateway's devices and to the   *)
(* devices of its own, for any window, any queues and any events.               *)
EXTENDS Gateway, FiniteSetTheorems, FunctionTheorems, TLAPS

-------------------------------------------------------------------------------
(* What is sent and heard.                                                      *)

States == {"gone", "joined", "named", "paused"}
Document(topic, values) == [topic : {topic}, value : values]

\* What the gateway publishes, and what the broker passes on to it.
Outbound == Document("status", {"on", "off"}) \cup Document("network", {"beacon", "silent"})
            \cup Document("clients", States) \cup Document("device", {"on", "off"})
Statuses == Nat \X BOOLEAN
Lists == Nat \X States
Inbound == Document("device", {"on", "off"}) \cup Document("peer", Statuses)
           \cup Document("peerClients", Lists) \cup [topic : {"status", "network"}, value : {None}]

Entry == [value : {"on", "off"}, from : {"local", "remote"}]
Known == [generation : Nat \cup {None}, offline : Nat \cup {None}, snapshot : Nat \cup {None},
          clients : States \cup {None}, applied : BOOLEAN]

Tasks == {"publisher", "gateway"}
Count == Int
Claims == SUBSET Tasks
Queues == Seq(Outbound \cup {None})
Wires == Seq(Outbound \cup {All})
Own3 == [1 .. 3 -> Outbound]

Client == [client : {"none", "started", "stopped"}, connected : BOOLEAN, pending : BOOLEAN,
           inflight : Count, claimed : Claims, queue : Queues]
Publisher == [at : {"idle", "vault", "own", "subscribe", "disconnect", "send"},
              hand : Outbound \cup {None}, todo : Seq(Outbound),
              own : Own3 \cup {None}, same : BOOLEAN]

ClientOK ==
    /\ mq \in Client /\ pub \in Publisher /\ wire \in Wires
    /\ pub.at = "send" => pub.hand \in Outbound
    /\ pub.at = "own" => /\ pub.own \in Own3
                         /\ pub.own[2].topic = "network" /\ pub.own[3].topic = "clients"

GatewayOK ==
    g \in [at : {"wait", "run", "offline", "halt", "discard", "off"}, enabled : BOOLEAN,
           espnow : BOOLEAN, pause : BOOLEAN, paused : BOOLEAN, device : States, listed : States,
           vault : Entry \cup {None}, clients : States \cup {None},
           network : {"beacon", "silent", None}, stale : BOOLEAN, due : BOOLEAN, peer : Known]

BrokerOK ==
    /\ b \in [status : {"old", "on", "off", None}, network : {"old", "beacon", "silent", None},
              clients : States \cup {"old"}, device : {"on", "off"}, by : {"us", "them"},
              peer : Statuses \cup {None}, peerClients : Lists \cup {None},
              subscribed : BOOLEAN, replay : SUBSET {"device", "peer", "peerClients"},
              missed : BOOLEAN]
    /\ "peer" \in b.replay => b.peer \in Statuses
    /\ "peerClients" \in b.replay => b.peerClients \in Lists

History == [lost : BOOLEAN, behind : BOOLEAN, hasty : BOOLEAN, latest : BOOLEAN,
            online : Nat \cup {None}, gone : SUBSET Nat, wills : Nat]

AroundOK ==
    /\ inbound \in Seq(Inbound)
    /\ peer \in [generation : Nat, up : BOOLEAN, listed : States, owes : BOOLEAN,
                 late : Nat \cup {None}]
    /\ seen \in History

GatewayTypeOK == ClientOK /\ GatewayOK /\ BrokerOK /\ AroundOK

\* What the gateway knows of another one is what it has heard: the wills are due at the
\* most once, and to the generation that was last said to be online, if any was.
HeardOK ==
    /\ seen.wills = 0 \/ (seen.wills = 1 /\ g.peer.applied)
    /\ g.peer.offline # None => g.peer.offline \in seen.gone
    /\ seen.online # None => g.peer.generation = seen.online

IInv == GatewayTypeOK /\ HeardOK

-------------------------------------------------------------------------------
(* The client.                                                                  *)

LEMMA Sequences ==
    /\ <<>> \in Queues /\ <<>> \in Wires /\ <<>> \in Seq(Outbound)
    /\ \A m \in Outbound : /\ \A q \in Queues : Append(q, m) \in Queues
                           /\ \A w \in Wires : Append(w, m) \in Wires
    /\ \A q \in Queues : Append(q, None) \in Queues
    /\ \A w \in Wires : Append(w, All) \in Wires
    /\ \A q \in Queues : q # <<>> => Head(q) \in Outbound \cup {None} /\ Tail(q) \in Queues
    /\ \A w \in Wires : w # <<>> => Head(w) \in Outbound \cup {All} /\ Tail(w) \in Wires
    /\ \A d \in Seq(Outbound) : d # <<>> => Head(d) \in Outbound /\ Tail(d) \in Seq(Outbound)
BY DEF Queues, Wires

LEMMA Counts == 0 \in Count /\ \A i \in Count : i + 1 \in Count /\ i - 1 \in Count
BY DEF Count

LEMMA QueueType ==
    ASSUME mq \in Client, NEW m \in Outbound, Queue(m)
    PROVE  mq' \in Client
BY Sequences DEF Queue, Client

LEMMA ClaimType ==
    ASSUME mq \in Client, NEW task \in Tasks, Claim(task)
    PROVE  mq' \in Client /\ wire' = wire
<1>1. \A c \in Claims : c \cup {task} \in Claims
  BY DEF Claims
<1> DEFINE i == mq.inflight + 1
           c == mq.claimed \cup {task}
<1>2. i \in Count /\ c \in Claims
  BY <1>1, Counts DEF Client
<1>3. mq' = [mq EXCEPT !.inflight = i, !.claimed = c] /\ wire' = wire
  BY DEF Claim
<1> HIDE DEF i, c
<1> QED
  BY <1>2, <1>3 DEF Client

LEMMA PublishType ==
    ASSUME mq \in Client, wire \in Wires,
           NEW task \in Tasks, NEW m \in Outbound, NEW taken \in BOOLEAN, Publish(task, m, taken)
    PROVE  mq' \in Client /\ wire' \in Wires
<1>1. \A c \in Claims : c \ {task} \in Claims
  BY DEF Claims
<1>2. mq' \in Client
  <2> DEFINE i == IF taken THEN mq.inflight ELSE mq.inflight - 1
             c == mq.claimed \ {task}
  <2>1. i \in Count /\ c \in Claims
    BY <1>1, Counts DEF Client
  <2>2. mq' = [mq EXCEPT !.inflight = i, !.claimed = c]
    BY DEF Publish
  <2> HIDE DEF i, c
  <2> QED
    BY <2>1, <2>2 DEF Client
<1>3. wire' \in Wires
  BY Sequences DEF Publish
<1> QED
  BY <1>2, <1>3

LEMMA OnwardType ==
    ASSUME NEW p \in Publisher
    PROVE  /\ Onward(p) \in Publisher
           /\ Onward(p).at = "send" => Onward(p).hand \in Outbound
           /\ Onward(p).at \in {"send", "idle"}
<1>1. CASE mq.connected
  BY <1>1, Sequences DEF Onward, Publisher
<1>2. CASE ~mq.connected
  BY <1>2, Sequences DEF Onward, Publisher
<1> QED
  BY <1>1, <1>2


\* The events of esp-mqtt.
LEMMA EventTypes ==
    ASSUME ClientOK, Connected \/ (Disconnected /\ pub' = pub) \/ (Acknowledged /\ pub' = pub)
                     \/ (Deleted /\ pub' = pub)
    PROVE  ClientOK'
<1>1. mq \in Client /\ pub \in Publisher /\ wire \in Wires
  BY DEF ClientOK
<1>2. Freed \in Count
  BY <1>1, Counts DEF Freed, Client
<1>3. CASE Connected
  <2>1. mq' \in Client
    <3> DEFINE q == IF HasRoom THEN Append(mq.queue, None) ELSE mq.queue
    <3>1. q \in Queues
      BY <1>1, Sequences DEF Client
    <3>2. mq' = [mq EXCEPT !.connected = TRUE, !.pending = TRUE, !.inflight = 0, !.queue = q]
      BY <1>3 DEF Connected
    <3> HIDE DEF q
    <3> QED
      BY <1>1, <3>1, <3>2, Counts DEF Client
  <2>2. /\ pub' \in Publisher /\ pub'.at = pub.at /\ pub'.hand = pub.hand /\ pub'.own = pub.own
        /\ wire' \in Wires
    BY <1>1, <1>3, Sequences DEF Connected, Publisher
  <2> QED
    BY <2>1, <2>2 DEF ClientOK
<1>4. CASE ~Connected
  <2>1. mq' \in Client
    <3>1. CASE Disconnected
      BY <1>1, <3>1, Counts DEF Disconnected, Client
    <3>2. CASE Acknowledged \/ Deleted
      <4>1. mq' = mq \/ mq' = [mq EXCEPT !.inflight = Freed]
        BY <3>2 DEF Acknowledged, Deleted, SlotReturns
      <4> HIDE DEF Freed
      <4> QED
        BY <1>1, <1>2, <4>1 DEF Client
    <3> QED
      BY <1>4, <3>1, <3>2
  <2>2. wire' \in Wires /\ pub' = pub
    BY <1>1, <1>4, Sequences DEF Disconnected, Acknowledged, Deleted
  <2> QED
    BY <2>1, <2>2 DEF ClientOK
<1> QED
  BY <1>3, <1>4

\* A setup that fails goes no further, a message that fails is dropped.
LEMMA FailedType ==
    ASSUME ClientOK, Failed
    PROVE  /\ pub' \in Publisher /\ (pub'.at = "send" => pub'.hand \in Outbound)
           /\ pub'.at \in {"idle", "send", "disconnect"}
<1>1. pub \in Publisher
  BY DEF ClientOK
<1>2. CASE pub.at = "send"
  BY <1>1, <1>2 DEF Failed, Publisher
<1>3. CASE pub.at # "send" /\ SameSession
  BY <1>1, <1>3, Sequences DEF Failed, Publisher
<1>4. CASE pub.at # "send" /\ ~SameSession
  BY <1>1, <1>4, OnwardType DEF Failed
<1> QED
  BY <1>2, <1>3, <1>4

LEMMA PublisherTypes ==
    ASSUME ClientOK, GatewayOK, PublisherTask
    PROVE  ClientOK'
<1>1. mq \in Client /\ pub \in Publisher /\ wire \in Wires
  BY DEF ClientOK
<1>2. "publisher" \in Tasks
  BY DEF Tasks
<1>3. VaultDocuments \in Seq(Outbound) /\ OwnDocuments \in Own3 /\ OwnDocuments \in Seq(Outbound)
      /\ OwnDocuments[2].topic = "network" /\ OwnDocuments[3].topic = "clients"
  <2>1. \A v \in {"on", "off"} : Message("device", v) \in Outbound
    BY DEF Message, Outbound, Document
  <2>2. /\ Message("status", "on") \in Outbound /\ Message("network", Network) \in Outbound
        /\ Message("clients", g.listed) \in Outbound
    BY DEF GatewayOK, Message, Outbound, Document, Network
  <2>3. /\ Message("network", Network).topic = "network"
        /\ Message("clients", g.listed).topic = "clients"
    BY DEF Message
  <2>4. OwnedHere(g.vault) => g.vault.value \in {"on", "off"}
    BY DEF GatewayOK, OwnedHere, Entry
  <2>5. VaultDocuments \in Seq(Outbound)
    BY <2>1, <2>4 DEF VaultDocuments
  <2> QED
    BY <2>2, <2>3, <2>5 DEF OwnDocuments, Own3
<1>4. CASE TakesNext
  <2> DEFINE p == [pub EXCEPT !.hand = Head(mq.queue)]
  <2>1. mq.queue \in Queues /\ Head(mq.queue) \in Outbound \cup {None} /\ Tail(mq.queue) \in Queues
    BY <1>1, <1>4, Sequences DEF TakesNext, TakeNext, Client
  <2>2. mq' \in Client /\ wire' = wire
    BY <1>1, <1>4, <2>1 DEF TakesNext, TakeNext, Client
  <2>3. p \in Publisher
    BY <1>1, <2>1 DEF Publisher
  <2>4. pub' = [p EXCEPT !.at = "vault", !.todo = VaultDocuments, !.same = TRUE] \/ pub' = Onward(p)
    BY <1>4 DEF TakesNext, TakeNext
  <2> HIDE DEF p
  <2>5. CASE pub' = [p EXCEPT !.at = "vault", !.todo = VaultDocuments, !.same = TRUE]
    <3>1. pub' \in Publisher /\ pub'.at = "vault"
      BY <1>3, <2>3, <2>5 DEF Publisher
    <3> QED
      BY <1>1, <2>2, <3>1 DEF ClientOK
  <2>6. CASE pub' = Onward(p)
    BY <1>1, <2>2, <2>3, <2>6, OnwardType DEF ClientOK
  <2> QED
    BY <2>4, <2>5, <2>6
<1>5. CASE PublisherWaits
  BY <1>1, <1>2, <1>5, ClaimType DEF PublisherWaits, PublisherClaims, ClientOK
<1>6. ASSUME NEW taken \in BOOLEAN, PublisherPublishes(taken) PROVE ClientOK'
  <2>1. Outgoing \in Outbound
    BY <1>1, <1>6, Sequences DEF PublisherPublishes, Publishing, Outgoing, ClientOK, Publisher
  <2>2. mq' \in Client /\ wire' \in Wires
    BY <1>1, <1>2, <1>6, <2>1, PublishType DEF PublisherPublishes
  <2>3. CASE taken /\ pub.at = "send"
    <3>1. pub' \in Publisher /\ pub'.at = "idle"
      BY <1>1, <1>6, <2>3 DEF PublisherPublishes, Publisher
    <3> QED
      BY <2>2, <3>1 DEF ClientOK
  <2>4. CASE taken /\ pub.at # "send"
    <3>1. Tail(pub.todo) \in Seq(Outbound)
      BY <1>1, <1>6, <2>4, Sequences DEF PublisherPublishes, Publishing, Publisher
    <3>2. pub' = [pub EXCEPT !.todo = Tail(@)]
      BY <1>6, <2>4 DEF PublisherPublishes
    <3>3. pub' \in Publisher /\ pub'.at = pub.at /\ pub'.own = pub.own
      BY <1>1, <3>1, <3>2 DEF Publisher
    <3> QED
      BY <2>2, <2>4, <3>3 DEF ClientOK
  <2>5. CASE ~taken
    BY <1>6, <2>2, <2>5, FailedType DEF PublisherPublishes, ClientOK
  <2> QED
    BY <2>3, <2>4, <2>5
<1>7. CASE PublisherLosesPatience
  BY <1>1, <1>7, FailedType DEF PublisherLosesPatience, PublisherGivesUp, GivesUp, ClientOK
<1>8. CASE SetupContinues /\ VaultSent(OwnDocuments)
  <2>1. /\ pub' \in Publisher /\ pub'.at = "own" /\ pub'.own = OwnDocuments
        /\ mq' = mq /\ wire' = wire
    BY <1>1, <1>3, <1>8 DEF VaultSent, Publisher
  <2> QED
    BY <1>1, <1>3, <2>1 DEF ClientOK
<1>9. CASE SubscribeToEverything
  <2>1. mq' = mq /\ wire' \in Wires /\ pub' = Onward(pub)
    BY <1>1, <1>9, Sequences DEF SubscribeToEverything
  <2> QED
    BY <1>1, <2>1, OnwardType DEF ClientOK
<1>10. CASE NotesOwn
  <2>1. mq' = mq /\ wire' = wire
    BY <1>10 DEF NotesOwn, OwnSent
  <2>2. \/ pub' \in Publisher /\ pub'.at = "subscribe"
        \/ pub' = Onward(pub)
    BY <1>1, <1>10 DEF NotesOwn, OwnSent, Publisher
  <2> QED
    BY <1>1, <2>1, <2>2, OnwardType DEF ClientOK
<1>11. CASE GivesSessionUp
  <2>1. pub' \in Publisher /\ pub'.at = "idle"
    BY <1>1, <1>11 DEF GivesSessionUp, DropConnection, Publisher
  <2>2. mq' \in Client /\ wire' \in Wires
    <3>1. CASE mq.connected
      BY <1>1, <1>11, <3>1, Sequences, Counts
         DEF GivesSessionUp, DropConnection, Disconnected, Client
    <3>2. CASE ~mq.connected
      BY <1>1, <1>11, <3>2 DEF GivesSessionUp, DropConnection
    <3> QED
      BY <3>1, <3>2
  <2> QED
    BY <2>1, <2>2 DEF ClientOK
<1> QED
  BY <1>4, <1>5, <1>6, <1>7, <1>8, <1>9, <1>10, <1>11
     DEF PublisherTask, PublisherSends, PublisherRefused, SetupContinues, Subscribes

-------------------------------------------------------------------------------
(* The broker.                                                                  *)

\* What a client published is retained under its topic.
LEMMA RetainType ==
    ASSUME BrokerOK, NEW m \in Outbound \cup Inbound, NEW from \in {"us", "them"},
           NEW missed \in BOOLEAN, Retain(m, from, missed)
    PROVE  BrokerOK'
<1>1. ASSUME NEW t \in {"status", "network", "clients", "peer", "peerClients"}, m.topic = t,
             NEW w, b' = w, w = [b EXCEPT ![t] = m.value, !.replay = @ \ {t}, !.missed = missed]
      PROVE  BrokerOK'
  <2>1. \/ t = "status" /\ m.value \in {"on", "off", None}
        \/ t = "network" /\ m.value \in {"beacon", "silent", None}
        \/ t = "clients" /\ m.value \in States
        \/ t = "peer" /\ m.value \in Statuses
        \/ t = "peerClients" /\ m.value \in Lists
    BY <1>1 DEF Outbound, Inbound, Document
  <2> QED
    BY <1>1, <2>1 DEF BrokerOK
<1>2. CASE m.topic = "device"
  <2>1. m.value \in {"on", "off"}
    BY <1>2 DEF Outbound, Inbound, Document
  <2> QED
    BY <1>2, <2>1 DEF Retain, BrokerOK
<1>3. m.topic \in {"status", "network", "clients", "peer", "peerClients", "device"}
  BY DEF Outbound, Inbound, Document
<1> QED
  BY <1>1, <1>2, <1>3 DEF Retain

LEMMA DeliverType ==
    ASSUME inbound \in Seq(Inbound), NEW m \in Inbound, Deliver(m)
    PROVE  inbound' \in Seq(Inbound)
BY DEF Deliver

\* The history and what is known of the other gateway are as before.
Unheard ==
    /\ g'.peer = g.peer /\ seen'.online = seen.online /\ seen'.gone = seen.gone
    /\ seen'.wills = seen.wills

\* What is noted of drops changes nothing else of the history.
LEMMA Noted ==
    ASSUME seen \in History, NEW x \in BOOLEAN, NEW y \in BOOLEAN,
           \/ seen' = [seen EXCEPT !.lost = x, !.behind = y]
           \/ seen' = [seen EXCEPT !.lost = x, !.behind = y, !.latest = TRUE]
    PROVE  /\ seen' \in History /\ seen'.online = seen.online /\ seen'.gone = seen.gone
           /\ seen'.wills = seen.wills /\ seen'.lost = x /\ seen'.behind = y
BY DEF History

LEMMA PublisherSteps ==
    ASSUME GatewayTypeOK, PublisherTask
    PROVE  GatewayOK' /\ BrokerOK' /\ AroundOK' /\ Unheard
<1>1. CASE TakesNext \/ PublisherRefused \/ PublisherLosesPatience
  <2>1. seen \in History
    BY DEF GatewayTypeOK, AroundOK
  <2>2. /\ seen' \in History /\ seen'.online = seen.online /\ seen'.gone = seen.gone
        /\ seen'.wills = seen.wills
    <3>1. CASE TakesNext
      <4> DEFINE remains == pub'.at # "vault" \/ Queued("device")
                 x == seen.lost /\ remains
                 y == seen.behind /\ remains
      <4>1. x \in BOOLEAN /\ y \in BOOLEAN /\ seen' = [seen EXCEPT !.lost = x, !.behind = y]
        BY <3>1 DEF TakesNext
      <4> HIDE DEF x, y
      <4> QED
        BY <2>1, <4>1, Noted
    <3>2. CASE Loses
      BY <2>1, <3>2 DEF Loses, History
    <3> QED
      BY <1>1, <3>1, <3>2 DEF PublisherRefused, PublisherLosesPatience
  <2>3. g' = g /\ UNCHANGED <<inbound, b, peer>>
    BY <1>1 DEF TakesNext, PublisherRefused, PublisherLosesPatience, Around
  <2> QED
    BY <2>2, <2>3 DEF GatewayTypeOK, GatewayOK, BrokerOK, AroundOK, Unheard
<1>2. CASE PublisherSends \/ PublisherWaits \/ SetupContinues
  BY <1>2 DEF GatewayTypeOK, GatewayOK, BrokerOK, AroundOK, Unheard, Quiet, PublisherSends, PublisherWaits, SetupContinues, Around
<1>5. CASE Subscribes
  <2> DEFINE h == seen.hasty \/ (mq.connected /\ ~pub.same)
  <2>1. h \in BOOLEAN /\ seen' = [seen EXCEPT !.hasty = h]
    BY <1>5 DEF Subscribes
  <2> HIDE DEF h
  <2>2. /\ seen' \in History /\ seen'.online = seen.online /\ seen'.gone = seen.gone
        /\ seen'.wills = seen.wills
    BY <2>1 DEF GatewayTypeOK, AroundOK, History
  <2>3. g' = g /\ UNCHANGED <<inbound, b, peer>>
    BY <1>5 DEF Subscribes, Around
  <2> QED
    BY <2>2, <2>3 DEF GatewayTypeOK, GatewayOK, BrokerOK, AroundOK, Unheard
<1>3. CASE NotesOwn
  <2>1. pub.own[2].value \in {"beacon", "silent"} /\ pub.own[3].value \in States
    BY <1>3 DEF NotesOwn, OwnSent, GatewayTypeOK, ClientOK, Own3, Outbound, Document
  <2>2. GatewayOK' /\ g'.peer = g.peer
    BY <1>3, <2>1 DEF NotesOwn, GatewayTypeOK, GatewayOK
  <2> QED
    BY <1>3, <2>2 DEF GatewayTypeOK, BrokerOK, AroundOK, Unheard, NotesOwn, Around
<1>4. CASE GivesSessionUp
  <2>1. BrokerOK'
    BY <1>4 DEF GivesSessionUp, Unsubscribed, GatewayTypeOK, BrokerOK
  <2> QED
    BY <1>4, <2>1 DEF GatewayTypeOK, GatewayOK, AroundOK, Unheard, GivesSessionUp, Quiet
<1> QED
  BY <1>1, <1>2, <1>3, <1>4, <1>5 DEF PublisherTask

-------------------------------------------------------------------------------
(* The gateway task.                                                            *)

\* What it does to the client.
LEMMA TaskClient ==
    ASSUME GatewayTypeOK, GatewayTask
    PROVE  ClientOK'
<1>1. mq \in Client /\ pub \in Publisher /\ wire \in Wires /\ ClientOK
  BY DEF GatewayTypeOK, ClientOK
<1>2. "gateway" \in Tasks
  BY DEF Tasks
<1>3. ASSUME mq' \in Client, wire' \in Wires, pub' = pub PROVE ClientOK'
  BY <1>1, <1>3 DEF ClientOK
<1>4. CASE UNCHANGED <<mq, pub, wire>>
  BY <1>1, <1>4 DEF ClientOK
<1>5. CASE StartMqtt \/ Halt
  BY <1>1, <1>3, <1>5, Sequences DEF StartMqtt, StartClient, Halt, StopClient, Client
<1>6. CASE StopClaims
  BY <1>1, <1>2, <1>3, <1>6, ClaimType DEF StopClaims
<1>7. ASSUME NEW taken \in BOOLEAN, StopPublishes(taken) PROVE ClientOK'
  <2>1. Message("status", "off") \in Outbound
    BY DEF Message, Outbound, Document
  <2> QED
    BY <1>1, <1>2, <1>3, <1>7, <2>1, PublishType DEF StopPublishes
<1>8. ASSUME NEW patient \in BOOLEAN, StopGivesUp(patient) PROVE ClientOK'
  BY <1>4, <1>8 DEF StopGivesUp, GivesUp
<1>9. ASSUME NEW m \in Outbound, Projects(m) PROVE ClientOK'
  BY <1>1, <1>3, <1>9, QueueType DEF Projects
<1>10. CASE ProjectClients \/ Reassert \/ ProjectNetwork
  <2>1. /\ Message("clients", g.listed) \in Outbound /\ Message("status", "on") \in Outbound
        /\ Message("network", Network) \in Outbound
    BY DEF GatewayTypeOK, GatewayOK, Message, Outbound, Document, Network
  <2> QED
    BY <1>9, <1>10, <2>1 DEF ProjectClients, Reassert, ProjectNetwork
<1>11. CASE StopRefused
  BY <1>7, <1>8, <1>11 DEF StopRefused
<1> QED
  BY <1>4, <1>5, <1>6, <1>7, <1>10, <1>11
     DEF GatewayTask, StartEspNow, StopServices, Discard, StartAgain, PauseOrResume, RefreshSnapshot,
         DrainInbound, OnMessage

\* What it does to the rest, but for a message that is heard.
LEMMA TaskSteps ==
    ASSUME GatewayTypeOK, GatewayTask, ~DrainInbound
    PROVE  GatewayOK' /\ BrokerOK' /\ AroundOK' /\ Unheard /\ g'.vault = g.vault
<1>1. GatewayOK /\ BrokerOK /\ AroundOK
  BY DEF GatewayTypeOK
<1>2. CASE StartEspNow \/ StartMqtt \/ StopClaims \/ StartAgain \/ RefreshSnapshot
  <2>1. GatewayOK' /\ g'.peer = g.peer /\ g'.vault = g.vault
    BY <1>1, <1>2 DEF GatewayOK, StartEspNow, StartMqtt, StopClaims, StartAgain, RefreshSnapshot
  <2>2. UNCHANGED <<inbound, seen, b, peer>>
    BY <1>2 DEF StartEspNow, StartMqtt, StopClaims, StartAgain, RefreshSnapshot, Outside
  <2> QED
    BY <1>1, <2>1, <2>2 DEF BrokerOK, AroundOK, Unheard
<1>3. CASE StopServices \/ PauseOrResume
  <2>1. GatewayOK' /\ g'.peer = g.peer /\ g'.vault = g.vault
    <3>1. CASE StopServices
      BY <1>1, <3>1 DEF GatewayOK, StopServices, Silent, States
    <3>2. CASE PauseOrResume
      <4>1. \/ g' = [Silent(g) EXCEPT !.paused = TRUE]
            \/ g' = [g EXCEPT !.espnow = TRUE, !.paused = FALSE]
            \/ g' = [g EXCEPT !.pause = TRUE]
        BY <3>2 DEF PauseOrResume
      <4> QED
        BY <1>1, <4>1 DEF GatewayOK, Silent, States
    <3> QED
      BY <1>3, <3>1, <3>2
  <2> QED
    BY <1>1, <1>3, <2>1 DEF BrokerOK, AroundOK, Unheard, Outside, StopServices, PauseOrResume
<1>4. ASSUME NEW any \in BOOLEAN, StopPublishes(any) \/ StopGivesUp(any)
      PROVE  GatewayOK' /\ BrokerOK' /\ AroundOK' /\ Unheard /\ g'.vault = g.vault
  BY <1>1, <1>4 DEF GatewayOK, BrokerOK, AroundOK, Unheard, Outside, StopPublishes, StopGivesUp
<1>5. CASE Halt
  <2>1. BrokerOK'
    BY <1>1, <1>5 DEF Halt, Unsubscribed, BrokerOK
  <2> QED
    BY <1>1, <1>5, <2>1 DEF GatewayOK, AroundOK, Unheard, Halt
<1>6. CASE Discard
  BY <1>1, <1>6 DEF GatewayOK, BrokerOK, AroundOK, Unheard, Outside, Discard
<1>7. CASE ProjectClients \/ Reassert \/ ProjectNetwork
  <2>1. GatewayOK' /\ g'.peer = g.peer /\ g'.vault = g.vault
    <3>1. CASE ProjectClients
      BY <1>1, <3>1 DEF GatewayOK, ProjectClients
    <3>2. CASE Reassert
      BY <1>1, <3>2 DEF GatewayOK, Reassert
    <3>3. CASE ProjectNetwork
      BY <1>1, <3>3 DEF GatewayOK, ProjectNetwork, Network
    <3> QED
      BY <1>7, <3>1, <3>2, <3>3
  <2>2. UNCHANGED <<inbound, seen, b, peer>>
    BY <1>7 DEF ProjectClients, Reassert, ProjectNetwork, Projects, Outside
  <2> QED
    BY <1>1, <2>1, <2>2 DEF BrokerOK, AroundOK, Unheard
<1> QED
  BY <1>2, <1>3, <1>4, <1>5, <1>6, <1>7 DEF GatewayTask, StopRefused

-------------------------------------------------------------------------------
(* What is heard.                                                               *)

LEMMA RecoveryTypes ==
    ASSUME NEW e \in Known, NEW n \in Nat
    PROVE  /\ \A c \in States : Recovery!HeardClients(e, n, c) \in Known
           /\ \A online \in BOOLEAN : Recovery!HeardStatus(e, n, online) \in Known
<1>1. ASSUME NEW c \in States PROVE Recovery!HeardClients(e, n, c) \in Known
  BY DEF Recovery!HeardClients, Recovery!Apply, Known
<1>2. ASSUME NEW online \in BOOLEAN PROVE Recovery!HeardStatus(e, n, online) \in Known
  BY DEF Recovery!HeardStatus, Recovery!Apply, Known
<1> QED
  BY <1>1, <1>2

\* The four kinds of messages, and what is done with each.
LEMMA Kinds ==
    ASSUME NEW m \in Inbound, OnMessage(m)
    PROVE  \/ /\ m.topic = "device" /\ m.value \in {"on", "off"}
              /\ g' = [g EXCEPT !.vault = StatusFromBroker(@, m.value)] /\ UNCHANGED seen
           \/ Cleared /\ UNCHANGED seen
           \/ \E n \in Nat, c \in States :
                LET due == Recovery!DueByClients(g.peer, n)
                IN  /\ OtherGateway(Recovery!HeardClients(g.peer, n, c), due /\ c = "named")
                    /\ seen' = [seen EXCEPT !.wills = IF due THEN @ + 1 ELSE @]
           \/ \E n \in Nat, online \in BOOLEAN :
                LET due == Recovery!DueByStatus(g.peer, n, online)
                IN  /\ OtherGateway(Recovery!HeardStatus(g.peer, n, online),
                                    due /\ g.peer.clients = "named")
                    /\ seen' = IF online
                                THEN [seen EXCEPT !.online = n, !.gone = {}, !.wills = 0]
                                ELSE [seen EXCEPT !.gone = @ \cup {n},
                                                  !.wills = IF due THEN @ + 1 ELSE @]
<1>1. CASE m \in Document("device", {"on", "off"})
  <2>1. m.topic = "device" /\ m.value \in {"on", "off"}
    BY <1>1 DEF Document
  <2> QED
    BY <2>1 DEF OnMessage
<1>2. CASE m \in Document("peer", Statuses)
  <2>1. m.topic = "peer" /\ m.value[1] \in Nat /\ m.value[2] \in BOOLEAN
    BY <1>2 DEF Document, Statuses
  <2> QED
    BY <2>1 DEF OnMessage, Own
<1>3. CASE m \in Document("peerClients", Lists)
  <2>1. m.topic = "peerClients" /\ m.value[1] \in Nat /\ m.value[2] \in States
    BY <1>3 DEF Document, Lists
  <2> QED
    BY <2>1 DEF OnMessage, Own
<1>4. CASE m \in [topic : {"status", "network"}, value : {None}]
  BY <1>4 DEF OnMessage, Own
<1> QED
  BY <1>1, <1>2, <1>3, <1>4, Zenon DEF Inbound

LEMMA Taken ==
    ASSUME GatewayTypeOK, DrainInbound
    PROVE  /\ Head(inbound) \in Inbound /\ inbound' \in Seq(Inbound) /\ OnMessage(Head(inbound))
           /\ UNCHANGED <<mq, pub, wire, b, peer, events>>
<1>1. OnMessage(Head(inbound)) /\ inbound # <<>> /\ inbound' = Tail(inbound)
  BY DEF DrainInbound
<1>2. UNCHANGED <<mq, pub, wire, b, peer, events>>
  BY <1>1, Zenon DEF OnMessage
<1>3. inbound \in Seq(Inbound)
  BY DEF GatewayTypeOK, AroundOK
<1>4. Head(inbound) \in Inbound /\ inbound' \in Seq(Inbound)
  BY <1>1, <1>3
<1> QED
  BY <1>1, <1>2, <1>4

LEMMA StatusType ==
    ASSUME GatewayOK, NEW value \in {"on", "off"}, NEW v \in Entry \cup {None}
    PROVE  StatusFromBroker(v, value) \in Entry \cup {None}
BY DEF StatusFromBroker, Vault, Entry

LEMMA OtherType ==
    ASSUME GatewayOK, NEW entry \in Known, NEW wills \in BOOLEAN, OtherGateway(entry, wills)
    PROVE  /\ GatewayOK' /\ g'.peer = entry
           /\ wills /\ g.device # "named" => g'.vault = Vault("off", "remote")
<1> DEFINE v == IF wills THEN StatusFromBroker(g.vault, "off") ELSE g.vault
<1>1. v \in Entry \cup {None}
  BY StatusType DEF GatewayOK
<1>2. g' = [g EXCEPT !.peer = entry, !.vault = v]
  BY DEF OtherGateway
<1>3. wills /\ g.device # "named" => v = Vault("off", "remote")
  BY DEF StatusFromBroker, ConnectedHere
<1> HIDE DEF v
<1> QED
  BY <1>1, <1>2, <1>3 DEF GatewayOK

\* A message that is heard keeps the types and what is known to be true of the other
\* gateway; it makes wills due at most once and only those of a generation that is gone,
\* and these then take effect.
Recovers ==
    /\ g'.peer.snapshot \in seen'.gone
    /\ seen.online \in {None, g'.peer.snapshot}
    /\ g'.peer.clients = "named" /\ g.device # "named" => g'.vault = Vault("off", "remote")
Hears ==
    /\ GatewayOK' /\ AroundOK' /\ HeardOK'
    /\ seen'.wills > seen.wills => Recovers

LEMMA Heard ==
    ASSUME IInv, DrainInbound
    PROVE  Hears
<1>1. /\ GatewayTypeOK /\ GatewayOK /\ AroundOK /\ HeardOK
      /\ inbound' \in Seq(Inbound) /\ peer' = peer
      /\ g.peer \in Known /\ g.vault \in Entry \cup {None}
  BY Taken DEF IInv, GatewayTypeOK, GatewayOK
<1>2. seen \in History /\ (seen' \in History => AroundOK')
  BY <1>1 DEF AroundOK
<1>3. ASSUME NEW value \in {"on", "off"},
             g' = [g EXCEPT !.vault = StatusFromBroker(@, value)] \/ Cleared, UNCHANGED seen
      PROVE  Hears
  <2>1. StatusFromBroker(g.vault, value) \in Entry \cup {None}
    BY <1>1, StatusType
  <2>2. GatewayOK' /\ g'.peer = g.peer
    BY <1>1, <1>3, <2>1 DEF GatewayOK, Cleared
  <2> QED
    BY <1>1, <1>2, <1>3, <2>2 DEF Hears, HeardOK
<1>4. ASSUME NEW n \in Nat, NEW c \in States, NEW due, due = Recovery!DueByClients(g.peer, n),
             OtherGateway(Recovery!HeardClients(g.peer, n, c), due /\ c = "named"),
             seen' = [seen EXCEPT !.wills = IF due THEN @ + 1 ELSE @]
      PROVE  Hears
  <2> DEFINE e == Recovery!HeardClients(g.peer, n, c)
  <2>1. e \in Known
    BY <1>1, RecoveryTypes
  <2>2. due \in BOOLEAN
    BY <1>4 DEF Recovery!DueByClients
  <2>3. /\ GatewayOK' /\ g'.peer = e
        /\ due /\ c = "named" /\ g.device # "named" => g'.vault = Vault("off", "remote")
    BY <1>1, <1>4, <2>1, <2>2, OtherType
  <2>4. CASE due
    <3>1. /\ g.peer.offline = n /\ g.peer.generation \in {None, n} /\ ~g.peer.applied
          /\ e.offline = n /\ e.generation = n /\ e.snapshot = n /\ e.applied /\ e.clients = c
      BY <1>1, <1>4, <2>4 DEF Recovery!DueByClients, Recovery!KnownAs, Recovery!HeardClients,
                             Recovery!Apply, Known
    <3>2. /\ seen' \in History /\ seen'.wills = seen.wills + 1
          /\ seen'.online = seen.online /\ seen'.gone = seen.gone
      BY <1>2, <1>4, <2>4 DEF History
    <3>3. n # None
      BY GatewayAssumption
    <3> HIDE DEF e
    <3> QED
      BY <1>1, <1>2, <2>3, <2>4, <3>1, <3>2, <3>3 DEF Hears, HeardOK, Recovers
  <2>5. CASE ~due
    <3>1. e.offline = g.peer.offline /\ e.generation = g.peer.generation /\ e.applied = g.peer.applied
      BY <1>1, <1>4, <2>5 DEF Recovery!HeardClients, Known
    <3>2. seen' = seen
      BY <1>2, <1>4, <2>5 DEF History
    <3> HIDE DEF e
    <3> QED
      BY <1>1, <1>2, <2>3, <3>1, <3>2 DEF Hears, HeardOK
  <2> QED
    BY <2>2, <2>4, <2>5
<1>5. CASE \E n \in Nat, online \in BOOLEAN :
             /\ OtherGateway(Recovery!HeardStatus(g.peer, n, online),
                             Recovery!DueByStatus(g.peer, n, online) /\ g.peer.clients = "named")
             /\ seen' = IF online
                         THEN [seen EXCEPT !.online = n, !.gone = {}, !.wills = 0]
                         ELSE [seen EXCEPT !.gone = @ \cup {n},
                                 !.wills = IF Recovery!DueByStatus(g.peer, n, online) THEN @ + 1 ELSE @]
  <2> PICK n \in Nat, online \in BOOLEAN :
             /\ OtherGateway(Recovery!HeardStatus(g.peer, n, online),
                             Recovery!DueByStatus(g.peer, n, online) /\ g.peer.clients = "named")
             /\ seen' = IF online
                         THEN [seen EXCEPT !.online = n, !.gone = {}, !.wills = 0]
                         ELSE [seen EXCEPT !.gone = @ \cup {n},
                                 !.wills = IF Recovery!DueByStatus(g.peer, n, online) THEN @ + 1 ELSE @]
    BY <1>5
  <2> DEFINE due == Recovery!DueByStatus(g.peer, n, online)
  <2> DEFINE e == Recovery!HeardStatus(g.peer, n, online)
  <2>1. e \in Known
    BY <1>1, RecoveryTypes
  <2>2. due \in BOOLEAN
    BY <1>5 DEF Recovery!DueByStatus
  <2>3. /\ GatewayOK' /\ g'.peer = e
        /\ due /\ g.peer.clients = "named" /\ g.device # "named" => g'.vault = Vault("off", "remote")
    BY <1>1, <1>5, <2>1, <2>2, OtherType
  <2>4. n # None
    BY GatewayAssumption
  <2>5. CASE online
    <3>1. e.generation = n /\ e.offline = None /\ ~e.applied
      BY <1>1, <2>5 DEF Recovery!HeardStatus, Known
    <3>2. seen' \in History /\ seen'.online = n /\ seen'.wills = 0
      BY <1>2, <1>5, <2>5 DEF History
    <3> HIDE DEF e
    <3> QED
      BY <1>2, <2>3, <3>1, <3>2 DEF Hears, HeardOK, History
  <2>6. CASE ~online /\ due
    <3>1. /\ g.peer.generation \in {None, n} /\ g.peer.snapshot = n /\ ~g.peer.applied
          /\ e.offline = n /\ e.generation = n /\ e.snapshot = n /\ e.applied
          /\ e.clients = g.peer.clients
      BY <1>1, <1>5, <2>6 DEF Recovery!DueByStatus, Recovery!KnownAs, Recovery!HeardStatus,
                             Recovery!Apply, Known
    <3>2. /\ seen' \in History /\ seen'.wills = seen.wills + 1
          /\ seen'.online = seen.online /\ seen'.gone = seen.gone \cup {n}
      <4> DEFINE gone == seen.gone \cup {n}
                 wills == seen.wills + 1
      <4>1. gone \in SUBSET Nat /\ wills \in Nat
        BY <1>2 DEF History
      <4>2. seen' = [seen EXCEPT !.gone = gone, !.wills = wills]
        BY <1>5, <2>6
      <4> HIDE DEF gone, wills
      <4>3. seen' \in History /\ seen'.gone = gone /\ seen'.wills = wills /\ seen'.online = seen.online
        BY <1>2, <4>1, <4>2 DEF History
      <4> QED
        BY <4>3 DEF gone, wills
    <3> HIDE DEF e
    <3> QED
      BY <1>1, <1>2, <2>3, <2>4, <2>6, <3>1, <3>2 DEF Hears, HeardOK, Recovers
  <2>7. CASE ~online /\ ~due
    <3>1. /\ e.applied = g.peer.applied
          /\ \/ e = g.peer
             \/ e.generation = n /\ e.offline = n /\ g.peer.generation \in {None, n}
      BY <1>1, <1>5, <2>7 DEF Recovery!DueByStatus, Recovery!KnownAs, Recovery!HeardStatus, Known
    <3>2. /\ seen' \in History /\ seen'.wills = seen.wills
          /\ seen'.online = seen.online /\ seen'.gone = seen.gone \cup {n}
      BY <1>2, <1>5, <2>7 DEF History
    <3> HIDE DEF e
    <3> QED
      BY <1>1, <1>2, <2>3, <2>4, <3>1, <3>2 DEF Hears, HeardOK
  <2> QED
    BY <2>2, <2>5, <2>6, <2>7
<1>6. OnMessage(Head(inbound)) /\ Head(inbound) \in Inbound
  BY <1>1, Taken
<1>7. "on" \in {"on", "off"}
  OBVIOUS
<1> DEFINE m == Head(inbound)
<1> HIDE DEF m
<1>8. CASE m.topic = "device" /\ m.value \in {"on", "off"}
           /\ g' = [g EXCEPT !.vault = StatusFromBroker(@, m.value)] /\ UNCHANGED seen
  BY <1>3, <1>8
<1>9. CASE Cleared /\ UNCHANGED seen
  BY <1>3, <1>7, <1>9
<1>10. CASE \E n \in Nat, c \in States :
              /\ OtherGateway(Recovery!HeardClients(g.peer, n, c),
                              Recovery!DueByClients(g.peer, n) /\ c = "named")
              /\ seen' = [seen EXCEPT !.wills = IF Recovery!DueByClients(g.peer, n) THEN @ + 1 ELSE @]
  <2>1. PICK n \in Nat, c \in States :
              /\ OtherGateway(Recovery!HeardClients(g.peer, n, c),
                              Recovery!DueByClients(g.peer, n) /\ c = "named")
              /\ seen' = [seen EXCEPT !.wills = IF Recovery!DueByClients(g.peer, n) THEN @ + 1 ELSE @]
    BY <1>10
  <2> QED
    BY <1>4, <2>1
<1> QED
  BY <1>5, <1>6, <1>8, <1>9, <1>10, Kinds, Zenon DEF m

-------------------------------------------------------------------------------
(* The gateway's surroundings.                                                   *)

LEMMA PublishesTypes ==
    ASSUME GatewayTypeOK, NEW m \in Inbound, Publishes(m),
           peer' \in [generation : Nat, up : BOOLEAN, listed : States, owes : BOOLEAN,
                      late : Nat \cup {None}]
    PROVE  GatewayTypeOK' /\ Unheard /\ g' = g
<1>1. UNCHANGED <<mq, pub, wire, g>>
  BY DEF Publishes
<1>2. BrokerOK'
  <2>1. Missed(m) \in BOOLEAN /\ BrokerOK
    BY DEF Missed, GatewayTypeOK, BrokerOK
  <2> QED
    BY <2>1, RetainType DEF Publishes
<1>4. /\ seen' \in History /\ seen'.online = seen.online /\ seen'.gone = seen.gone
      /\ seen'.wills = seen.wills
  <2> DEFINE x == seen.latest /\ m.topic # "device"
  <2>1. x \in BOOLEAN /\ seen' = [seen EXCEPT !.latest = x]
    BY DEF Publishes
  <2> HIDE DEF x
  <2> QED
    BY <2>1 DEF GatewayTypeOK, AroundOK, History
<1>3. inbound' \in Seq(Inbound)
  BY DeliverType DEF Publishes, GatewayTypeOK, AroundOK
<1> QED
  BY <1>1, <1>2, <1>3, <1>4 DEF GatewayTypeOK, ClientOK, GatewayOK, AroundOK, Unheard

LEMMA BrokerSteps ==
    ASSUME GatewayTypeOK,
           \/ BrokerTakes \/ (\E t \in b.replay : Replay(t))
           \/ Connects \/ ConnectionLost \/ Expires
    PROVE  GatewayTypeOK' /\ Unheard /\ g' = g
<1>1. GatewayOK /\ ClientOK /\ BrokerOK /\ AroundOK
  BY DEF GatewayTypeOK
<1>2. CASE BrokerTakes
  <2>1. wire # <<>> /\ ClientOK'
    BY <1>1, <1>2, EventTypes DEF BrokerTakes, Acknowledged
  <2>2. BrokerOK'
    <3>1. CASE Head(wire) = All
      <4> DEFINE again == {t \in Peers : b[t] # None} \cup {t \in {"device"} : b.by = "them"}
      <4>1. again \in SUBSET {"device", "peer", "peerClients"}
        BY DEF Peers
      <4>2. "peer" \in again => b.peer \in Statuses
        BY <1>1 DEF BrokerOK
      <4>3. "peerClients" \in again => b.peerClients \in Lists
        BY <1>1 DEF BrokerOK
      <4>4. b' = [b EXCEPT !.subscribed = TRUE, !.missed = FALSE, !.replay = again]
        BY <1>2, <3>1 DEF BrokerTakes, Subscribed
      <4> HIDE DEF again
      <4> QED
        BY <1>1, <4>1, <4>2, <4>3, <4>4 DEF BrokerOK
    <3>2. CASE Head(wire) # All
      <4>1. Head(wire) \in Outbound
        BY <1>1, <2>1, <3>2, Sequences DEF ClientOK
      <4> QED
        BY <1>1, <1>2, <3>2, <4>1, RetainType DEF BrokerTakes, BrokerOK
    <3> QED
      BY <3>1, <3>2
  <2> QED
    BY <1>1, <1>2, <2>1, <2>2
       DEF BrokerTakes, Quiet, GatewayTypeOK, GatewayOK, AroundOK, Unheard
<1>3. ASSUME NEW t \in b.replay, Replay(t) PROVE GatewayTypeOK' /\ Unheard /\ g' = g
  <2>1. t \in {"device", "peer", "peerClients"}
    BY <1>1 DEF BrokerOK
  <2>2. Message(t, b[t]) \in Inbound
    <3>1. \/ t = "device" /\ b[t] \in {"on", "off"}
          \/ t = "peer" /\ b[t] \in Statuses
          \/ t = "peerClients" /\ b[t] \in Lists
      <4>1. CASE t = "device"
        <5>1. b.device \in {"on", "off"}
          BY <1>1 DEF BrokerOK
        <5>2. b[t] = b.device
          BY <4>1
        <5> QED
          BY <4>1, <5>1, <5>2, Zenon
      <4>2. CASE t = "peer"
        BY <1>1, <1>3, <4>2 DEF BrokerOK
      <4>3. CASE t = "peerClients"
        BY <1>1, <1>3, <4>3 DEF BrokerOK
      <4> QED
        BY <2>1, <4>1, <4>2, <4>3
    <3> QED
      BY <3>1 DEF Message, Inbound, Document
  <2>3. BrokerOK'
    <3> DEFINE x == Missed(Message(t, b[t]))
    <3>1. x \in BOOLEAN
      BY <1>1 DEF Missed, BrokerOK
    <3>2. b' = [b EXCEPT !.replay = @ \ {t}, !.missed = x]
      BY <1>3 DEF Replay
    <3> HIDE DEF x
    <3> QED
      BY <1>1, <3>1, <3>2 DEF BrokerOK
  <2>4. inbound' \in Seq(Inbound)
    BY <1>1, <1>3, <2>2, DeliverType DEF Replay, AroundOK
  <2>5. UNCHANGED <<mq, pub, wire, peer, g, seen>>
    BY <1>3 DEF Replay, Quiet
  <2> QED
    BY <1>1, <2>3, <2>4, <2>5 DEF GatewayTypeOK, ClientOK, GatewayOK, AroundOK, Unheard
<1>4. CASE Connects
  BY <1>1, <1>4, EventTypes
     DEF Connects, Quiet, GatewayTypeOK, GatewayOK, BrokerOK, AroundOK, Unheard
<1>5. CASE ConnectionLost
  <2>1. BrokerOK'
    BY <1>1, <1>5 DEF ConnectionLost, Unsubscribed, BrokerOK
  <2>2. ClientOK'
    BY <1>1, <1>5, EventTypes DEF ConnectionLost
  <2> QED
    BY <1>1, <1>5, <2>1, <2>2 DEF ConnectionLost, GatewayTypeOK, GatewayOK, AroundOK, Unheard
<1>6. CASE Expires
  <2>1. ClientOK'
    BY <1>1, <1>6, EventTypes DEF Expires
  <2> DEFINE lost == seen.lost \/ Head(wire).topic = "device"
  <2>2. lost \in BOOLEAN
    OBVIOUS
  <2>3. seen' = [seen EXCEPT !.lost = lost] /\ UNCHANGED <<pub, g, inbound, b, peer>>
    BY <1>6 DEF Expires
  <2> HIDE DEF lost
  <2>4. /\ seen' \in History
        /\ Unheard
    BY <1>1, <2>2, <2>3 DEF AroundOK, History, Unheard
  <2> QED
    BY <1>1, <2>1, <2>3, <2>4 DEF GatewayTypeOK, GatewayOK, BrokerOK, AroundOK
<1> QED
  BY <1>2, <1>3, <1>4, <1>5, <1>6

LEMMA OtherSteps ==
    ASSUME GatewayTypeOK,
           \/ \E t \in {"status", "network"} : SomeoneClears(t)
           \/ \E value \in {"on", "off"} : SomeoneSays(value)
           \/ PeerConnects \/ PeerLists \/ PeerDevice \/ PeerLost \/ PeerReboots \/ LateWill
    PROVE  GatewayTypeOK' /\ Unheard /\ g' = g
<1> DEFINE Peer == [generation : Nat, up : BOOLEAN, listed : States, owes : BOOLEAN,
                    late : Nat \cup {None}]
<1>1. peer \in Peer
  BY DEF GatewayTypeOK, AroundOK
<1>2. /\ \A t \in {"status", "network"} : Message(t, None) \in Inbound
      /\ \A value \in {"on", "off"} : Message("device", value) \in Inbound
      /\ \A n \in Nat : /\ \A up \in BOOLEAN : Message("peer", <<n, up>>) \in Inbound
                        /\ \A c \in States : Message("peerClients", <<n, c>>) \in Inbound
  BY DEF Message, Inbound, Document, Statuses, Lists
<1>3. ASSUME NEW t \in {"status", "network"}, SomeoneClears(t) PROVE GatewayTypeOK' /\ Unheard /\ g' = g
  BY <1>1, <1>2, <1>3, PublishesTypes DEF SomeoneClears
<1>4. ASSUME NEW value \in {"on", "off"}, SomeoneSays(value) PROVE GatewayTypeOK' /\ Unheard /\ g' = g
  BY <1>1, <1>2, <1>4, PublishesTypes DEF SomeoneSays
<1>5. CASE PeerReboots
  <2>1. peer' \in Peer
    BY <1>1, <1>5 DEF PeerReboots, Generation, States
  <2>2. UNCHANGED <<mq, pub, wire, g, seen, inbound, b>>
    BY <1>5 DEF PeerReboots, Unmoved
  <2> HIDE DEF Peer
  <2>3. ClientOK' /\ GatewayOK' /\ BrokerOK'
    BY <2>2 DEF GatewayTypeOK, ClientOK, GatewayOK, BrokerOK
  <2>4. AroundOK'
    BY <2>1, <2>2 DEF Peer, GatewayTypeOK, AroundOK
  <2> QED
    BY <2>2, <2>3, <2>4 DEF GatewayTypeOK, Unheard
<1>6. ASSUME NEW m \in Inbound, NEW p \in Peer, PeerSays(m, p) PROVE GatewayTypeOK' /\ Unheard /\ g' = g
  BY <1>6, PublishesTypes DEF PeerSays
<1>7. peer.generation \in Nat /\ peer.listed \in States /\ "named" \in States /\ "gone" \in States
  BY <1>1 DEF States
<1>8. CASE PeerConnects \/ PeerLost
  <2>1. /\ [peer EXCEPT !.up = TRUE, !.owes = TRUE] \in Peer
        /\ [peer EXCEPT !.up = FALSE, !.owes = FALSE] \in Peer
    BY <1>1
  <2> HIDE DEF Peer
  <2> QED
    BY <1>2, <1>6, <1>7, <1>8, <2>1 DEF PeerConnects, PeerLost, Generation
<1>9. CASE PeerLists \/ LateWill
  <2>1. /\ [peer EXCEPT !.owes = FALSE] \in Peer /\ [peer EXCEPT !.late = None] \in Peer
        /\ peer.late \in Nat \cup {None}
    BY <1>1
  <2> HIDE DEF Peer
  <2> QED
    BY <1>2, <1>6, <1>7, <1>9, <2>1 DEF PeerLists, LateWill, Generation
<1>10. CASE PeerDevice
  <2>1. /\ [peer EXCEPT !.listed = "named", !.owes = TRUE] \in Peer
        /\ [peer EXCEPT !.listed = "gone", !.owes = TRUE] \in Peer
    BY <1>1, <1>7
  <2> HIDE DEF Peer
  <2> QED
    BY <1>2, <1>6, <1>10, <2>1 DEF PeerDevice
<1> QED
  BY <1>3, <1>4, <1>5, <1>8, <1>9, <1>10

\* What its device and its commands do to the gateway.
LEMMA DeviceSteps ==
    ASSUME GatewayTypeOK,
           \/ \E on \in BOOLEAN : Enable(on) \/ Pause(on)
           \/ MinutePasses \/ Device
    PROVE  GatewayTypeOK' /\ Unheard /\ inbound' = inbound
<1>1. GatewayOK /\ ClientOK /\ BrokerOK /\ AroundOK
  BY DEF GatewayTypeOK
<1>2. ASSUME GatewayOK', ClientOK', UNCHANGED <<inbound, b, peer>>, g'.peer = g.peer,
             \/ seen' = seen
             \/ \E x, y \in BOOLEAN : seen' = [seen EXCEPT !.lost = x, !.behind = y, !.latest = TRUE]
      PROVE  GatewayTypeOK' /\ Unheard /\ inbound' = inbound
  <2>1. seen \in History
    BY <1>1 DEF AroundOK
  <2>2. /\ seen' \in History /\ seen'.online = seen.online /\ seen'.gone = seen.gone
        /\ seen'.wills = seen.wills
    BY <1>2, <2>1, Noted
  <2>3. BrokerOK'
    BY <1>1, <1>2 DEF BrokerOK
  <2>4. AroundOK'
    BY <1>1, <1>2, <2>2 DEF AroundOK
  <2> QED
    BY <1>2, <2>2, <2>3, <2>4 DEF GatewayTypeOK, Unheard
<1>3. UNCHANGED <<mq, pub, wire>> => ClientOK'
  BY <1>1 DEF ClientOK
<1>4. CASE \E on \in BOOLEAN : Enable(on) \/ Pause(on)
  BY <1>1, <1>2, <1>3, <1>4 DEF Enable, Pause, Commanded, GatewayOK
<1>5. CASE MinutePasses
  BY <1>1, <1>2, <1>3, <1>5 DEF MinutePasses, GatewayOK
<1>6. ASSUME NEW from, NEW to \in States, Session(from, to)
      PROVE  GatewayTypeOK' /\ Unheard /\ inbound' = inbound
  BY <1>1, <1>2, <1>3, <1>6 DEF Session, GatewayOK
<1>7. ASSUME NEW value \in {"on", "off"}, NEW device \in States, FromDevice(value, device)
      PROVE  GatewayTypeOK' /\ Unheard /\ inbound' = inbound
  <2>1. Vault(value, "local") \in Entry \cup {None}
    BY DEF Vault, Entry
  <2>2. GatewayOK' /\ g'.peer = g.peer
    BY <1>1, <1>7, <2>1 DEF FromDevice, GatewayOK
  <2>3. Message("device", value) \in Outbound
    BY DEF Message, Outbound, Document
  <2>4. ClientOK'
    BY <1>1, <1>7, <2>3, QueueType DEF FromDevice, SendRemote, ClientOK
  <2> DEFINE x == seen.lost \/ (mq.connected /\ ~HasRoom)
             y == seen.behind \/ (~mq.connected /\ Queued("device"))
  <2>5. x \in BOOLEAN /\ y \in BOOLEAN /\ seen' = [seen EXCEPT !.lost = x, !.behind = y, !.latest = TRUE]
    BY <1>7 DEF FromDevice, SendRemote, Message
  <2> HIDE DEF x, y
  <2> QED
    BY <1>2, <1>7, <2>2, <2>4, <2>5 DEF FromDevice
<1>8. CASE Device
  <2>1. {"joined", "named", "paused", "gone"} \subseteq States
    BY DEF States
  <2> QED
    BY <1>6, <1>7, <1>8, <2>1 DEF Device
<1> QED
  BY <1>4, <1>5, <1>8

-------------------------------------------------------------------------------
(* The window: the slots that are counted are held by what is on the wire, and    *)
(* by what is about to be put there.                                             *)

Holding(w) == {i \in DOMAIN w : w[i] # All}
Slots(w) == Cardinality(Holding(w))

WindowOK == mq.connected => mq.inflight <= Slots(wire) + Cardinality(mq.claimed)

LEMMA Subscription == \A m \in Outbound : m # All
BY DEF Outbound, Document, All

LEMMA HoldingFinite ==
    ASSUME NEW w \in Wires
    PROVE  IsFiniteSet(Holding(w)) /\ Slots(w) \in Nat
<1>1. DOMAIN w = 1 .. Len(w) /\ Len(w) \in Nat
  BY DEF Wires
<1>2. IsFiniteSet(1 .. Len(w))
  BY <1>1, FS_Interval
<1>3. Holding(w) \in SUBSET (1 .. Len(w))
  BY <1>1 DEF Holding
<1>4. IsFiniteSet(Holding(w))
  BY <1>2, <1>3, FS_Subset
<1> QED
  BY <1>4, FS_CardinalityType DEF Slots

\* A publication that is put on the wire holds a slot, a subscription does not.
LEMMA SlotsAppend ==
    ASSUME NEW w \in Wires, NEW m \in Outbound \cup {All}
    PROVE  Slots(Append(w, m)) = Slots(w) + (IF m = All THEN 0 ELSE 1)
<1> DEFINE n == Len(w) + 1
           v == Append(w, m)
<1>1. /\ Len(w) \in Nat /\ DOMAIN w = 1 .. Len(w) /\ DOMAIN v = 1 .. n
      /\ v[n] = m /\ \A i \in 1 .. Len(w) : v[i] = w[i]
  BY DEF Wires
<1>2. \A i : i \in DOMAIN v <=> i \in DOMAIN w \/ i = n
  BY <1>1
<1>3. n \notin DOMAIN w
  BY <1>1
<1> HIDE DEF n, v
<1>4. Holding(v) = IF m = All THEN Holding(w) ELSE Holding(w) \cup {n}
  BY <1>1, <1>2, <1>3 DEF Holding
<1>5. n \notin Holding(w)
  BY <1>3 DEF Holding
<1>6. Cardinality(Holding(w) \cup {n}) = Cardinality(Holding(w)) + 1
  <2>1. IsFiniteSet(Holding(w))
    BY HoldingFinite
  <2> HIDE DEF n
  <2> QED
    BY <1>5, <2>1, FS_AddElement
<1>7. Slots(v) = Slots(w) + (IF m = All THEN 0 ELSE 1)
  <2>1. CASE m = All
    BY <1>4, <2>1, HoldingFinite DEF Slots
  <2>2. CASE m # All
    BY <1>4, <1>6, <2>2 DEF Slots
  <2> QED
    BY <2>1, <2>2
<1> QED
  BY <1>7 DEF v

\* The oldest goes: its slot with it, if it held one.
LEMMA SlotsTail ==
    ASSUME NEW w \in Wires, w # <<>>
    PROVE  Slots(w) = Slots(Tail(w)) + (IF Head(w) = All THEN 0 ELSE 1)
<1> DEFINE t == Tail(w)
           S == Holding(t)
           T == {i \in DOMAIN w : i # 1 /\ w[i] # All}
           f == [i \in S |-> i + 1]
<1>1. /\ Len(w) \in Nat \ {0} /\ DOMAIN w = 1 .. Len(w) /\ t \in Wires
      /\ Len(t) = Len(w) - 1 /\ DOMAIN t = 1 .. Len(w) - 1 /\ Head(w) = w[1]
      /\ \A i \in 1 .. Len(w) - 1 : t[i] = w[i + 1]
  BY Sequences DEF Wires
<1>2. f \in [S -> T]
  <2>1. \A i \in S : i + 1 \in T
    BY <1>1 DEF Holding
  <2> QED
    BY <2>1
<1>3. \A x, y \in S : f[x] = f[y] => x = y
  BY <1>1 DEF Holding
<1>4. \A i \in T : \E x \in S : f[x] = i
  <2> SUFFICES ASSUME NEW i \in T PROVE i - 1 \in S /\ f[i - 1] = i
    OBVIOUS
  <2>1. i - 1 \in 1 .. Len(w) - 1 /\ i - 1 + 1 = i
    BY <1>1
  <2>2. t[i - 1] = w[i]
    BY <1>1, <2>1
  <2> QED
    BY <1>1, <2>1, <2>2 DEF Holding
<1> HIDE DEF f
<1>5. Cardinality(T) = Cardinality(S) /\ IsFiniteSet(S) /\ IsFiniteSet(T)
  <2>1. f \in Bijection(S, T)
    BY <1>2, <1>3, <1>4, Fun_IsBij
  <2>2. ExistsBijection(S, T)
    BY <2>1 DEF ExistsBijection
  <2>3. IsFiniteSet(S)
    BY <1>1, HoldingFinite
  <2> QED
    BY <2>2, <2>3, FS_Bijection
<1>6. Holding(w) = IF Head(w) = All THEN T ELSE T \cup {1}
  BY <1>1 DEF Holding
<1>7. 1 \notin T
  OBVIOUS
<1> HIDE DEF S, T
<1>8. Cardinality(S) \in Nat
  BY <1>5, FS_CardinalityType
<1>9. Cardinality(T \cup {1}) = Cardinality(T) + 1
  BY <1>5, <1>7, FS_AddElement
<1>10. Slots(w) = Cardinality(S) + (IF Head(w) = All THEN 0 ELSE 1)
  <2>1. CASE Head(w) = All
    BY <1>5, <1>6, <1>8, <2>1 DEF Slots
  <2>2. CASE Head(w) # All
    BY <1>5, <1>6, <1>9, <2>2 DEF Slots
  <2> QED
    BY <2>1, <2>2
<1> QED
  BY <1>10 DEF Slots, S, t

LEMMA ClaimsCount ==
    ASSUME NEW c \in Claims, NEW task \in Tasks
    PROVE  /\ IsFiniteSet(c) /\ Cardinality(c) \in Nat
           /\ task \notin c => Cardinality(c \cup {task}) = Cardinality(c) + 1
           /\ task \in c => Cardinality(c \ {task}) = Cardinality(c) - 1
<1>1. IsFiniteSet(Tasks)
  <2>1. Tasks = {"publisher"} \cup {"gateway"}
    BY DEF Tasks
  <2> QED
    BY <2>1, FS_Singleton, FS_AddElement
<1>2. IsFiniteSet(c)
  BY <1>1, FS_Subset DEF Claims
<1> QED
  BY <1>2, FS_AddElement, FS_RemoveElement, FS_CardinalityType

\* What changes nothing of it.
LEMMA WindowStays ==
    ASSUME WindowOK, wire' = wire, mq'.connected => mq.connected,
           mq'.inflight = mq.inflight, mq'.claimed = mq.claimed
    PROVE  WindowOK'
BY DEF WindowOK

LEMMA WindowClaim ==
    ASSUME WindowOK, mq \in Client, wire \in Wires, NEW task \in Tasks, Claim(task)
    PROVE  WindowOK'
<1> DEFINE n == Cardinality(mq.claimed)
<1>1. /\ mq'.connected = mq.connected /\ mq'.inflight = mq.inflight + 1
      /\ mq'.claimed = mq.claimed \cup {task} /\ task \notin mq.claimed /\ wire' = wire
  BY DEF Claim, Client
<1>2. mq.inflight \in Int /\ mq.claimed \in Claims
  BY DEF Client, Count
<1>3. Cardinality(mq'.claimed) = n + 1 /\ n \in Nat
  BY <1>1, <1>2, ClaimsCount
<1>4. Slots(wire) \in Nat
  BY HoldingFinite
<1> HIDE DEF n
<1>5. mq.connected => mq.inflight <= Slots(wire) + n
  BY DEF WindowOK, n
<1> QED
  BY <1>1, <1>2, <1>3, <1>4, <1>5 DEF WindowOK

LEMMA WindowPublish ==
    ASSUME WindowOK, mq \in Client, wire \in Wires, NEW task \in Tasks, NEW m \in Outbound,
           NEW taken \in BOOLEAN, Publish(task, m, taken)
    PROVE  WindowOK'
<1> DEFINE n == Cardinality(mq.claimed)
<1>1. /\ mq'.connected = mq.connected
      /\ mq'.inflight = IF taken THEN mq.inflight ELSE mq.inflight - 1
      /\ mq'.claimed = mq.claimed \ {task} /\ task \in mq.claimed
      /\ wire' = IF taken /\ mq.connected THEN Append(wire, m) ELSE wire
  BY DEF Publish, Client
<1>2. mq.inflight \in Int /\ mq.claimed \in Claims
  BY DEF Client, Count
<1>3. Cardinality(mq'.claimed) = n - 1 /\ n \in Nat
  BY <1>1, <1>2, ClaimsCount
<1>4. Slots(wire) \in Nat /\ Slots(Append(wire, m)) = Slots(wire) + 1
  BY HoldingFinite, SlotsAppend, Subscription
<1> HIDE DEF n
<1>5. mq.connected => mq.inflight <= Slots(wire) + n
  BY DEF WindowOK, n
<1>6. mq.connected => Slots(wire') = IF taken THEN Slots(wire) + 1 ELSE Slots(wire)
  BY <1>1, <1>4
<1> QED
  BY <1>1, <1>2, <1>3, <1>4, <1>5, <1>6 DEF WindowOK

\* The oldest is acknowledged, or given up.
LEMMA WindowTaken ==
    ASSUME WindowOK, mq \in Client, wire \in Wires, Acknowledged \/ Deleted
    PROVE  WindowOK'
<1> DEFINE n == Cardinality(mq.claimed)
<1>1. /\ mq'.connected = mq.connected /\ mq'.claimed = mq.claimed
      /\ mq'.inflight = IF Head(wire) = All THEN mq.inflight ELSE Freed
      /\ wire # <<>> /\ wire' = Tail(wire)
  BY DEF Acknowledged, Deleted, SlotReturns, Client
<1>2. mq.inflight \in Int /\ n \in Nat /\ Tail(wire) \in Wires
  BY <1>1, ClaimsCount, Sequences DEF Client, Count, Tasks
<1>3. /\ Slots(wire) = Slots(Tail(wire)) + (IF Head(wire) = All THEN 0 ELSE 1)
      /\ Slots(Tail(wire)) \in Nat
  BY <1>1, <1>2, SlotsTail, HoldingFinite
<1> HIDE DEF n
<1>4. mq.connected => mq.inflight <= Slots(wire) + n
  BY DEF WindowOK, n
<1>5. mq'.connected => mq'.inflight <= Slots(wire') + n
  BY <1>1, <1>2, <1>3, <1>4 DEF Freed
<1> QED
  BY <1>1, <1>5 DEF WindowOK, n

\* The count begins anew with a connection, and is of no interest without one.
LEMMA WindowAnew ==
    ASSUME mq \in Client, Connected \/ Disconnected \/ StopClient
    PROVE  WindowOK'
<1>1. CASE Disconnected \/ StopClient
  BY <1>1 DEF Disconnected, StopClient, WindowOK, Client
<1>2. CASE Connected
  <2>1. mq'.inflight = 0 /\ mq'.claimed = mq.claimed /\ wire' = <<>>
    BY <1>2 DEF Connected, Client
  <2>2. Slots(<<>>) \in Nat /\ Cardinality(mq.claimed) \in Nat
    BY HoldingFinite, Sequences, ClaimsCount DEF Client, Tasks
  <2>3. 0 <= Slots(<<>>) + Cardinality(mq.claimed)
    BY <2>2
  <2> QED
    BY <2>1, <2>3 DEF WindowOK
<1> QED
  BY <1>1, <1>2

LEMMA WindowSubscribes ==
    ASSUME WindowOK, wire \in Wires, SubscribeToEverything
    PROVE  WindowOK'
<1>1. mq' = mq /\ (wire' = wire \/ wire' = Append(wire, All))
  BY DEF SubscribeToEverything
<1>2. Slots(Append(wire, All)) = Slots(wire)
  BY SlotsAppend, HoldingFinite
<1> QED
  BY <1>1, <1>2 DEF WindowOK

-------------------------------------------------------------------------------
(* The way to the broker: the queue, the message in hand, what the setup of a     *)
(* session has to publish, and the wire.                                         *)

Speaks(m) == m # None /\ m.topic = "device"
Mute(s) == \A i \in DOMAIN s : ~Speaks(s[i])
Ends(s, v) == \E i \in DOMAIN s : /\ s[i] = Message("device", v)
                                  /\ \A j \in DOMAIN s : j > i => ~Speaks(s[j])

\* The vault will be published anew.
Again == ~mq.connected \/ mq.pending \/ pub.at = "disconnect"

\* The last that is said of the device, if anything still is, is v; and if nothing is,
\* the broker retains v, or what someone else said.
FromWire(v) == Ends(wire, v) \/ (Mute(wire) /\ (b.by = "them" \/ b.device = v))
FromSetup(v) == Ends(pub.todo, v) \/ (Mute(pub.todo) /\ FromWire(v))
FromHand(v) == pub.hand = Message("device", v) \/ (~Speaks(pub.hand) /\ FromSetup(v))
FromQueue(v) == Ends(mq.queue, v) \/ (Mute(mq.queue) /\ (Again \/ FromHand(v)))

SetupOK ==
    /\ pub.at = "idle" => pub.hand = None
    /\ pub.at \notin {"vault", "own"} => pub.todo = <<>>
    /\ pub.at = "own" => Mute(pub.todo)
    /\ pub.at \in {"vault", "own"} /\ ~pub.same => mq.pending

Local == OwnedHere(g.vault)
VaultOK == seen.lost \/ seen.behind \/ (Local => FromQueue(g.vault.value))

\* What is on the wire, and the subscription, are those of a connection.
LinkOK == b.subscribed \/ wire # <<>> => mq.connected

PublicationOK == SetupOK /\ VaultOK /\ WindowOK /\ LinkOK

LEMMA EmptyIsMute == Mute(<<>>)
BY DEF Mute

LEMMA MuteAppend ==
    ASSUME NEW S, NEW s \in Seq(S), NEW m, Mute(s), ~Speaks(m)
    PROVE  Mute(Append(s, m))
BY DEF Mute

LEMMA EndsAppend ==
    ASSUME NEW S, NEW s \in Seq(S), NEW m, NEW v, ~Speaks(m), Ends(s, v)
    PROVE  Ends(Append(s, m), v)
<1>1. PICK i \in DOMAIN s : s[i] = Message("device", v) /\ \A j \in DOMAIN s : j > i => ~Speaks(s[j])
  BY DEF Ends
<1> DEFINE t == Append(s, m)
<1>2. /\ Len(s) \in Nat /\ DOMAIN s = 1 .. Len(s) /\ DOMAIN t = 1 .. Len(s) + 1
      /\ \A k \in 1 .. Len(s) : t[k] = s[k]
      /\ t[Len(s) + 1] = m
  OBVIOUS
<1> HIDE DEF t
<1>3. i \in DOMAIN t /\ t[i] = Message("device", v)
  BY <1>1, <1>2
<1>4. ASSUME NEW j \in DOMAIN t, j > i PROVE ~Speaks(t[j])
  <2>1. CASE j = Len(s) + 1
    BY <1>2, <2>1, Zenon
  <2>2. CASE j # Len(s) + 1
    <3>1. j \in 1 .. Len(s)
      BY <1>2, <1>4, <2>2
    <3> QED
      BY <1>1, <1>2, <1>4, <3>1
  <2> QED
    BY <2>1, <2>2
<1>5. Ends(t, v)
  BY <1>3, <1>4, Zenon DEF Ends
<1> QED
  BY <1>5 DEF t

LEMMA AppendEnds ==
    ASSUME NEW S, NEW s \in Seq(S), NEW v
    PROVE  Ends(Append(s, Message("device", v)), v)
<1> DEFINE m == Message("device", v)
           t == Append(s, m)
<1>1. /\ Len(s) + 1 \in DOMAIN t /\ t[Len(s) + 1] = m
      /\ \A j \in DOMAIN t : ~(j > Len(s) + 1)
  OBVIOUS
<1> HIDE DEF t
<1>2. Ends(t, v)
  BY <1>1 DEF Ends
<1> QED
  BY <1>2 DEF t

LEMMA TailFacts ==
    ASSUME NEW S, NEW s \in Seq(S), s # <<>>
    PROVE  /\ 1 \in DOMAIN s /\ Head(s) = s[1]
           /\ \A j \in DOMAIN Tail(s) : j + 1 \in DOMAIN s /\ j \in Nat /\ Tail(s)[j] = s[j + 1]
           /\ \A i \in DOMAIN s : i \in Nat /\ (i # 1 => i - 1 \in DOMAIN Tail(s) /\ Tail(s)[i - 1] = s[i])
OBVIOUS

LEMMA MuteTail ==
    ASSUME NEW S, NEW s \in Seq(S), s # <<>>, Mute(s)
    PROVE  ~Speaks(Head(s)) /\ Mute(Tail(s))
BY TailFacts DEF Mute

LEMMA EndsTail ==
    ASSUME NEW S, NEW s \in Seq(S), s # <<>>, NEW v, Ends(s, v)
    PROVE  Ends(Tail(s), v) \/ (Head(s) = Message("device", v) /\ Mute(Tail(s)))
<1>1. PICK i \in DOMAIN s : s[i] = Message("device", v) /\ \A j \in DOMAIN s : j > i => ~Speaks(s[j])
  BY DEF Ends
<1> DEFINE t == Tail(s)
<1>2. /\ 1 \in DOMAIN s /\ Head(s) = s[1]
      /\ \A j \in DOMAIN t : j + 1 \in DOMAIN s /\ j \in Nat /\ t[j] = s[j + 1]
      /\ \A k \in DOMAIN s : k \in Nat /\ (k # 1 => k - 1 \in DOMAIN t /\ t[k - 1] = s[k])
  BY TailFacts
<1> HIDE DEF t
<1>3. \A j \in DOMAIN t : j + 1 > i => ~Speaks(t[j])
  BY <1>1, <1>2
<1>4. CASE i = 1
  <2>1. \A j \in DOMAIN t : j \in Nat /\ j > 0
    <3> TAKE j \in DOMAIN t
    <3>1. DOMAIN t = 1 .. Len(t)
      BY DEF t
    <3> QED
      BY <3>1
  <2>2. \A j \in DOMAIN t : j + 1 > i
    BY <1>4, <2>1
  <2>3. Mute(t)
    BY <1>3, <2>2 DEF Mute
  <2> QED
    BY <1>1, <1>2, <1>4, <2>3 DEF t
<1>5. CASE i # 1
  <2>1. i - 1 \in DOMAIN t /\ t[i - 1] = Message("device", v)
    BY <1>1, <1>2, <1>5
  <2>2. ASSUME NEW j \in DOMAIN t, j > i - 1 PROVE ~Speaks(t[j])
    BY <1>1, <1>2, <1>3, <2>2
  <2>3. Ends(t, v)
    BY <2>1, <2>2, Zenon DEF Ends
  <2> QED
    BY <2>3 DEF t
<1> QED
  BY <1>4, <1>5

\* What is published of the device, of the gateway, and not at all.
LEMMA Words ==
    /\ ~Speaks(None) /\ ~Speaks(All)
    /\ \A v \in {"on", "off"} : Message("device", v) # None /\ Speaks(Message("device", v))
    /\ \A t \in {"status", "network", "clients"} : \A v : ~Speaks(Message(t, v))
BY GatewayAssumption DEF Speaks, All, Message

LEMMA OwnIsMute == Mute(OwnDocuments)
BY DEF OwnDocuments, Mute, Speaks, Message

LEMMA VaultEnds ==
    ASSUME Local
    PROVE  Ends(VaultDocuments, g.vault.value)
<1> DEFINE m == Message("device", g.vault.value)
<1>1. VaultDocuments = <<m>> /\ DOMAIN <<m>> = {1} /\ <<m>>[1] = m
  BY DEF VaultDocuments, Local
<1> HIDE DEF m
<1>2. m = Message("device", g.vault.value)
  BY DEF m
<1>3. \A j \in {1} : ~(j > 1)
  OBVIOUS
<1> QED
  BY <1>1, <1>2, <1>3, Zenon DEF Ends

LEMMA QueuedOrMute == Queued("device") \/ Mute(mq.queue)
BY DEF Queued, Mute, Speaks

-------------------------------------------------------------------------------
(* What a step does to what is under way.                                        *)

\* What is on the way stays there, and the same is said of the vault.
LEMMA VaultCarries ==
    ASSUME GatewayOK, VaultOK, \A v \in {"on", "off"} : FromQueue(v) => FromQueue(v)',
           g'.vault = g.vault \/ ~Local', seen.lost => seen'.lost, seen.behind => seen'.behind
    PROVE  VaultOK'
<1>1. CASE Local /\ g'.vault = g.vault
  <2>1. PICK v \in {"on", "off"} : v = g.vault.value
    BY <1>1 DEF GatewayOK, Local, OwnedHere, Entry
  <2>2. g'.vault.value = v
    BY <1>1, <2>1
  <2>3. FromQueue(v)' => FromQueue(g.vault.value)'
    BY <2>2 DEF FromQueue, FromHand, FromSetup, FromWire, Ends
  <2>4. FromQueue(g.vault.value) => FromQueue(v)
    BY <2>1
  <2>5. FromQueue(v) => FromQueue(v)'
    OBVIOUS
  <2> QED
    BY <1>1, <2>3, <2>4, <2>5 DEF VaultOK
<1>2. CASE ~Local'
  BY <1>2 DEF VaultOK
<1>3. Local' /\ g'.vault = g.vault => Local
  BY DEF Local
<1> QED
  BY <1>1, <1>2, <1>3

\* Only the wire, or what the broker retains, changes.
SameWay == mq'.queue = mq.queue /\ mq'.connected = mq.connected /\ mq'.pending = mq.pending /\ pub' = pub

LEMMA WireCarries ==
    ASSUME SameWay, NEW v, FromWire(v) => FromWire(v)', FromQueue(v)
    PROVE  FromQueue(v)'
<1>1. Ends(mq.queue, v)' = Ends(mq.queue, v) /\ Mute(mq.queue)' = Mute(mq.queue)
  BY DEF SameWay, Ends, Mute
<1>2. Again' = Again
  BY DEF SameWay, Again
<1>3. FromHand(v) => FromHand(v)'
  BY DEF SameWay, FromHand, FromSetup, Ends, Mute
<1> QED
  BY <1>1, <1>2, <1>3 DEF FromQueue

LEMMA SetupSame == SetupOK /\ SameWay => SetupOK'
BY DEF SetupOK, SameWay, Mute

\* Neither changes, unless someone else writes the topic.
Unspoken ==
    SameWay /\ wire' = wire /\ (b'.by = "them" \/ (b'.by = b.by /\ b'.device = b.device))

LEMMA UnspokenCarries ==
    ASSUME Unspoken, NEW v, FromQueue(v)
    PROVE  FromQueue(v)'
<1>1. FromWire(v) => FromWire(v)'
  BY DEF Unspoken, FromWire, Ends, Mute
<1> QED
  BY <1>1, WireCarries DEF Unspoken

\* The broker has the oldest.
LEMMA TakenCarries ==
    ASSUME ClientOK, BrokerOK, BrokerTakes, NEW v \in {"on", "off"}, FromQueue(v)
    PROVE  FromQueue(v)' /\ SameWay
<1>1. mq \in Client /\ wire \in Wires /\ wire # <<>> /\ wire' = Tail(wire) /\ pub' = pub
  BY DEF ClientOK, BrokerTakes, Acknowledged
<1>2. SameWay
  BY <1>1 DEF BrokerTakes, Acknowledged, SameWay, Client
<1>3. ASSUME ~Speaks(Head(wire)) PROVE b'.by = b.by /\ b'.device = b.device
  <2>1. CASE Head(wire) = All
    BY <2>1 DEF BrokerTakes, Subscribed, BrokerOK
  <2>2. CASE Head(wire) # All
    <3>1. Head(wire) \in Outbound
      BY <1>1, <2>2, Sequences
    <3>2. CASE Head(wire) # None
      <4> DEFINE m == Head(wire)
      <4>1. Retain(m, "us", b.missed) /\ m.topic # "device" /\ m.topic \in {"status", "network", "clients", "device"}
        BY <1>3, <2>2, <3>1, <3>2 DEF BrokerTakes, Speaks, Outbound, Document
      <4>2. b' = [b EXCEPT ![m.topic] = m.value, !.replay = @ \ {m.topic}, !.missed = b.missed]
        BY <4>1 DEF Retain
      <4> HIDE DEF m
      <4> QED
        BY <4>1, <4>2 DEF BrokerOK
    <3>3. CASE Head(wire) = None
      <4>1. None.topic # "device" \/ None \in [topic : {"device"}, value : {"on", "off"}]
        BY <3>1, <3>3 DEF Outbound, Document
      <4> DEFINE m == Head(wire)
      <4>2. Retain(m, "us", b.missed) /\ m.topic # "device" /\ m.topic \in {"status", "network", "clients", "device"}
        BY <2>2, <3>1, <3>3, <4>1, GatewayAssumption DEF BrokerTakes, Outbound, Document
      <4>3. b' = [b EXCEPT ![m.topic] = m.value, !.replay = @ \ {m.topic}, !.missed = b.missed]
        BY <4>2 DEF Retain
      <4> HIDE DEF m
      <4> QED
        BY <4>2, <4>3 DEF BrokerOK
    <3> QED
      BY <3>2, <3>3
  <2> QED
    BY <2>1, <2>2
<1>4. FromWire(v) => FromWire(v)'
  <2>1. CASE Mute(wire)
    <3>1. ~Speaks(Head(wire)) /\ Mute(Tail(wire))
      BY <1>1, <2>1, MuteTail DEF Wires
    <3>2. Mute(wire)'
      BY <1>1, <3>1 DEF Mute
    <3>3. ~Ends(wire, v)
      BY <2>1, Words DEF Ends, Mute
    <3> QED
      BY <1>3, <3>1, <3>2, <3>3 DEF FromWire
  <2>2. CASE Ends(wire, v)
    <3>1. CASE Ends(Tail(wire), v)
      BY <1>1, <3>1 DEF FromWire, Ends
    <3>2. CASE Head(wire) = Message("device", v) /\ Mute(Tail(wire))
      <4>1. Head(wire) # All /\ Head(wire).topic = "device" /\ Head(wire).value = v
        BY <3>2 DEF Message, All
      <4>2. b' = [b EXCEPT !.device = v, !.by = "us", !.replay = @ \ {"device"}]
        BY <4>1 DEF BrokerTakes, Retain
      <4>3. b'.device = v
        BY <4>2 DEF BrokerOK
      <4>4. Mute(wire)'
        BY <1>1, <3>2 DEF Mute
      <4> QED
        BY <4>3, <4>4 DEF FromWire
    <3> QED
      BY <1>1, <2>2, <3>1, <3>2, EndsTail DEF Wires
  <2> QED
    BY <2>1, <2>2 DEF FromWire
<1> QED
  BY <1>2, <1>4, WireCarries

\* One that the client gives up: what is lost is noted.
LEMMA ExpiryCarries ==
    ASSUME ClientOK, AroundOK, Expires, NEW v \in {"on", "off"}, FromQueue(v), ~seen'.lost
    PROVE  FromQueue(v)'
<1>1. mq \in Client /\ wire \in Wires /\ wire # <<>> /\ wire' = Tail(wire) /\ pub' = pub /\ b' = b
  BY DEF ClientOK, Expires, Deleted
<1>2. SameWay
  BY <1>1 DEF Expires, Deleted, SlotReturns, SameWay, Client
<1>3. Head(wire).topic # "device"
  BY DEF Expires, AroundOK, History
<1>4. FromWire(v) => FromWire(v)'
  <2>1. CASE Mute(wire)
    <3>1. Mute(wire)'
      BY <1>1, <2>1, MuteTail DEF Wires, Mute
    <3>2. ~Ends(wire, v)
      BY <2>1, Words DEF Ends, Mute
    <3> QED
      BY <1>1, <3>1, <3>2 DEF FromWire
  <2>2. CASE Ends(wire, v)
    <3>1. Head(wire) # Message("device", v)
      BY <1>3 DEF Message
    <3>2. Ends(Tail(wire), v)
      BY <1>1, <2>2, <3>1, EndsTail DEF Wires
    <3> QED
      BY <1>1, <3>2 DEF FromWire, Ends
  <2> QED
    BY <2>1, <2>2 DEF FromWire
<1> QED
  BY <1>2, <1>4, WireCarries

\* What is put on the wire, and is not of the device.
LEMMA AnotherCarries ==
    ASSUME wire \in Wires, SameWay, b' = b, NEW m, ~Speaks(m),
           wire' = wire \/ wire' = Append(wire, m), NEW v, FromQueue(v)
    PROVE  FromQueue(v)'
<1>1. CASE wire' = Append(wire, m)
  <2>1. Ends(wire, v) => Ends(Append(wire, m), v)
    BY EndsAppend DEF Wires
  <2>2. Mute(wire) => Mute(Append(wire, m))
    BY MuteAppend DEF Wires
  <2>3. FromWire(v) => FromWire(v)'
    BY <1>1, <2>1, <2>2 DEF FromWire, Ends, Mute
  <2> QED
    BY <2>3, WireCarries
<1>2. CASE wire' = wire
  BY <1>2, UnspokenCarries DEF Unspoken
<1> QED
  BY <1>1, <1>2

\* A message of the gateway is queued, or the marker.
LEMMA QueuedCarries ==
    ASSUME mq \in Client, NEW m, ~Speaks(m),
           mq'.queue = mq.queue \/ mq'.queue = Append(mq.queue, m), NEW v, FromQueue(v),
           \/ Again'
           \/ /\ mq'.connected = mq.connected /\ mq'.pending = mq.pending
              /\ pub' = pub /\ wire' = wire /\ b' = b
    PROVE  FromQueue(v)'
<1>1. mq.queue \in Queues
  BY DEF Client
<1>2. Ends(mq.queue, v) => Ends(mq.queue, v)'
  <2>1. Ends(mq.queue, v) => Ends(Append(mq.queue, m), v)
    BY <1>1, EndsAppend DEF Queues
  <2> QED
    BY <2>1 DEF Ends
<1>3. Mute(mq.queue) => Mute(mq.queue)'
  <2>1. Mute(mq.queue) => Mute(Append(mq.queue, m))
    BY <1>1, MuteAppend DEF Queues
  <2> QED
    BY <2>1 DEF Mute
<1>4. CASE Again'
  BY <1>2, <1>3, <1>4 DEF FromQueue
<1>5. CASE mq'.connected = mq.connected /\ mq'.pending = mq.pending /\ pub' = pub /\ wire' = wire /\ b' = b
  <2>1. Again' = Again
    BY <1>5 DEF Again
  <2>2. FromHand(v) => FromHand(v)'
    BY <1>5 DEF FromHand, FromSetup, FromWire, Ends, Mute
  <2> QED
    BY <1>2, <1>3, <2>1, <2>2 DEF FromQueue
<1> QED
  BY <1>4, <1>5

-------------------------------------------------------------------------------
(* What the publisher task does to it.                                           *)

\* The parts of the client that the way depends on, but for the queue.
LinkSame == mq'.connected = mq.connected /\ mq'.pending = mq.pending

\* Once the vault will be published anew, only the queue matters.
LEMMA AgainCarries ==
    ASSUME NEW v, FromQueue(v), mq'.queue = mq.queue, Again'
    PROVE  FromQueue(v)'
BY DEF FromQueue, Ends, Mute

\* The queue stays, and what is before it is said as well as it was.
LEMMA HandCarries ==
    ASSUME NEW v, FromQueue(v), mq'.queue = mq.queue, Again => Again', FromHand(v) => FromHand(v)'
    PROVE  FromQueue(v)'
BY DEF FromQueue, Ends, Mute

LEMMA TakeNextCarries ==
    ASSUME ClientOK, SetupOK, Local, TakeNext(VaultDocuments), b' = b,
           NEW v \in {"on", "off"}, v = g.vault.value, FromQueue(v)
    PROVE  FromQueue(v)'
<1> DEFINE q == mq.queue
           h == Head(mq.queue)
           m == Message("device", v)
<1>1. /\ q \in Queues /\ q # <<>> /\ pub.at = "idle" /\ pub.hand = None /\ pub.todo = <<>>
      /\ mq'.queue = Tail(q) /\ mq'.connected = mq.connected /\ wire' = wire
  BY DEF TakeNext, ClientOK, Client, SetupOK
<1>2. Ends(q, v) => Ends(Tail(q), v) \/ (h = m /\ Mute(Tail(q)))
  BY <1>1, EndsTail DEF Queues
<1>3. Mute(q) => ~Speaks(h) /\ Mute(Tail(q))
  BY <1>1, MuteTail DEF Queues
<1>4. Ends(Tail(q), v) => FromQueue(v)'
  BY <1>1 DEF FromQueue, Ends
<1>5. Mute(Tail(q)) /\ (Again' \/ FromHand(v)') => FromQueue(v)'
  BY <1>1 DEF FromQueue, Mute
<1>6. ASSUME h = m \/ ~Speaks(h), Mute(Tail(q)), ~Speaks(h) => Mute(q) /\ ~Ends(q, v)
      PROVE  Again' \/ FromHand(v)'
  <2>1. CASE SetupDue
    <3>1. pub'.hand = h /\ pub'.todo = VaultDocuments
      BY <2>1 DEF TakeNext, ClientOK, Publisher
    <3>2. Ends(VaultDocuments, v)
      BY VaultEnds
    <3>3. FromSetup(v)'
      BY <3>1, <3>2 DEF FromSetup, Ends
    <3> QED
      BY <1>6, <3>1, <3>3 DEF FromHand
  <2>2. CASE ~mq.connected
    BY <1>1, <2>2 DEF Again
  <2>3. CASE ~SetupDue /\ mq.connected
    <3>1. pub'.hand = h /\ pub'.todo = <<>>
      BY <2>3 DEF TakeNext, Onward, ClientOK, Publisher
    <3>2. CASE h = m
      BY <3>1, <3>2 DEF FromHand
    <3>3. CASE ~Speaks(h)
      <4>1. ~Again
        BY <1>1, <2>3 DEF Again, SetupDue
      <4>2. FromHand(v)
        BY <1>6, <3>3, <4>1 DEF FromQueue
      <4>3. FromSetup(v)
        BY <1>1, <4>2, Words DEF FromHand
      <4>4. FromWire(v)
        BY <1>1, <4>3 DEF FromSetup, Ends
      <4>5. FromWire(v)'
        BY <1>1, <4>4 DEF FromWire, Ends, Mute
      <4>6. FromSetup(v)'
        BY <3>1, <4>5, EmptyIsMute DEF FromSetup, Mute
      <4> QED
        BY <3>1, <3>3, <4>6 DEF FromHand
    <3> QED
      BY <1>6, <3>2, <3>3
  <2> QED
    BY <2>1, <2>2, <2>3
<1>7. Mute(q) => ~Ends(q, v)
  BY Words DEF Ends, Mute
<1>8. Speaks(m)
  BY Words
<1>9. Ends(q, v) \/ Mute(q)
  BY DEF FromQueue
<1> HIDE DEF h, m, q
<1> QED
  BY <1>2, <1>3, <1>4, <1>5, <1>6, <1>7, <1>8, <1>9, Zenon

\* A publication that is taken moves on to the wire.
LEMMA SendCarries ==
    ASSUME ClientOK, SetupOK, PublisherSends, NEW v \in {"on", "off"}, FromQueue(v)
    PROVE  FromQueue(v)'
<1>1. /\ mq \in Client /\ pub \in Publisher /\ wire \in Wires /\ b' = b
      /\ Publishing /\ Publish("publisher", Outgoing, TRUE)
  BY DEF ClientOK, PublisherSends, PublisherPublishes, Around
<1>2. /\ mq'.queue = mq.queue /\ LinkSame
      /\ wire' = IF mq.connected THEN Append(wire, Outgoing) ELSE wire
  BY <1>1 DEF Publish, Client, LinkSame
<1>3. CASE ~mq.connected
  BY <1>2, <1>3, AgainCarries DEF LinkSame, Again
<1>4. CASE mq.connected
  <2>1. Again => Again'
    BY <1>1, <1>2, <1>4 DEF LinkSame, Again, Publishing
  <2>2. ~Speaks(Outgoing) /\ FromWire(v) => FromWire(v)'
    <3>1. wire' = Append(wire, Outgoing)
      BY <1>2, <1>4
    <3>2. ~Speaks(Outgoing) /\ Ends(wire, v) => Ends(wire', v)
      BY <1>1, <3>1, EndsAppend DEF Wires
    <3>3. ~Speaks(Outgoing) /\ Mute(wire) => Mute(wire')
      BY <1>1, <3>1, MuteAppend DEF Wires
    <3> QED
      BY <1>1, <3>2, <3>3 DEF FromWire, Ends, Mute
  <2>3. Outgoing = Message("device", v) => FromWire(v)'
    <3>1. wire' = Append(wire, Outgoing)
      BY <1>2, <1>4
    <3>2. Outgoing = Message("device", v) => Ends(wire', v)
      BY <1>1, <3>1, AppendEnds DEF Wires
    <3> QED
      BY <3>2 DEF FromWire, Ends
  <2>4. CASE pub.at = "send"
    <3>1. Outgoing = pub.hand /\ pub.todo = <<>> /\ pub'.hand = None /\ pub'.todo = <<>>
      BY <1>1, <2>4 DEF Outgoing, PublisherSends, PublisherPublishes, SetupOK, Publisher
    <3>2. FromHand(v) => FromWire(v)'
      <4>1. FromSetup(v) => FromWire(v)
        BY <3>1 DEF FromSetup, Ends
      <4> QED
        BY <2>2, <2>3, <3>1, <4>1 DEF FromHand
    <3>3. FromWire(v)' => FromHand(v)'
      BY <3>1, EmptyIsMute, Words DEF FromHand, FromSetup, Mute
    <3> QED
      BY <1>2, <2>1, <3>2, <3>3, HandCarries
  <2>5. CASE pub.at # "send"
    <3>1. /\ Outgoing = Head(pub.todo) /\ pub.todo # <<>> /\ pub.todo \in Seq(Outbound)
          /\ pub'.hand = pub.hand /\ pub'.todo = Tail(pub.todo)
      BY <1>1, <2>5 DEF Outgoing, Publishing, PublisherSends, PublisherPublishes, Publisher
    <3>2. FromSetup(v) => FromSetup(v)'
      <4>1. CASE Ends(pub.todo, v)
        <5>1. Ends(Tail(pub.todo), v) \/ (Outgoing = Message("device", v) /\ Mute(Tail(pub.todo)))
          BY <3>1, <4>1, EndsTail
        <5> QED
          BY <2>3, <3>1, <5>1 DEF FromSetup, Ends, Mute
      <4>2. CASE Mute(pub.todo)
        <5>1. ~Speaks(Outgoing) /\ Mute(Tail(pub.todo))
          BY <3>1, <4>2, MuteTail
        <5>2. ~Ends(pub.todo, v)
          BY <4>2, Words DEF Ends, Mute
        <5> QED
          BY <2>2, <3>1, <5>1, <5>2 DEF FromSetup, Mute
      <4> QED
        BY <4>1, <4>2 DEF FromSetup
    <3>3. FromHand(v) => FromHand(v)'
      BY <3>1, <3>2 DEF FromHand
    <3> QED
      BY <1>2, <2>1, <3>3, HandCarries
  <2> QED
    BY <2>4, <2>5
<1> QED
  BY <1>3, <1>4

\* What becomes of it after a setup that is of no use any more.
LEMMA OnwardAgain ==
    ASSUME SetupOK, pub.at \in {"vault", "own"}, ~SameSession, LinkSame, pub' = Onward(pub)
    PROVE  Again'
BY DEF SetupOK, SameSession, LinkSame, Again

\* A publication that fails: what is lost is noted, or the session will be set up anew.
LEMMA FailureCarries ==
    ASSUME ClientOK, AroundOK, SetupOK, Publishing, Failed, Loses, LinkSame, mq'.queue = mq.queue,
           wire' = wire, b' = b, NEW v \in {"on", "off"}, FromQueue(v), ~seen'.lost
    PROVE  FromQueue(v)'
<1>1. CASE pub.at = "send"
  <2>1. pub.hand.topic # "device"
    BY <1>1 DEF Loses, AroundOK, History
  <2>2. pub.hand # Message("device", v)
    BY <2>1 DEF Message
  <2>3. pub'.hand = None /\ pub'.todo = pub.todo /\ pub'.at = "idle"
    BY <1>1 DEF Failed, ClientOK, Publisher
  <2>4. FromSetup(v) => FromSetup(v)'
    BY <2>3 DEF FromSetup, FromWire, Ends, Mute
  <2>5. FromHand(v) => FromHand(v)'
    BY <2>2, <2>3, <2>4, Words DEF FromHand
  <2>6. Again => Again'
    BY <1>1, <2>3 DEF Again, LinkSame
  <2> QED
    BY <2>5, <2>6, HandCarries
<1>2. CASE pub.at # "send" /\ SameSession
  <2>1. pub'.at = "disconnect"
    BY <1>2 DEF Failed, ClientOK, Publisher
  <2> QED
    BY <2>1, AgainCarries DEF Again
<1>3. CASE pub.at # "send" /\ ~SameSession
  BY <1>3, OnwardAgain, AgainCarries DEF Failed, Publishing
<1> QED
  BY <1>1, <1>2, <1>3

\* The setup goes on.
LEMMA SetupCarries ==
    ASSUME ClientOK, SetupOK, VaultSent(OwnDocuments) \/ OwnSent, b' = b, NEW v \in {"on", "off"}, FromQueue(v)
    PROVE  FromQueue(v)'
<1>1. mq' = mq /\ wire' = wire /\ pub \in Publisher /\ pub.todo = <<>>
  BY DEF VaultSent, OwnSent, ClientOK
<1>2. LinkSame
  BY <1>1 DEF LinkSame
<1>3. CASE OwnSent /\ ~SameSession
  BY <1>1, <1>2, <1>3, OnwardAgain, AgainCarries DEF OwnSent
<1>4. CASE VaultSent(OwnDocuments) \/ (OwnSent /\ SameSession)
  <2>1. pub'.hand = pub.hand /\ Mute(pub'.todo) /\ pub.at # "disconnect"
    BY <1>1, <1>4, OwnIsMute, EmptyIsMute DEF VaultSent, OwnSent, Publisher
  <2>2. FromWire(v) => FromWire(v)'
    BY <1>1 DEF FromWire, Ends, Mute
  <2>3. FromSetup(v) => FromWire(v)
    BY <1>1 DEF FromSetup, Ends
  <2>4. FromHand(v) => FromHand(v)'
    BY <2>1, <2>2, <2>3 DEF FromHand, FromSetup, Mute
  <2>5. Again => Again'
    BY <1>1, <2>1 DEF Again
  <2> QED
    BY <1>1, <2>4, <2>5, HandCarries
<1> QED
  BY <1>3, <1>4

LEMMA SubscribeCarries ==
    ASSUME ClientOK, SetupOK, SubscribeToEverything, b' = b, NEW v \in {"on", "off"}, FromQueue(v)
    PROVE  FromQueue(v)'
<1>1. mq' = mq /\ pub \in Publisher /\ wire \in Wires /\ pub.at = "subscribe" /\ pub.todo = <<>>
  BY DEF SubscribeToEverything, ClientOK, SetupOK
<1>2. CASE ~mq.connected
  BY <1>1, <1>2, AgainCarries DEF Again
<1>3. CASE mq.connected
  <2>1. pub'.hand = pub.hand /\ pub'.todo = <<>> /\ wire' = Append(wire, All)
    BY <1>1, <1>3 DEF SubscribeToEverything, Onward, Publisher
  <2>2. FromWire(v) => FromWire(v)'
    <3>1. Ends(wire, v) => Ends(wire', v)
      BY <1>1, <2>1, EndsAppend, Words DEF Wires
    <3>2. Mute(wire) => Mute(wire')
      BY <1>1, <2>1, MuteAppend, Words DEF Wires
    <3> QED
      BY <3>1, <3>2 DEF FromWire, Ends, Mute
  <2>3. FromSetup(v) => FromWire(v)
    BY <1>1 DEF FromSetup, Ends
  <2>4. FromHand(v) => FromHand(v)'
    BY <2>1, <2>2, <2>3, EmptyIsMute DEF FromHand, FromSetup, Mute
  <2>5. Again => Again'
    BY <1>1 DEF Again
  <2> QED
    BY <1>1, <2>4, <2>5, HandCarries
<1> QED
  BY <1>2, <1>3

-------------------------------------------------------------------------------
(* The steps of the other parts, which leave what is under way as it is.           *)

Elsewhere ==
    /\ mq' = mq /\ pub' = pub /\ wire' = wire
    /\ b'.by = "them" \/ (b'.by = b.by /\ b'.device = b.device)
    /\ b'.subscribed = b.subscribed
    /\ seen'.lost = seen.lost /\ seen'.behind = seen.behind
    /\ g'.vault = g.vault \/ ~Local'

LEMMA ElsewhereStays == GatewayOK /\ PublicationOK /\ Elsewhere => PublicationOK'
<1> SUFFICES ASSUME GatewayOK, PublicationOK, Elsewhere PROVE PublicationOK'
  OBVIOUS
<1>1. SameWay /\ Unspoken
  BY DEF Elsewhere, SameWay, Unspoken
<1>2. VaultOK'
  <2>1. \A v \in {"on", "off"} : FromQueue(v) => FromQueue(v)'
    BY <1>1, UnspokenCarries
  <2> QED
    BY <2>1, VaultCarries DEF Elsewhere, PublicationOK
<1>3. SetupOK'
  BY <1>1, SetupSame DEF PublicationOK
<1>4. WindowOK' /\ LinkOK'
  BY WindowStays DEF Elsewhere, PublicationOK, LinkOK
<1> QED
  BY <1>2, <1>3, <1>4 DEF PublicationOK

LEMMA TaskIsElsewhere ==
    ASSUME GatewayTypeOK,
           StartEspNow \/ StopServices \/ Discard \/ StartAgain \/ PauseOrResume \/ RefreshSnapshot
    PROVE  Elsewhere
<1>1. mq' = mq /\ pub' = pub /\ wire' = wire /\ b' = b /\ seen' = seen
  BY DEF StartEspNow, StopServices, Discard, StartAgain, PauseOrResume, RefreshSnapshot, Outside
<1>2. g'.vault = g.vault
  BY DEF StartEspNow, StopServices, Discard, StartAgain, PauseOrResume, RefreshSnapshot, Silent,
         GatewayTypeOK, GatewayOK
<1> QED
  BY <1>1, <1>2 DEF Elsewhere

\* What the broker says of a device is never what the gateway owes to the broker.
LEMMA HearingIsElsewhere ==
    ASSUME GatewayTypeOK, DrainInbound
    PROVE  Elsewhere
<1>1. mq' = mq /\ pub' = pub /\ wire' = wire /\ b' = b
  BY DEF DrainInbound, OnMessage
<1>2. seen'.lost = seen.lost /\ seen'.behind = seen.behind
  <2>1. seen \in History
    BY DEF GatewayTypeOK, AroundOK
  <2>2. OnMessage(Head(inbound)) /\ Head(inbound) \in Inbound
    BY Taken DEF DrainInbound
  <2> QED
    BY <2>1, <2>2, Kinds DEF History
<1>3. \A value : StatusFromBroker(g.vault, value) = g.vault \/ ~OwnedHere(StatusFromBroker(g.vault, value))
  BY DEF StatusFromBroker, OwnedHere, Vault
<1>4. g'.vault = g.vault \/ ~OwnedHere(g'.vault)
  <2>1. \A entry, wills : OtherGateway(entry, wills) => g'.vault = g.vault \/ ~OwnedHere(g'.vault)
    BY <1>3 DEF OtherGateway, GatewayTypeOK, GatewayOK
  <2>2. ASSUME NEW value, g' = [g EXCEPT !.vault = StatusFromBroker(@, value)]
        PROVE  g'.vault = g.vault \/ ~OwnedHere(g'.vault)
    <3>1. g'.vault = StatusFromBroker(g.vault, value)
      BY <2>2 DEF GatewayTypeOK, GatewayOK
    <3> QED
      BY <1>3, <3>1
  <2>3. Cleared => g'.vault = g.vault
    BY DEF Cleared, GatewayTypeOK, GatewayOK
  <2>4. OnMessage(Head(inbound)) /\ Head(inbound) \in Inbound
    BY Taken DEF DrainInbound
  <2> QED
    BY <2>1, <2>2, <2>3, <2>4, Kinds, Zenon
<1>5. g'.vault = g.vault \/ ~Local'
  BY <1>4 DEF Local
<1> QED
  BY <1>1, <1>2, <1>5 DEF Elsewhere

\* What someone else publishes.
LEMMA PublishedIsElsewhere ==
    ASSUME BrokerOK, AroundOK, NEW m,
           m.topic \in {"device", "status", "network", "peer", "peerClients"}, Publishes(m)
    PROVE  Elsewhere
<1>1. /\ mq' = mq /\ pub' = pub /\ wire' = wire /\ g' = g
      /\ seen'.lost = seen.lost /\ seen'.behind = seen.behind
  BY DEF Publishes, AroundOK, History
<1>2. CASE m.topic = "device"
  <2>1. b' = [b EXCEPT !.device = m.value, !.by = "them", !.replay = @ \ {"device"}]
    BY <1>2 DEF Publishes, Retain
  <2>2. b'.by = "them" /\ b'.subscribed = b.subscribed
    BY <2>1 DEF BrokerOK
  <2> QED
    BY <1>1, <2>2 DEF Elsewhere
<1>3. CASE m.topic # "device"
  <2>1. b' = [b EXCEPT ![m.topic] = m.value, !.replay = @ \ {m.topic}, !.missed = Missed(m)]
    BY <1>3 DEF Publishes, Retain
  <2>2. m.topic \in {"status", "network", "peer", "peerClients"}
    BY <1>3
  <2>3. b'.by = b.by /\ b'.device = b.device /\ b'.subscribed = b.subscribed
    BY <2>1, <2>2 DEF BrokerOK
  <2> QED
    BY <1>1, <2>3 DEF Elsewhere
<1> QED
  BY <1>2, <1>3

LEMMA OtherIsElsewhere ==
    ASSUME GatewayTypeOK,
           \/ \E t \in {"status", "network"} : SomeoneClears(t)
           \/ \E value \in {"on", "off"} : SomeoneSays(value)
           \/ PeerConnects \/ PeerLists \/ PeerDevice \/ PeerLost \/ PeerReboots \/ LateWill
    PROVE  Elsewhere
<1> DEFINE Said(m) == m.topic \in {"device", "status", "network", "peer", "peerClients"} /\ Publishes(m)
<1>1. (\E m : Said(m)) => Elsewhere
  BY PublishedIsElsewhere DEF GatewayTypeOK
<1>2. CASE \E t \in {"status", "network"} : SomeoneClears(t)
  <2>1. PICK t \in {"status", "network"} : SomeoneClears(t)
    BY <1>2
  <2>2. Message(t, None).topic = t /\ Publishes(Message(t, None))
    BY <2>1 DEF SomeoneClears, Message
  <2>3. Said(Message(t, None))
    BY <2>2
  <2> QED
    BY <1>1, <2>3
<1>3. CASE \E value \in {"on", "off"} : SomeoneSays(value)
  <2>1. PICK value \in {"on", "off"} : SomeoneSays(value)
    BY <1>3
  <2>2. Message("device", value).topic = "device" /\ Publishes(Message("device", value))
    BY <2>1 DEF SomeoneSays, Message
  <2>3. Said(Message("device", value))
    BY <2>2
  <2> QED
    BY <1>1, <2>3
<1>4. \A t, w, p : t \in {"device", "peer", "peerClients"} /\ PeerSays(Message(t, w), p) => Elsewhere
  <2> SUFFICES ASSUME NEW t \in {"device", "peer", "peerClients"}, NEW w, NEW p, PeerSays(Message(t, w), p)
      PROVE  Elsewhere
    OBVIOUS
  <2>1. Message(t, w).topic = t /\ Publishes(Message(t, w))
    BY DEF PeerSays, Message
  <2>2. Said(Message(t, w))
    BY <2>1
  <2> QED
    BY <1>1, <2>2
<1> HIDE DEF Said
<1>5. CASE PeerConnects \/ PeerLists \/ PeerDevice \/ PeerLost \/ LateWill
  BY <1>4, <1>5 DEF PeerConnects, PeerLists, PeerDevice, PeerLost, LateWill
<1>6. CASE PeerReboots
  BY <1>6 DEF PeerReboots, Unmoved, Elsewhere
<1> QED
  BY <1>2, <1>3, <1>5, <1>6

LEMMA CommandIsElsewhere ==
    ASSUME GatewayTypeOK,
           \/ \E t \in b.replay : Replay(t)
           \/ \E on \in BOOLEAN : Enable(on) \/ Pause(on)
           \/ MinutePasses
           \/ \E from, to : Session(from, to)
    PROVE  Elsewhere
<1>1. CASE \E t \in b.replay : Replay(t)
  <2>1. PICK t \in b.replay : Replay(t)
    BY <1>1
  <2>2. mq' = mq /\ pub' = pub /\ wire' = wire /\ g' = g /\ seen' = seen
    BY <2>1 DEF Replay, Quiet
  <2>3. b'.by = b.by /\ b'.device = b.device /\ b'.subscribed = b.subscribed
    BY <2>1 DEF Replay, GatewayTypeOK, BrokerOK
  <2> QED
    BY <2>2, <2>3 DEF Elsewhere
<1>2. CASE (\E on \in BOOLEAN : Enable(on) \/ Pause(on)) \/ MinutePasses \/ (\E from, to : Session(from, to))
  <2>1. mq' = mq /\ pub' = pub /\ wire' = wire /\ b' = b /\ seen' = seen
    BY <1>2 DEF Enable, Pause, MinutePasses, Session, Commanded
  <2>2. g'.vault = g.vault
    <3>1. CASE \E on \in BOOLEAN : Enable(on) \/ Pause(on)
      BY <3>1 DEF Enable, Pause, Commanded, GatewayTypeOK, GatewayOK
    <3>2. CASE MinutePasses \/ (\E from, to : Session(from, to))
      BY <3>2 DEF MinutePasses, Session, GatewayTypeOK, GatewayOK
    <3> QED
      BY <1>2, <3>1, <3>2
  <2> QED
    BY <2>1, <2>2 DEF Elsewhere
<1> QED
  BY <1>1, <1>2

-------------------------------------------------------------------------------
(* The steps of the client, the publisher task and those who use them.             *)

\* The connection, and what it may have on the wire, is what it was.
LEMMA LinkStays ==
    ASSUME LinkOK, mq'.connected = mq.connected,
           mq.connected \/ (wire' = wire /\ b'.subscribed = b.subscribed)
    PROVE  LinkOK'
BY DEF LinkOK

LEMMA SetupStays ==
    ASSUME SetupOK, pub' = pub, mq'.pending = mq.pending
    PROVE  SetupOK'
BY DEF SetupOK, Mute

\* The vault that the session publishes takes the place of what is not queued.
LEMMA VaultAnew ==
    ASSUME ClientOK, Local, TakeNext(VaultDocuments), pub'.at = "vault", Mute(mq.queue),
           NEW v, v = g.vault.value
    PROVE  FromQueue(v)'
<1>1. mq.queue \in Queues /\ mq.queue # <<>> /\ mq'.queue = Tail(mq.queue)
  BY DEF TakeNext, ClientOK, Client
<1>2. ~Speaks(Head(mq.queue)) /\ Mute(Tail(mq.queue))
  BY <1>1, MuteTail DEF Queues
<1>3. pub'.todo = VaultDocuments /\ pub'.hand = Head(mq.queue)
  BY DEF TakeNext, Onward, ClientOK, Publisher
<1>4. Ends(VaultDocuments, v)
  BY VaultEnds
<1>5. FromSetup(v)'
  BY <1>3, <1>4 DEF FromSetup, Ends
<1>6. FromHand(v)'
  BY <1>2, <1>3, <1>5 DEF FromHand
<1> QED
  BY <1>1, <1>2, <1>6 DEF FromQueue, Mute

LEMMA VaultIs ==
    ASSUME NEW v, Local' => g'.vault.value = v, FromQueue(v)'
    PROVE  VaultOK'
<1>1. CASE Local'
  <2>1. FromQueue(v)' => FromQueue(g.vault.value)'
    BY <1>1 DEF FromQueue, FromHand, FromSetup, FromWire, Ends
  <2> QED
    BY <2>1 DEF VaultOK
<1> QED
  BY <1>1 DEF VaultOK

LEMMA TakesNextVault ==
    ASSUME ClientOK, GatewayOK, AroundOK, SetupOK, VaultOK, TakesNext
    PROVE  VaultOK'
<1>1. TakeNext(VaultDocuments) /\ b' = b /\ g' = g
  BY DEF TakesNext, Around
<1>2. CASE ~Local
  BY <1>1, <1>2 DEF VaultOK, Local
<1>3. CASE Local
  <2>1. PICK v \in {"on", "off"} : v = g.vault.value
    BY <1>3 DEF GatewayOK, Local, OwnedHere, Entry
  <2>2. g'.vault.value = v
    BY <1>1, <2>1
  <2> DEFINE remains == pub'.at # "vault" \/ Queued("device")
  <2>3. CASE ~remains
    <3>1. pub'.at = "vault" /\ Mute(mq.queue)
      BY <2>3, QueuedOrMute
    <3>2. FromQueue(v)'
      BY <1>1, <1>3, <2>1, <3>1, VaultAnew
    <3> QED
      BY <2>2, <3>2, VaultIs
  <2>4. CASE remains
    <3>1. seen'.lost = seen.lost /\ seen'.behind = seen.behind
      BY <2>4 DEF TakesNext, AroundOK, History
    <3>2. FromQueue(g.vault.value) => FromQueue(v)
      BY <2>1
    <3>3. FromQueue(v) => FromQueue(v)'
      BY <1>1, <1>3, <2>1, TakeNextCarries
    <3>4. FromQueue(v)' => VaultOK'
      BY <2>2, VaultIs
    <3> HIDE DEF remains
    <3>5. seen.lost \/ seen.behind \/ FromQueue(g.vault.value)
      BY <1>3 DEF VaultOK
    <3> QED
      BY <3>1, <3>2, <3>3, <3>4, <3>5 DEF VaultOK
  <2> QED
    BY <2>3, <2>4
<1> QED
  BY <1>2, <1>3

\* What the publisher task leaves alone, and where its parts keep their places.
LEMMA PublisherSetup ==
    ASSUME ClientOK, SetupOK,
           \/ TakeNext(VaultDocuments) \/ PublisherPublishes(TRUE)
           \/ (Publishing /\ Failed /\ mq'.pending = mq.pending)
           \/ VaultSent(OwnDocuments) \/ OwnSent \/ SubscribeToEverything \/ DropConnection
    PROVE  SetupOK'
<1>1. pub \in Publisher /\ mq \in Client
  BY DEF ClientOK
<1>2. CASE TakeNext(VaultDocuments)
  BY <1>1, <1>2, EmptyIsMute DEF TakeNext, Onward, SetupOK, Publisher, Mute
<1>3. CASE PublisherPublishes(TRUE)
  <2>1. mq'.pending = mq.pending
    BY <1>1, <1>3 DEF PublisherPublishes, Publish, Client
  <2>2. CASE pub.at = "send"
    <3>1. pub'.at = "idle" /\ pub'.hand = None /\ pub'.todo = pub.todo
      BY <1>1, <1>3, <2>2 DEF PublisherPublishes, Publisher
    <3> QED
      BY <2>2, <3>1 DEF SetupOK
  <2>3. CASE pub.at # "send"
    <3>1. /\ pub'.todo = Tail(pub.todo) /\ pub'.at = pub.at /\ pub'.same = pub.same
          /\ pub.todo # <<>> /\ pub.at \in {"vault", "own"} /\ pub.todo \in Seq(Outbound)
      BY <1>1, <1>3, <2>3 DEF PublisherPublishes, Publishing, Publisher
    <3>2. Mute(pub.todo) => Mute(Tail(pub.todo))
      BY <3>1, MuteTail
    <3>3. Mute(pub.todo)' = Mute(Tail(pub.todo))
      BY <3>1 DEF Mute
    <3> QED
      BY <2>1, <3>1, <3>2, <3>3 DEF SetupOK
  <2> QED
    BY <2>2, <2>3
<1>4. CASE Publishing /\ Failed /\ mq'.pending = mq.pending
  BY <1>1, <1>4, EmptyIsMute DEF Failed, Publishing, Onward, SetupOK, Publisher, Mute
<1>5. CASE VaultSent(OwnDocuments)
  <2>1. pub'.at = "own" /\ pub'.todo = OwnDocuments /\ pub'.same = pub.same /\ mq' = mq /\ pub.at = "vault"
    BY <1>1, <1>5 DEF VaultSent, Publisher
  <2>2. Mute(pub.todo)'
    BY <2>1, OwnIsMute DEF Mute
  <2> QED
    BY <2>1, <2>2 DEF SetupOK
<1>6. CASE OwnSent
  BY <1>1, <1>6, EmptyIsMute DEF OwnSent, Onward, SetupOK, Publisher, Mute
<1>7. CASE SubscribeToEverything
  BY <1>1, <1>7, EmptyIsMute DEF SubscribeToEverything, Onward, SetupOK, Publisher, Mute
<1>8. CASE DropConnection
  <2>1. pub'.at = "idle" /\ pub'.hand = None /\ pub'.todo = pub.todo /\ pub.at = "disconnect"
    BY <1>1, <1>8 DEF DropConnection, Publisher
  <2> QED
    BY <2>1 DEF SetupOK
<1> QED
  BY <1>2, <1>3, <1>4, <1>5, <1>6, <1>7, <1>8

LEMMA SendsKeeps ==
    ASSUME GatewayTypeOK, PublicationOK, PublisherSends
    PROVE  PublicationOK'
<1>1. /\ mq \in Client /\ wire \in Wires /\ SetupOK /\ VaultOK /\ WindowOK /\ LinkOK
      /\ PublisherPublishes(TRUE) /\ Publishing /\ Publish("publisher", Outgoing, TRUE)
      /\ UNCHANGED <<g, seen, b>>
  BY DEF GatewayTypeOK, ClientOK, PublicationOK, PublisherSends, PublisherPublishes, Around, Quiet
<1>2. Outgoing \in Outbound
  BY <1>1, Sequences DEF Publishing, Outgoing, GatewayTypeOK, ClientOK, Publisher
<1>3. SetupOK'
  BY <1>1, PublisherSetup DEF GatewayTypeOK
<1>4. VaultOK'
  <2>1. \A v \in {"on", "off"} : FromQueue(v) => FromQueue(v)'
    BY <1>1, SendCarries DEF GatewayTypeOK
  <2> QED
    BY <1>1, <2>1, VaultCarries DEF GatewayTypeOK
<1>5. WindowOK'
  BY <1>1, <1>2, WindowPublish DEF Tasks
<1>6. LinkOK'
  <2>1. mq'.connected = mq.connected /\ (mq.connected \/ wire' = wire)
    BY <1>1 DEF Publish, Client
  <2> QED
    BY <1>1, <2>1, LinkStays
<1> QED
  BY <1>3, <1>4, <1>5, <1>6 DEF PublicationOK

LEMMA FailureKeeps ==
    ASSUME GatewayTypeOK, PublicationOK, PublisherRefused \/ PublisherLosesPatience
    PROVE  PublicationOK'
<1>1. /\ mq \in Client /\ wire \in Wires /\ SetupOK /\ VaultOK /\ WindowOK /\ LinkOK
      /\ Publishing /\ Failed /\ Loses /\ UNCHANGED <<g, b>>
      /\ \/ Publish("publisher", Outgoing, FALSE)
         \/ GivesUp("publisher", FALSE)
  BY DEF GatewayTypeOK, ClientOK, PublicationOK, PublisherRefused, PublisherLosesPatience, Around,
         PublisherPublishes, PublisherGivesUp
<1>2. LinkSame /\ mq'.queue = mq.queue /\ wire' = wire
  BY <1>1 DEF Publish, GivesUp, Client, LinkSame
<1>3. Outgoing \in Outbound
  BY <1>1, Sequences DEF Publishing, Outgoing, GatewayTypeOK, ClientOK, Publisher
<1>4. SetupOK'
  BY <1>1, <1>2, PublisherSetup DEF GatewayTypeOK, LinkSame
<1>5. VaultOK'
  <2>1. CASE seen'.lost
    BY <2>1 DEF VaultOK
  <2>2. CASE ~seen'.lost
    <3>1. \A v \in {"on", "off"} : FromQueue(v) => FromQueue(v)'
      BY <1>1, <1>2, <2>2, FailureCarries DEF GatewayTypeOK
    <3>2. (seen.lost => seen'.lost) /\ seen'.behind = seen.behind
      BY <1>1 DEF Loses, GatewayTypeOK, AroundOK, History
    <3> QED
      BY <1>1, <3>1, <3>2, VaultCarries DEF GatewayTypeOK
  <2> QED
    BY <2>1, <2>2
<1>6. WindowOK'
  <2>1. CASE Publish("publisher", Outgoing, FALSE)
    BY <1>1, <1>3, <2>1, WindowPublish DEF Tasks
  <2>2. CASE GivesUp("publisher", FALSE)
    BY <1>1, <2>2, WindowStays DEF GivesUp
  <2> QED
    BY <1>1, <2>1, <2>2
<1>7. LinkOK'
  BY <1>1, <1>2, LinkStays DEF LinkSame
<1> QED
  BY <1>4, <1>5, <1>6, <1>7 DEF PublicationOK

LEMMA SetupKeeps ==
    ASSUME GatewayTypeOK, PublicationOK,
           TakesNext \/ SetupContinues \/ Subscribes \/ NotesOwn
    PROVE  PublicationOK'
<1>1. /\ mq \in Client /\ wire \in Wires /\ SetupOK /\ VaultOK /\ WindowOK /\ LinkOK
      /\ b' = b /\ g'.vault = g.vault
      /\ \/ TakesNext
         \/ /\ seen'.lost = seen.lost /\ seen'.behind = seen.behind
            /\ VaultSent(OwnDocuments) \/ SubscribeToEverything \/ OwnSent
  <2>1. g'.vault = g.vault
    BY DEF TakesNext, SetupContinues, Subscribes, NotesOwn, Quiet, GatewayTypeOK, GatewayOK
  <2>2. Subscribes => seen'.lost = seen.lost /\ seen'.behind = seen.behind
    BY DEF Subscribes, GatewayTypeOK, AroundOK, History
  <2> QED
    BY <2>1, <2>2 DEF GatewayTypeOK, ClientOK, PublicationOK, TakesNext, SetupContinues, Subscribes,
       NotesOwn, Around, Quiet
<1>2. TakeNext(VaultDocuments) \/ VaultSent(OwnDocuments) \/ SubscribeToEverything \/ OwnSent
  BY <1>1 DEF TakesNext
<1>3. SetupOK'
  BY <1>1, <1>2, PublisherSetup DEF GatewayTypeOK
<1>4. VaultOK'
  <2>1. CASE TakesNext
    BY <1>1, <2>1, TakesNextVault DEF GatewayTypeOK
  <2>2. CASE /\ seen'.lost = seen.lost /\ seen'.behind = seen.behind
             /\ VaultSent(OwnDocuments) \/ SubscribeToEverything \/ OwnSent
    <3>1. \A v \in {"on", "off"} : FromQueue(v) => FromQueue(v)'
      BY <1>1, <2>2, SetupCarries, SubscribeCarries DEF GatewayTypeOK
    <3> QED
      BY <1>1, <2>2, <3>1, VaultCarries DEF GatewayTypeOK
  <2> QED
    BY <1>1, <2>1, <2>2
<1>5. /\ mq'.connected = mq.connected /\ mq'.inflight = mq.inflight /\ mq'.claimed = mq.claimed
      /\ wire' = wire \/ SubscribeToEverything
  BY <1>1, <1>2 DEF TakeNext, VaultSent, OwnSent, SubscribeToEverything, Client
<1>6. WindowOK'
  BY <1>1, <1>5, WindowStays, WindowSubscribes
<1>7. LinkOK'
  <2>1. mq.connected \/ wire' = wire
    BY <1>5 DEF SubscribeToEverything
  <2> QED
    BY <1>1, <1>5, <2>1, LinkStays
<1> QED
  BY <1>3, <1>4, <1>6, <1>7 DEF PublicationOK

\* A slot is claimed, or waited for in vain, and the client is started.
LEMMA ClaimKeeps ==
    ASSUME GatewayTypeOK, PublicationOK,
           PublisherWaits \/ StartMqtt \/ StopClaims \/ (\E patient \in BOOLEAN : StopGivesUp(patient))
    PROVE  PublicationOK'
<1>1. mq \in Client /\ wire \in Wires /\ SetupOK /\ VaultOK /\ WindowOK /\ LinkOK
  BY DEF GatewayTypeOK, ClientOK, PublicationOK
<1>2. /\ SameWay /\ wire' = wire /\ b' = b /\ seen' = seen
      /\ \/ Claim("publisher") \/ Claim("gateway")
         \/ mq'.inflight = mq.inflight /\ mq'.claimed = mq.claimed
  BY <1>1 DEF PublisherWaits, PublisherClaims, StartMqtt, StartClient, StopClaims, StopGivesUp, Claim,
              GivesUp, Client, SameWay, Around, Outside, Quiet
<1>3. g'.vault = g.vault
  BY DEF PublisherWaits, StartMqtt, StopClaims, StopGivesUp, Quiet, GatewayTypeOK, GatewayOK
<1>4. VaultOK'
  <2>1. Unspoken
    BY <1>2 DEF Unspoken
  <2>2. \A v \in {"on", "off"} : FromQueue(v) => FromQueue(v)'
    BY <2>1, UnspokenCarries
  <2> QED
    BY <1>1, <1>2, <1>3, <2>2, VaultCarries DEF GatewayTypeOK
<1>5. WindowOK'
  BY <1>1, <1>2, WindowClaim, WindowStays DEF Tasks, SameWay
<1>6. LinkOK'
  BY <1>1, <1>2, LinkStays DEF SameWay
<1>7. SetupOK'
  BY <1>1, <1>2, SetupSame
<1> QED
  BY <1>4, <1>5, <1>6, <1>7 DEF PublicationOK

LEMMA StopKeeps ==
    ASSUME GatewayTypeOK, PublicationOK, NEW taken \in BOOLEAN, StopPublishes(taken)
    PROVE  PublicationOK'
<1> DEFINE m == Message("status", "off")
<1>1. /\ mq \in Client /\ wire \in Wires /\ SetupOK /\ VaultOK /\ WindowOK /\ LinkOK
      /\ Publish("gateway", m, taken) /\ pub' = pub /\ b' = b /\ seen' = seen
  BY DEF GatewayTypeOK, ClientOK, PublicationOK, StopPublishes, Outside
<1>2. g'.vault = g.vault
  BY DEF StopPublishes, GatewayTypeOK, GatewayOK
<1>3. ~Speaks(m) /\ m \in Outbound
  BY Words DEF Outbound, Document, Message
<1>4. SameWay /\ (wire' = wire \/ (wire' = Append(wire, m) /\ mq.connected))
  BY <1>1 DEF Publish, SameWay, Client
<1> HIDE DEF m
<1>5. VaultOK'
  <2>1. \A v \in {"on", "off"} : FromQueue(v) => FromQueue(v)'
    BY <1>1, <1>3, <1>4, AnotherCarries
  <2> QED
    BY <1>1, <1>2, <2>1, VaultCarries DEF GatewayTypeOK
<1>6. WindowOK'
  BY <1>1, <1>3, WindowPublish DEF Tasks
<1>7. LinkOK'
  BY <1>1, <1>4, LinkStays DEF SameWay
<1>8. SetupOK'
  BY <1>1, <1>4, SetupSame
<1> QED
  BY <1>5, <1>6, <1>7, <1>8 DEF PublicationOK

-------------------------------------------------------------------------------
(* A connection comes and goes, and what the gateway publishes is queued.          *)

\* Without a connection the vault will be published anew, and nothing is on the wire.
LEMMA AnewKeeps ==
    ASSUME GatewayTypeOK, PublicationOK, Connects \/ ConnectionLost \/ GivesSessionUp \/ Halt
    PROVE  PublicationOK'
<1>1. /\ mq \in Client /\ wire \in Wires /\ pub \in Publisher
      /\ SetupOK /\ VaultOK /\ WindowOK /\ LinkOK
  BY DEF GatewayTypeOK, ClientOK, PublicationOK
<1>2. g'.vault = g.vault /\ seen' = seen
  BY DEF Connects, ConnectionLost, GivesSessionUp, Halt, Quiet, GatewayTypeOK, GatewayOK
<1>3. /\ Again' /\ (mq'.queue = mq.queue \/ mq'.queue = Append(mq.queue, None))
      /\ wire' = <<>> \/ wire' = wire
  BY <1>1 DEF Connects, ConnectionLost, GivesSessionUp, Halt, Connected, Disconnected, DropConnection,
              StopClient, Client, Again
<1>4. VaultOK'
  <2>1. \A v \in {"on", "off"} : FromQueue(v) => FromQueue(v)'
    BY <1>1, <1>3, QueuedCarries, Words
  <2> QED
    BY <1>1, <1>2, <2>1, VaultCarries DEF GatewayTypeOK
<1>5. Connected \/ Disconnected \/ StopClient \/ (~mq.connected /\ mq' = mq /\ wire' = wire)
  BY DEF Connects, ConnectionLost, GivesSessionUp, DropConnection, Halt
<1>6. WindowOK'
  BY <1>1, <1>5, WindowAnew DEF WindowOK
<1>7. SetupOK'
  <2>1. CASE Connects
    BY <1>1, <2>1 DEF Connects, Connected, SetupOK, Client, Publisher, Mute
  <2>2. CASE ConnectionLost \/ Halt
    <3>1. pub' = pub /\ mq'.pending = mq.pending
      BY <1>1, <2>2 DEF ConnectionLost, Halt, Disconnected, StopClient, Client
    <3> QED
      BY <1>1, <3>1, SetupStays
  <2>3. CASE GivesSessionUp
    BY <1>1, <2>3, PublisherSetup DEF GivesSessionUp, GatewayTypeOK
  <2> QED
    BY <2>1, <2>2, <2>3
<1>8. LinkOK'
  <2>1. CASE Connects
    BY <1>1, <2>1 DEF Connects, Connected, LinkOK, Client
  <2>2. CASE ~Connects /\ mq.connected
    BY <2>2 DEF ConnectionLost, GivesSessionUp, DropConnection, Halt, Disconnected, StopClient,
                Unsubscribed, LinkOK, GatewayTypeOK, BrokerOK
  <2>3. CASE ~Connects /\ ~mq.connected
    <3>1. wire' = wire /\ b' = b
      BY <1>1, <2>3 DEF ConnectionLost, GivesSessionUp, DropConnection, Halt, Disconnected, StopClient
    <3> QED
      BY <1>1, <2>3, <3>1 DEF LinkOK
  <2> QED
    BY <2>1, <2>2, <2>3
<1> QED
  BY <1>4, <1>6, <1>7, <1>8 DEF PublicationOK

LEMMA ProjectsKeeps ==
    ASSUME GatewayTypeOK, PublicationOK, NEW m, ~Speaks(m), Projects(m), g'.vault = g.vault
    PROVE  PublicationOK'
<1>1. /\ mq \in Client /\ wire \in Wires /\ SetupOK /\ VaultOK /\ WindowOK /\ LinkOK
      /\ pub' = pub /\ wire' = wire /\ b' = b /\ seen' = seen
  BY DEF GatewayTypeOK, ClientOK, PublicationOK, Projects, Outside
<1>2. /\ mq'.connected = mq.connected /\ mq'.pending = mq.pending /\ mq'.inflight = mq.inflight
      /\ mq'.claimed = mq.claimed /\ mq'.queue = Append(mq.queue, m)
  BY <1>1 DEF Projects, Queue, Client
<1>3. VaultOK'
  <2>1. \A v \in {"on", "off"} : FromQueue(v) => FromQueue(v)'
    BY <1>1, <1>2, QueuedCarries
  <2> QED
    BY <1>1, <2>1, VaultCarries DEF GatewayTypeOK
<1>4. WindowOK' /\ SetupOK' /\ LinkOK'
  BY <1>1, <1>2, WindowStays, SetupStays, LinkStays
<1> QED
  BY <1>3, <1>4 DEF PublicationOK

LEMMA ProjectionKeeps ==
    ASSUME GatewayTypeOK, PublicationOK, ProjectClients \/ Reassert \/ ProjectNetwork
    PROVE  PublicationOK'
<1>1. g'.vault = g.vault
  BY DEF ProjectClients, Reassert, ProjectNetwork, GatewayTypeOK, GatewayOK
<1>2. PICK t \in {"status", "network", "clients"} : \E w : Projects(Message(t, w))
  BY DEF ProjectClients, Reassert, ProjectNetwork
<1>4. PICK w : Projects(Message(t, w))
  BY <1>2
<1>3. ~Speaks(Message(t, w))
  BY Words
<1> QED
  BY <1>1, <1>3, <1>4, ProjectsKeeps

\* What a device publishes is queued, or noted to be lost; or, without a connection, it
\* will be published anew, if nothing older of the device is queued.
LEMMA DeviceKeeps ==
    ASSUME GatewayTypeOK, PublicationOK, NEW v \in {"on", "off"}, NEW device, FromDevice(v, device)
    PROVE  PublicationOK'
<1>1. /\ mq \in Client /\ wire \in Wires /\ SetupOK /\ WindowOK /\ LinkOK
      /\ pub' = pub /\ wire' = wire /\ b' = b /\ SendRemote(Message("device", v))
  BY DEF GatewayTypeOK, ClientOK, PublicationOK, FromDevice
<1>2. Local' => g'.vault.value = v
  <2>1. g' = [g EXCEPT !.vault = Vault(v, "local"), !.device = device]
    BY DEF FromDevice
  <2>2. g'.vault = Vault(v, "local")
    BY <2>1 DEF GatewayTypeOK, GatewayOK
  <2> QED
    BY <2>2 DEF Vault, Local, OwnedHere
<1>3. /\ mq'.connected = mq.connected /\ mq'.pending = mq.pending /\ mq'.inflight = mq.inflight
      /\ mq'.claimed = mq.claimed
  BY <1>1 DEF SendRemote, Queue, Client
<1>4. VaultOK'
  <2>1. CASE mq.connected /\ HasRoom
    <3>1. mq'.queue = Append(mq.queue, Message("device", v)) /\ mq.queue \in Queues
      BY <1>1, <2>1 DEF SendRemote, Queue, Client
    <3>2. Ends(Append(mq.queue, Message("device", v)), v)
      BY <3>1, AppendEnds DEF Queues
    <3>3. FromQueue(v)'
      BY <3>1, <3>2 DEF FromQueue, Ends
    <3> QED
      BY <1>2, <3>3, VaultIs
  <2>2. CASE mq.connected /\ ~HasRoom
    BY <1>1, <2>2 DEF SendRemote, VaultOK, GatewayTypeOK, AroundOK, History
  <2>3. CASE ~mq.connected /\ Queued("device")
    <3>1. Queued(Message("device", v).topic)
      BY <2>3 DEF Message
    <3> QED
      BY <1>1, <2>3, <3>1 DEF SendRemote, VaultOK, GatewayTypeOK, AroundOK, History
  <2>4. CASE ~mq.connected /\ ~Queued("device")
    <3>1. mq' = mq /\ Mute(mq.queue)
      BY <1>1, <2>4, QueuedOrMute DEF SendRemote
    <3>2. FromQueue(v)'
      BY <2>4, <3>1 DEF FromQueue, Again, Mute
    <3> QED
      BY <1>2, <3>2, VaultIs
  <2> QED
    BY <2>1, <2>2, <2>3, <2>4
<1>5. WindowOK' /\ SetupOK' /\ LinkOK'
  BY <1>1, <1>3, WindowStays, SetupStays, LinkStays
<1> QED
  BY <1>4, <1>5 DEF PublicationOK

LEMMA WireKeeps ==
    ASSUME GatewayTypeOK, PublicationOK, BrokerTakes \/ Expires
    PROVE  PublicationOK'
<1>1. /\ mq \in Client /\ wire \in Wires /\ SetupOK /\ VaultOK /\ WindowOK /\ LinkOK
      /\ Acknowledged \/ Deleted
      /\ wire # <<>> /\ pub' = pub /\ g' = g
  BY DEF GatewayTypeOK, ClientOK, PublicationOK, BrokerTakes, Expires, Quiet, Acknowledged, Deleted
<1>2. SameWay
  BY <1>1 DEF Acknowledged, Deleted, SlotReturns, BrokerTakes, Expires, SameWay, Client
<1>3. VaultOK'
  <2>1. CASE seen'.lost
    BY <2>1 DEF VaultOK
  <2>2. CASE ~seen'.lost
    <3>1. \A v \in {"on", "off"} : FromQueue(v) => FromQueue(v)'
      BY <2>2, TakenCarries, ExpiryCarries DEF GatewayTypeOK
    <3>2. (seen.lost => seen'.lost) /\ seen'.behind = seen.behind
      BY DEF BrokerTakes, Expires, Quiet, GatewayTypeOK, AroundOK, History
    <3> QED
      BY <1>1, <3>1, <3>2, VaultCarries DEF GatewayTypeOK
  <2> QED
    BY <2>1, <2>2
<1>4. WindowOK'
  BY <1>1, WindowTaken
<1>5. mq.connected
  BY <1>1 DEF LinkOK
<1>6. LinkOK' /\ SetupOK'
  BY <1>1, <1>2, <1>5, LinkStays, SetupSame DEF SameWay
<1> QED
  BY <1>3, <1>4, <1>6 DEF PublicationOK

LEMMA PublicationSteps ==
    ASSUME GatewayTypeOK, PublicationOK, [Next]_vars
    PROVE  PublicationOK'
<1>1. Elsewhere => PublicationOK'
  BY ElsewhereStays DEF GatewayTypeOK
<1>2. CASE PublisherTask
  BY <1>2, SetupKeeps, SendsKeeps, FailureKeeps, ClaimKeeps, AnewKeeps, Zenon DEF PublisherTask
<1>3. CASE GatewayTask
  <2>1. StopRefused => \E x \in BOOLEAN : StopPublishes(x) \/ StopGivesUp(x)
    BY DEF StopRefused
  <2>2. (\E x \in BOOLEAN : StopPublishes(x) \/ StopGivesUp(x)) => PublicationOK'
    BY StopKeeps, ClaimKeeps, Zenon
  <2>3. StopPublishes(TRUE) => \E x \in BOOLEAN : StopPublishes(x) \/ StopGivesUp(x)
    OBVIOUS
  <2> QED
    BY <1>1, <1>3, <2>1, <2>2, <2>3, TaskIsElsewhere, HearingIsElsewhere, ClaimKeeps, AnewKeeps,
       ProjectionKeeps, Zenon DEF GatewayTask
<1>4. CASE Environment
  <2>1. Device => (\E from, to : Session(from, to)) \/ \E v \in {"on", "off"} : \E device : FromDevice(v, device)
    BY DEF Device
  <2>2. Device => PublicationOK'
    BY <1>1, <2>1, CommandIsElsewhere, DeviceKeeps, Zenon
  <2>3. BrokerTakes \/ Connects \/ ConnectionLost \/ Expires => PublicationOK'
    BY WireKeeps, AnewKeeps, Zenon
  <2>4. (\E t \in b.replay : Replay(t)) \/ (\E on \in BOOLEAN : Enable(on) \/ Pause(on)) \/ MinutePasses
        => PublicationOK'
    BY <1>1, CommandIsElsewhere, Zenon
  <2>5. \/ \E t \in {"status", "network"} : SomeoneClears(t)
        \/ \E value \in {"on", "off"} : SomeoneSays(value)
        \/ PeerConnects \/ PeerLists \/ PeerDevice \/ PeerLost \/ PeerReboots \/ LateWill
        => PublicationOK'
    BY <1>1, OtherIsElsewhere, Zenon
  <2> QED
    BY <1>4, <2>2, <2>3, <2>4, <2>5, Zenon DEF Environment
<1>5. CASE UNCHANGED vars
  <2>1. Elsewhere
    BY <1>5 DEF vars, Elsewhere
  <2> QED
    BY <1>1, <2>1
<1> QED
  BY <1>2, <1>3, <1>4, <1>5 DEF Next

\* What a gateway and its surroundings begin with.
Beginning ==
    /\ ClientInit /\ inbound = <<>>
    /\ g.vault = None /\ g.peer = Recovery!Unknown /\ g.at \in {"wait", "run"} /\ GatewayOK
    /\ b.subscribed = FALSE /\ b.replay = {} /\ BrokerOK
    /\ seen.wills = 0 /\ seen.online = None /\ AroundOK

LEMMA Begins == Init => Beginning
<1> SUFFICES ASSUME Init PROVE Beginning
  OBVIOUS
<1> DEFINE there == "peer before" \in events.kinds
           here == "device before" \in events.kinds
<1>0. there \in BOOLEAN /\ here \in BOOLEAN
  OBVIOUS
<1>1. ClientInit /\ inbound = <<>>
  BY DEF Init
<1>2. g = [at |-> IF here THEN "run" ELSE "wait", enabled |-> TRUE, espnow |-> here,
           pause |-> FALSE, paused |-> FALSE, device |-> IF here THEN "named" ELSE "gone",
           listed |-> IF here THEN "named" ELSE "gone", vault |-> None, clients |-> None,
           network |-> None, stale |-> FALSE, due |-> FALSE, peer |-> Recovery!Unknown]
  BY DEF Init
<1>3. PICK by \in (IF there THEN {"us"} ELSE IF here THEN {"them"} ELSE {"us", "them"}) :
        b = [status |-> "old", network |-> "old", clients |-> "old", device |-> "on", by |-> by,
             peer |-> IF there THEN <<1, TRUE>> ELSE None,
             peerClients |-> IF there THEN <<1, "named">> ELSE None,
             subscribed |-> FALSE, replay |-> {}, missed |-> FALSE]
  BY Zenon DEF Init
<1>9. by \in {"us", "them"}
  OBVIOUS
<1>4. peer = [generation |-> 1, up |-> there, listed |-> IF there THEN "named" ELSE "gone",
              owes |-> FALSE, late |-> None]
  BY DEF Init
<1>5. seen = [lost |-> FALSE, behind |-> FALSE, hasty |-> FALSE, latest |-> FALSE,
              online |-> None, gone |-> {}, wills |-> 0]
  BY DEF Init
<1> HIDE DEF there, here
<1>6. g.vault = None /\ g.peer = Recovery!Unknown /\ g.at \in {"wait", "run"} /\ GatewayOK
  <2>1. Recovery!Unknown \in Known
    BY DEF Recovery!Unknown, Known
  <2> QED
    BY <1>0, <1>2, <2>1 DEF GatewayOK, States
<1>7. b.subscribed = FALSE /\ b.replay = {} /\ BrokerOK
  <2>1. <<1, TRUE>> \in Statuses /\ <<1, "named">> \in Lists
    BY DEF Statuses, Lists, States
  <2> DEFINE p == IF there THEN <<1, TRUE>> ELSE None
             c == IF there THEN <<1, "named">> ELSE None
  <2>2. p \in Statuses \cup {None} /\ c \in Lists \cup {None}
    BY <2>1
  <2>3. b = [status |-> "old", network |-> "old", clients |-> "old", device |-> "on", by |-> by,
             peer |-> p, peerClients |-> c, subscribed |-> FALSE, replay |-> {}, missed |-> FALSE]
    BY <1>3
  <2> HIDE DEF p, c
  <2> QED
    BY <1>9, <2>2, <2>3 DEF BrokerOK
<1>8. seen.wills = 0 /\ seen.online = None /\ AroundOK
  BY <1>0, <1>1, <1>4, <1>5 DEF AroundOK, History, States
<1> QED
  BY <1>1, <1>6, <1>7, <1>8 DEF Beginning

LEMMA PublicationsInitially == Init => PublicationOK
<1> SUFFICES ASSUME Init PROVE PublicationOK
  OBVIOUS
<1>1. /\ mq.connected = FALSE /\ pub.at = "idle" /\ pub.hand = None /\ pub.todo = <<>> /\ wire = <<>>
      /\ b.subscribed = FALSE /\ g.vault = None
  BY Begins DEF Beginning, ClientInit
<1>2. ~Local
  BY <1>1 DEF Local, OwnedHere
<1> QED
  BY <1>1, <1>2 DEF PublicationOK, SetupOK, VaultOK, WindowOK, LinkOK

LEMMA PublicationsImplied == GatewayTypeOK /\ PublicationOK => PublicationsArrive
<1> SUFFICES ASSUME GatewayTypeOK, PublicationOK PROVE PublicationsArrive
  OBVIOUS
<1>1. NoSlotLeaks
  BY DEF PublicationOK, WindowOK, Slots, Holding, NoSlotLeaks
<1>2. ASSUME ~seen.lost, ~seen.behind PROVE BrokerAgrees
  <2> SUFFICES ASSUME Still, g.vault # None, g.vault.from = "local"
               PROVE  b.by = "them" \/ b.device = g.vault.value
    BY DEF BrokerAgrees
  <2>1. PICK v \in {"on", "off"} : v = g.vault.value
    BY DEF GatewayTypeOK, GatewayOK, Entry
  <2>2. FromQueue(g.vault.value) /\ (FromQueue(g.vault.value) => FromQueue(v))
    BY <1>2, <2>1 DEF PublicationOK, VaultOK, Local, OwnedHere
  <2>3. /\ ~Again /\ pub.hand = None /\ pub.todo = <<>> /\ mq.queue = <<>> /\ wire = <<>>
    BY DEF Still, PublicationOK, SetupOK, LinkOK, Again
  <2>4. ~Ends(<<>>, v)
    BY DEF Ends
  <2>5. FromWire(v)
    BY <2>2, <2>3, <2>4, Words DEF FromQueue, FromHand, FromSetup
  <2> QED
    BY <2>1, <2>3, <2>4, <2>5 DEF FromWire
<1> QED
  BY <1>1, <1>2 DEF PublicationsArrive, VaultReachesBroker

-------------------------------------------------------------------------------
(* What the gateway is told of the other one: what the broker has of it is about   *)
(* to be replayed, or waits to be heard, or is known.                              *)

NothingOf(s, t) == \A i \in DOMAIN s : s[i].topic # t
LastOf(s, t, w) == \E i \in DOMAIN s : /\ s[i] = Message(t, w)
                                       /\ \A j \in DOMAIN s : j > i => s[j].topic # t

Reflected(t, e, w) ==
    IF t = "peer" THEN ~w[2] /\ e.generation \in {None, w[1]} => e.offline = w[1]
    ELSE e.snapshot = w[1]

Told(t) ==
    \/ t \in b.replay \/ b[t] = None
    \/ LastOf(inbound, t, b[t])
    \/ NothingOf(inbound, t) /\ Reflected(t, g.peer, b[t])

ToldOK == b.subscribed /\ ~b.missed => \A t \in Peers : Told(t)

\* The end and the clients of one generation are not known without their wills applied.
Settled(e) ==
    \A n \in Nat : e.offline = n /\ e.snapshot = n /\ e.generation \in {None, n} => e.applied

\* What a stopped gateway discards is nothing that it is subscribed to.
StoppedOK ==
    /\ g.at = "discard" => mq.client # "started"
    /\ mq.connected => mq.client = "started"

RecoveryOK == ToldOK /\ Settled(g.peer) /\ StoppedOK

LEMMA LastAppend ==
    ASSUME NEW S, NEW s \in Seq(S), NEW m, NEW t
    PROVE  /\ \A w : m = Message(t, w) => LastOf(Append(s, m), t, w)
           /\ m.topic # t /\ NothingOf(s, t) => NothingOf(Append(s, m), t)
           /\ \A w : m.topic # t /\ LastOf(s, t, w) => LastOf(Append(s, m), t, w)
<1> DEFINE r == Append(s, m)
<1>1. /\ Len(s) \in Nat /\ DOMAIN s = 1 .. Len(s) /\ DOMAIN r = 1 .. Len(s) + 1
      /\ \A k \in 1 .. Len(s) : r[k] = s[k]
      /\ r[Len(s) + 1] = m
  OBVIOUS
<1> HIDE DEF r
<1>2. ASSUME NEW w, m = Message(t, w) PROVE LastOf(r, t, w)
  <2>1. Len(s) + 1 \in DOMAIN r /\ \A j \in DOMAIN r : ~(j > Len(s) + 1)
    BY <1>1
  <2> QED
    BY <1>1, <1>2, <2>1 DEF LastOf
<1>3. ASSUME m.topic # t, NothingOf(s, t) PROVE NothingOf(r, t)
  <2> SUFFICES ASSUME NEW i \in DOMAIN r PROVE r[i].topic # t
    BY DEF NothingOf
  <2>1. CASE i = Len(s) + 1
    BY <1>1, <1>3, <2>1, Zenon
  <2>2. CASE i # Len(s) + 1
    <3>1. i \in 1 .. Len(s)
      BY <1>1, <2>2
    <3> QED
      BY <1>1, <1>3, <3>1 DEF NothingOf
  <2> QED
    BY <2>1, <2>2
<1>4. ASSUME NEW w, m.topic # t, LastOf(s, t, w) PROVE LastOf(r, t, w)
  <2>1. PICK i \in DOMAIN s : s[i] = Message(t, w) /\ \A j \in DOMAIN s : j > i => s[j].topic # t
    BY <1>4 DEF LastOf
  <2>2. i \in DOMAIN r /\ r[i] = Message(t, w)
    BY <1>1, <2>1
  <2>3. ASSUME NEW j \in DOMAIN r, j > i PROVE r[j].topic # t
    <3>1. CASE j = Len(s) + 1
      BY <1>1, <1>4, <3>1, Zenon
    <3>2. CASE j # Len(s) + 1
      <4>1. j \in 1 .. Len(s)
        BY <1>1, <2>3, <3>2
      <4> QED
        BY <1>1, <2>1, <2>3, <4>1
    <3> QED
      BY <3>1, <3>2
  <2> QED
    BY <2>2, <2>3, Zenon DEF LastOf
<1> QED
  BY <1>2, <1>3, <1>4 DEF r

LEMMA LastTail ==
    ASSUME NEW S, NEW s \in Seq(S), s # <<>>, NEW t
    PROVE  /\ NothingOf(s, t) => Head(s).topic # t /\ NothingOf(Tail(s), t)
           /\ \A w : LastOf(s, t, w) => \/ LastOf(Tail(s), t, w)
                                        \/ Head(s) = Message(t, w) /\ NothingOf(Tail(s), t)
<1> DEFINE r == Tail(s)
<1>1. /\ 1 \in DOMAIN s /\ Head(s) = s[1]
      /\ \A j \in DOMAIN r : j + 1 \in DOMAIN s /\ j \in Nat /\ r[j] = s[j + 1]
      /\ \A k \in DOMAIN s : k \in Nat /\ (k # 1 => k - 1 \in DOMAIN r /\ r[k - 1] = s[k])
  BY TailFacts
<1>2. \A j \in DOMAIN r : j + 1 > 1
  <2> TAKE j \in DOMAIN r
  <2>1. DOMAIN r = 1 .. Len(r)
    OBVIOUS
  <2> QED
    BY <2>1
<1> HIDE DEF r
<1>3. NothingOf(s, t) => Head(s).topic # t /\ NothingOf(r, t)
  BY <1>1 DEF NothingOf
<1>4. ASSUME NEW w, LastOf(s, t, w) PROVE LastOf(r, t, w) \/ (Head(s) = Message(t, w) /\ NothingOf(r, t))
  <2>1. PICK i \in DOMAIN s : s[i] = Message(t, w) /\ \A j \in DOMAIN s : j > i => s[j].topic # t
    BY <1>4 DEF LastOf
  <2>2. \A j \in DOMAIN r : j + 1 > i => r[j].topic # t
    BY <1>1, <2>1
  <2>3. CASE i = 1
    BY <1>1, <1>2, <2>1, <2>2, <2>3 DEF NothingOf
  <2>4. CASE i # 1
    <3>1. i - 1 \in DOMAIN r /\ r[i - 1] = Message(t, w)
      BY <1>1, <2>1, <2>4
    <3>2. ASSUME NEW j \in DOMAIN r, j > i - 1 PROVE r[j].topic # t
      BY <1>1, <2>1, <2>2, <3>2
    <3> QED
      BY <3>1, <3>2, Zenon DEF LastOf
  <2> QED
    BY <2>3, <2>4
<1> QED
  BY <1>3, <1>4 DEF r

\* What is known after a status or a list is what it says, and of the other topic what
\* was known before.
LEMMA RecoveryReflects ==
    ASSUME NEW e \in Known, NEW n \in Nat
    PROVE  /\ \A c \in States :
                LET h == Recovery!HeardClients(e, n, c)
                IN  /\ Reflected("peerClients", h, <<n, c>>)
                    /\ \A w \in Statuses : Reflected("peer", e, w) => Reflected("peer", h, w)
                    /\ Settled(e) => Settled(h)
           /\ \A online \in BOOLEAN :
                LET h == Recovery!HeardStatus(e, n, online)
                IN  /\ Reflected("peer", h, <<n, online>>)
                    /\ \A w \in Lists : Reflected("peerClients", e, w) => Reflected("peerClients", h, w)
                    /\ Settled(e) => Settled(h)
<1>0. n # None /\ \A k \in Nat : k # None
  BY GatewayAssumption
<1>1. ASSUME NEW c \in States, NEW h, h = Recovery!HeardClients(e, n, c)
      PROVE  /\ Reflected("peerClients", h, <<n, c>>)
             /\ \A w \in Statuses : Reflected("peer", e, w) => Reflected("peer", h, w)
             /\ Settled(e) => Settled(h)
  <2>1. /\ h.snapshot = n /\ h.offline = e.offline
        /\ \/ /\ e.offline = n /\ e.generation \in {None, n} /\ ~e.applied
              /\ h.generation = n /\ h.applied
           \/ /\ h.generation = e.generation /\ h.applied = e.applied
              /\ ~(e.offline = n /\ e.generation \in {None, n} /\ ~e.applied)
    BY <1>1 DEF Recovery!HeardClients, Recovery!DueByClients, Recovery!KnownAs, Recovery!Apply, Known
  <2>2. Reflected("peerClients", h, <<n, c>>)
    BY <2>1 DEF Reflected
  <2>3. ASSUME NEW w \in Statuses, Reflected("peer", e, w) PROVE Reflected("peer", h, w)
    <3>1. w[1] \in Nat
      BY DEF Statuses
    <3> QED
      BY <1>0, <2>1, <2>3, <3>1 DEF Reflected
  <2>4. Settled(e) => Settled(h)
    BY <1>0, <2>1 DEF Settled, Known
  <2> QED
    BY <2>2, <2>3, <2>4
<1>2. ASSUME NEW online \in BOOLEAN, NEW h, h = Recovery!HeardStatus(e, n, online)
      PROVE  /\ Reflected("peer", h, <<n, online>>)
             /\ \A w \in Lists : Reflected("peerClients", e, w) => Reflected("peerClients", h, w)
             /\ Settled(e) => Settled(h)
  <2>1. /\ h.snapshot = e.snapshot
        /\ \/ online /\ h.offline = None
           \/ ~online /\ e.generation \notin {None, n} /\ h = e
           \/ /\ ~online /\ e.generation \in {None, n} /\ h.generation = n /\ h.offline = n
              /\ h.applied \/ e.snapshot # n
    BY <1>2 DEF Recovery!HeardStatus, Recovery!DueByStatus, Recovery!KnownAs, Recovery!Apply, Known
  <2>2. Reflected("peer", h, <<n, online>>)
    BY <2>1 DEF Reflected
  <2>3. \A w \in Lists : Reflected("peerClients", e, w) => Reflected("peerClients", h, w)
    BY <2>1 DEF Reflected
  <2>4. Settled(e) => Settled(h)
    BY <1>0, <2>1 DEF Settled
  <2> QED
    BY <2>2, <2>3, <2>4
<1> QED
  BY <1>1, <1>2

\* A message says nothing of the other gateway, or its clients, or its status.
LEMMA PeerKinds ==
    ASSUME GatewayOK, NEW m \in Inbound, OnMessage(m)
    PROVE  \/ m.topic \notin Peers /\ g'.peer = g.peer
           \/ \E n \in Nat, c \in States : /\ m = Message("peerClients", <<n, c>>)
                                           /\ g'.peer = Recovery!HeardClients(g.peer, n, c)
           \/ \E n \in Nat, online \in BOOLEAN : /\ m = Message("peer", <<n, online>>)
                                                 /\ g'.peer = Recovery!HeardStatus(g.peer, n, online)
<1>1. CASE m \in Document("device", {"on", "off"})
  <2>1. m.topic = "device"
    BY <1>1 DEF Document
  <2>2. g' = [g EXCEPT !.vault = StatusFromBroker(@, m.value)] /\ UNCHANGED seen
    BY <2>1 DEF OnMessage, Own
  <2>3. g'.peer = g.peer
    BY <2>2 DEF GatewayOK
  <2> QED
    BY <2>1, <2>3 DEF Peers
<1>2. CASE m \in Document("peer", Statuses)
  <2>1. PICK n \in Nat, online \in BOOLEAN : m = Message("peer", <<n, online>>)
    BY <1>2 DEF Document, Statuses, Message
  <2>2. m.topic = "peer" /\ m.value[1] = n /\ m.value[2] = online
    BY <2>1 DEF Message
  <2>3. g'.peer = Recovery!HeardStatus(g.peer, n, online)
    BY <2>2 DEF OnMessage, Own, OtherGateway, GatewayOK
  <2> QED
    BY <2>1, <2>3
<1>3. CASE m \in Document("peerClients", Lists)
  <2>1. PICK n \in Nat, c \in States : m = Message("peerClients", <<n, c>>)
    BY <1>3 DEF Document, Lists, Message
  <2>2. m.topic = "peerClients" /\ m.value[1] = n /\ m.value[2] = c
    BY <2>1 DEF Message
  <2>3. g'.peer = Recovery!HeardClients(g.peer, n, c)
    BY <2>2 DEF OnMessage, Own, OtherGateway, GatewayOK
  <2> QED
    BY <2>1, <2>3
<1>4. CASE m \in [topic : {"status", "network"}, value : {None}]
  <2>1. m.topic \in {"status", "network"}
    BY <1>4
  <2> QED
    BY <2>1 DEF OnMessage, Own, Cleared, Peers, GatewayOK
<1> QED
  BY <1>1, <1>2, <1>3, <1>4, Zenon DEF Inbound

\* A message that is heard.
LEMMA HearingTold ==
    ASSUME GatewayTypeOK, ToldOK, Settled(g.peer), DrainInbound
    PROVE  ToldOK' /\ Settled(g'.peer)
<1> DEFINE m == Head(inbound)
<1>1. /\ GatewayOK /\ BrokerOK /\ g.peer \in Known /\ m \in Inbound /\ OnMessage(m) /\ b' = b
      /\ inbound # <<>> /\ inbound \in Seq(Inbound) /\ inbound' = Tail(inbound)
  BY Taken DEF GatewayTypeOK, GatewayOK, AroundOK, DrainInbound
<1> HIDE DEF m
<1>2. Settled(g'.peer)
  BY <1>1, PeerKinds, RecoveryReflects
<1>3. ASSUME NEW t \in Peers, Told(t) PROVE Told(t)'
  <2> DEFINE w == b[t]
  <2>0. t \in {"peer", "peerClients"} /\ b'[t] = w /\ b'.replay = b.replay
    BY <1>1 DEF Peers
  <2>1. w # None => (t = "peer" /\ w \in Statuses) \/ (t = "peerClients" /\ w \in Lists)
    BY <1>1, <2>0 DEF BrokerOK
  <2> HIDE DEF w
  <2>2. ASSUME w # None, Reflected(t, g.peer, w), m.topic # t PROVE Reflected(t, g'.peer, w)
    <3>1. CASE m.topic \notin Peers /\ g'.peer = g.peer
      BY <2>2, <3>1
    <3>2. CASE \E n \in Nat, c \in States : /\ m = Message("peerClients", <<n, c>>)
                                            /\ g'.peer = Recovery!HeardClients(g.peer, n, c)
      <4>1. PICK n \in Nat, c \in States : /\ m = Message("peerClients", <<n, c>>)
                                            /\ g'.peer = Recovery!HeardClients(g.peer, n, c)
        BY <3>2
      <4>2. t = "peer" /\ w \in Statuses
        BY <2>0, <2>1, <2>2, <4>1 DEF Message
      <4> QED
        BY <1>1, <2>2, <4>1, <4>2, RecoveryReflects
    <3>3. CASE \E n \in Nat, online \in BOOLEAN : /\ m = Message("peer", <<n, online>>)
                                                  /\ g'.peer = Recovery!HeardStatus(g.peer, n, online)
      <4>1. PICK n \in Nat, online \in BOOLEAN : /\ m = Message("peer", <<n, online>>)
                                                  /\ g'.peer = Recovery!HeardStatus(g.peer, n, online)
        BY <3>3
      <4>2. t = "peerClients" /\ w \in Lists
        BY <2>0, <2>1, <2>2, <4>1 DEF Message
      <4> QED
        BY <1>1, <2>2, <4>1, <4>2, RecoveryReflects
    <3> QED
      BY <1>1, <3>1, <3>2, <3>3, PeerKinds
  <2>3. ASSUME m = Message(t, w) PROVE Reflected(t, g'.peer, w)
    <3>1. m.topic = t /\ m.value = w
      BY <2>3 DEF Message
    <3>2. ASSUME NEW n \in Nat, NEW c \in States, m = Message("peerClients", <<n, c>>),
                 g'.peer = Recovery!HeardClients(g.peer, n, c)
          PROVE  Reflected(t, g'.peer, w)
      <4>1. t = "peerClients" /\ w = <<n, c>>
        BY <3>1, <3>2 DEF Message
      <4> QED
        BY <1>1, <3>2, <4>1, RecoveryReflects
    <3>3. ASSUME NEW n \in Nat, NEW online \in BOOLEAN, m = Message("peer", <<n, online>>),
                 g'.peer = Recovery!HeardStatus(g.peer, n, online)
          PROVE  Reflected(t, g'.peer, w)
      <4>1. t = "peer" /\ w = <<n, online>>
        BY <3>1, <3>3 DEF Message
      <4> QED
        BY <1>1, <3>3, <4>1, RecoveryReflects
    <3> QED
      BY <1>1, <3>1, <3>2, <3>3, PeerKinds
  <2>4. CASE t \in b.replay \/ w = None
    BY <2>0, <2>4 DEF Told
  <2>5. CASE w # None /\ LastOf(inbound, t, w)
    <3>1. LastOf(inbound', t, w) \/ (m = Message(t, w) /\ NothingOf(inbound', t))
      BY <1>1, <2>5, LastTail DEF m
    <3> QED
      BY <2>0, <2>3, <3>1 DEF Told
  <2>6. CASE w # None /\ NothingOf(inbound, t) /\ Reflected(t, g.peer, w)
    <3>1. m.topic # t /\ NothingOf(inbound', t)
      BY <1>1, <2>6, LastTail DEF m
    <3> QED
      BY <2>0, <2>2, <2>6, <3>1 DEF Told
  <2> QED
    BY <1>3, <2>4, <2>5, <2>6 DEF Told, w
<1> QED
  BY <1>1, <1>2, <1>3 DEF ToldOK

\* Nothing of the other gateway moves, or the subscription ends.
Untold ==
    /\ g'.peer = g.peer
    /\ \/ ~b'.subscribed
       \/ /\ inbound' = inbound
          /\ b'.subscribed = b.subscribed /\ b'.missed = b.missed
          /\ \A t \in Peers : b'[t] = b[t] /\ (t \in b.replay => t \in b'.replay)

LEMMA UntoldStays ==
    ASSUME ToldOK, Untold
    PROVE  ToldOK'
<1> SUFFICES ASSUME b'.subscribed, ~b'.missed, NEW t \in Peers PROVE Told(t)'
  BY DEF ToldOK
<1>1. Told(t) /\ inbound' = inbound /\ g'.peer = g.peer /\ b'[t] = b[t] /\ (t \in b.replay => t \in b'.replay)
  BY DEF Untold, ToldOK
<1> QED
  BY <1>1 DEF Told, NothingOf, LastOf

\* The broker has a message for the gateway, and notes if it had no room.
LEMMA DeliveryTold ==
    ASSUME inbound \in Seq(Inbound), ToldOK, NEW m, Deliver(m), g'.peer = g.peer,
           b'.subscribed = b.subscribed, ~b'.missed => ~Missed(m),
           \A t \in Peers : \/ m = Message(t, b'[t])
                            \/ m.topic # t /\ b'[t] = b[t] /\ (t \in b.replay => t \in b'.replay)
    PROVE  ToldOK'
<1> SUFFICES ASSUME b'.subscribed, ~b'.missed, NEW t \in Peers PROVE Told(t)'
  BY DEF ToldOK
<1>1. Told(t) /\ b.subscribed /\ (Len(inbound) < InboundDepth \/ m.topic \notin Peers)
  BY GatewayAssumption DEF ToldOK, Missed
<1>2. CASE m = Message(t, b'[t])
  <2>1. m.topic = t
    BY <1>2 DEF Message
  <2>2. inbound' = Append(inbound, m)
    BY <1>1, <2>1 DEF Deliver
  <2>3. LastOf(inbound', t, b'[t])
    BY <1>2, <2>2, LastAppend
  <2> QED
    BY <2>3 DEF Told
<1>3. CASE m.topic # t /\ b'[t] = b[t] /\ (t \in b.replay => t \in b'.replay)
  <2>1. inbound' = inbound \/ inbound' = Append(inbound, m)
    BY DEF Deliver
  <2>2. /\ LastOf(inbound, t, b[t]) => LastOf(Append(inbound, m), t, b[t])
        /\ NothingOf(inbound, t) => NothingOf(Append(inbound, m), t)
    BY <1>3, LastAppend
  <2>3. /\ LastOf(inbound, t, b[t]) => LastOf(inbound', t, b[t])
        /\ NothingOf(inbound, t) => NothingOf(inbound', t)
    BY <2>1, <2>2
  <2> QED
    BY <1>1, <1>3, <2>3 DEF Told
<1> QED
  BY <1>2, <1>3

\* What others do to the broker is to publish.
LEMMA OthersPublish ==
    ASSUME GatewayTypeOK,
           \/ \E t \in {"status", "network"} : SomeoneClears(t)
           \/ \E value \in {"on", "off"} : SomeoneSays(value)
           \/ PeerConnects \/ PeerLists \/ PeerDevice \/ PeerLost \/ PeerReboots \/ LateWill
    PROVE  (\E m \in Inbound : Publishes(m)) \/ UNCHANGED <<mq, pub, wire, g, inbound, b, seen>>
<1>1. /\ \A t \in {"status", "network"} : Message(t, None) \in Inbound
      /\ \A value \in {"on", "off"} : Message("device", value) \in Inbound
      /\ \A n \in Nat : /\ \A up \in BOOLEAN : Message("peer", <<n, up>>) \in Inbound
                        /\ \A c \in States : Message("peerClients", <<n, c>>) \in Inbound
  BY DEF Message, Inbound, Document, Statuses, Lists
<1>2. /\ peer.generation \in Nat /\ peer.listed \in States /\ peer.late \in Nat \cup {None}
      /\ "named" \in States /\ "gone" \in States /\ TRUE \in BOOLEAN /\ FALSE \in BOOLEAN
  BY DEF GatewayTypeOK, AroundOK, States
<1>3. CASE PeerReboots
  BY <1>3 DEF PeerReboots, Unmoved
<1>4. CASE \E t \in {"status", "network"} : SomeoneClears(t)
  BY <1>1, <1>4 DEF SomeoneClears
<1>5. CASE \E value \in {"on", "off"} : SomeoneSays(value)
  BY <1>1, <1>5 DEF SomeoneSays
<1>6. CASE PeerConnects \/ PeerLists \/ PeerDevice \/ PeerLost \/ LateWill
  BY <1>1, <1>2, <1>6 DEF PeerConnects, PeerLists, PeerDevice, PeerLost, LateWill, PeerSays, Generation
<1> QED
  BY <1>3, <1>4, <1>5, <1>6

\* What someone else publishes, and what the broker replays, is heard or noted as missed.
LEMMA PublishedTold ==
    ASSUME GatewayTypeOK, ToldOK, NEW m \in Inbound, Publishes(m)
    PROVE  ToldOK'
<1>1. inbound \in Seq(Inbound) /\ Deliver(m) /\ g'.peer = g.peer /\ BrokerOK
  BY DEF Publishes, GatewayTypeOK, AroundOK
<1>2. CASE m.topic = "device"
  <2>1. b' = [b EXCEPT !.device = m.value, !.by = "them", !.replay = @ \ {"device"}]
    BY <1>2 DEF Publishes, Retain
  <2>2. /\ b'.subscribed = b.subscribed /\ b'.missed = b.missed
        /\ \A t \in Peers : m.topic # t /\ b'[t] = b[t] /\ (t \in b.replay => t \in b'.replay)
    BY <1>1, <1>2, <2>1 DEF BrokerOK, Peers
  <2>3. ~b'.missed => ~Missed(m)
    BY <1>2, <2>2 DEF Missed, Peers
  <2> QED
    BY <1>1, <2>2, <2>3, DeliveryTold
<1>3. CASE m.topic # "device"
  <2> DEFINE u == m.topic
             w == Missed(m)
  <2>1. b' = [b EXCEPT ![u] = m.value, !.replay = @ \ {u}, !.missed = w]
    BY <1>3 DEF Publishes, Retain
  <2>2. u \in {"status", "network", "peer", "peerClients"} /\ m = Message(u, m.value)
    BY <1>3 DEF Inbound, Document, Message
  <2> HIDE DEF u, w
  <2>3. /\ b'.subscribed = b.subscribed /\ b'.missed = w /\ b'[u] = m.value
        /\ \A t \in Peers : t # u => b'[t] = b[t] /\ (t \in b.replay => t \in b'.replay)
    BY <1>1, <2>1, <2>2 DEF BrokerOK, Peers
  <2>4. \A t \in Peers : \/ m = Message(t, b'[t])
                         \/ m.topic # t /\ b'[t] = b[t] /\ (t \in b.replay => t \in b'.replay)
    BY <2>2, <2>3 DEF u
  <2>5. ~b'.missed => ~Missed(m)
    BY <2>3 DEF w
  <2> QED
    BY <1>1, <2>3, <2>4, <2>5, DeliveryTold
<1> QED
  BY <1>2, <1>3

LEMMA ReplayTold ==
    ASSUME GatewayTypeOK, ToldOK, NEW t \in b.replay, Replay(t)
    PROVE  ToldOK'
<1> DEFINE m == Message(t, b[t])
           w == Missed(m)
<1>1. inbound \in Seq(Inbound) /\ Deliver(m) /\ g'.peer = g.peer /\ BrokerOK
  BY DEF Replay, Quiet, GatewayTypeOK, AroundOK
<1>2. b' = [b EXCEPT !.replay = @ \ {t}, !.missed = w] /\ t \in {"device", "peer", "peerClients"}
  BY <1>1 DEF Replay, BrokerOK
<1>3. m.topic = t
  BY DEF Message
<1> HIDE DEF w
<1>4. /\ b'.subscribed = b.subscribed /\ b'.missed = w
      /\ \A u \in Peers : b'[u] = b[u] /\ (u # t /\ u \in b.replay => u \in b'.replay)
  BY <1>1, <1>2 DEF BrokerOK, Peers
<1>5. \A u \in Peers : \/ m = Message(u, b'[u])
                       \/ m.topic # u /\ b'[u] = b[u] /\ (u \in b.replay => u \in b'.replay)
  BY <1>3, <1>4
<1>6. ~b'.missed => ~Missed(m)
  BY <1>4 DEF w
<1> QED
  BY <1>1, <1>4, <1>5, <1>6, DeliveryTold

\* A new subscription replays all that is retained; what the gateway publishes is not
\* of the other one.
LEMMA TakenTold ==
    ASSUME GatewayTypeOK, ToldOK, BrokerTakes
    PROVE  ToldOK'
<1>1. /\ g'.peer = g.peer /\ inbound' = inbound /\ BrokerOK /\ wire # <<>> /\ wire \in Wires
  BY DEF BrokerTakes, Quiet, Acknowledged, GatewayTypeOK, ClientOK
<1>2. CASE Head(wire) = All
  <2>1. Subscribed
    BY <1>2 DEF BrokerTakes
  <2>2. \A t \in Peers : b'[t] = b[t] /\ (b[t] # None => t \in b'.replay)
    BY <1>1, <2>1 DEF Subscribed, BrokerOK, Peers
  <2> QED
    BY <2>2 DEF ToldOK, Told
<1>3. CASE Head(wire) # All
  <2> DEFINE m == Head(wire)
  <2>1. m \in Outbound /\ Retain(m, "us", b.missed)
    BY <1>1, <1>3, Sequences DEF BrokerTakes
  <2>2. m.topic \in {"status", "network", "clients", "device"}
    BY <2>1 DEF Outbound, Document
  <2> HIDE DEF m
  <2>3. /\ b'.subscribed = b.subscribed /\ b'.missed = b.missed
        /\ \A t \in Peers : b'[t] = b[t] /\ (t \in b.replay => t \in b'.replay)
    <3>1. CASE m.topic = "device"
      <4>1. b' = [b EXCEPT !.device = m.value, !.by = "us", !.replay = @ \ {"device"}]
        BY <2>1, <3>1 DEF Retain
      <4> QED
        BY <1>1, <4>1 DEF BrokerOK, Peers
    <3>2. ASSUME NEW u \in {"status", "network", "clients"}, m.topic = u
          PROVE  /\ b'.subscribed = b.subscribed /\ b'.missed = b.missed
                 /\ \A t \in Peers : b'[t] = b[t] /\ (t \in b.replay => t \in b'.replay)
      <4>1. b' = [b EXCEPT ![u] = m.value, !.replay = @ \ {u}, !.missed = b.missed]
        BY <2>1, <3>2 DEF Retain
      <4> QED
        BY <1>1, <4>1 DEF BrokerOK, Peers
    <3> QED
      BY <2>2, <3>1, <3>2
  <2> QED
    BY <1>1, <2>3, UntoldStays DEF Untold
<1> QED
  BY <1>2, <1>3

\* The other steps of the gateway's tasks and of its surroundings.
LEMMA TasksUntold ==
    ASSUME GatewayTypeOK, LinkOK, StoppedOK, PublisherTask \/ (GatewayTask /\ ~DrainInbound)
    PROVE  Untold
<1>1. g'.peer = g.peer
  BY PublisherSteps, TaskSteps DEF Unheard
<1>2. CASE b' = b /\ inbound' = inbound
  BY <1>1, <1>2 DEF Untold
<1>3. CASE GivesSessionUp \/ Halt
  <2>1. CASE mq.connected
    <3>1. b' = Unsubscribed(b.status)
      BY <1>3, <2>1 DEF GivesSessionUp, Halt
    <3> QED
      BY <1>1, <3>1 DEF Untold, Unsubscribed, GatewayTypeOK, BrokerOK
  <2>2. CASE ~mq.connected
    BY <1>2, <1>3, <2>2 DEF GivesSessionUp, Halt
  <2> QED
    BY <2>1, <2>2
<1>4. CASE Discard
  BY <1>1, <1>4 DEF Discard, Outside, StoppedOK, LinkOK, Untold
<1>5. CASE PublisherTask /\ ~GivesSessionUp
  BY <1>2, <1>5 DEF PublisherTask, TakesNext, PublisherSends, PublisherRefused, PublisherWaits,
                    PublisherLosesPatience, SetupContinues, Subscribes, NotesOwn, Around
<1>6. CASE GatewayTask /\ ~DrainInbound /\ ~Halt /\ ~Discard
  BY <1>2, <1>6 DEF GatewayTask, StartEspNow, StartMqtt, StopServices, StopClaims, StopPublishes,
                    StopGivesUp, StopRefused, StartAgain, PauseOrResume, RefreshSnapshot,
                    ProjectClients, Reassert, ProjectNetwork, Projects, Outside
<1> QED
  BY <1>3, <1>4, <1>5, <1>6

LEMMA OtherUntold ==
    ASSUME GatewayTypeOK,
           \/ Connects \/ ConnectionLost \/ Expires
           \/ (\E on \in BOOLEAN : Enable(on) \/ Pause(on)) \/ MinutePasses \/ Device
           \/ UNCHANGED vars
    PROVE  Untold
<1>1. g'.peer = g.peer
  BY BrokerSteps, DeviceSteps DEF Unheard, vars
<1>2. CASE ConnectionLost
  BY <1>1, <1>2 DEF ConnectionLost, Unsubscribed, Untold, GatewayTypeOK, BrokerOK
<1>3. CASE ~ConnectionLost
  <2>1. b' = b /\ inbound' = inbound
    BY <1>3 DEF Connects, Expires, Enable, Pause, Commanded, MinutePasses, Device, Session, FromDevice, vars
  <2> QED
    BY <1>1, <2>1 DEF Untold
<1> QED
  BY <1>2, <1>3

\* The client of the broker is started, and connects, and is stopped with the gateway.
ClientStays ==
    /\ mq'.client = mq.client /\ (mq'.connected => mq.connected)
    /\ g'.at = "discard" => g.at = "discard" \/ mq.client # "started"

LEMMA ClientSteps ==
    ASSUME GatewayTypeOK, StoppedOK, [Next]_vars
    PROVE  StoppedOK'
<1>1. mq \in Client /\ GatewayOK
  BY DEF GatewayTypeOK, ClientOK
<1>2. ASSUME ClientStays PROVE StoppedOK'
  BY <1>2 DEF ClientStays, StoppedOK
<1>3. ASSUME mq' = mq, g'.at = g.at \/ g'.at # "discard" PROVE StoppedOK'
  BY <1>2, <1>3 DEF ClientStays
<1>4. ASSUME NEW task, NEW m, NEW taken, Claim(task) \/ Publish(task, m, taken)
      PROVE  mq'.client = mq.client /\ mq'.connected = mq.connected
  BY <1>1, <1>4 DEF Claim, Publish, Client
<1>5. ASSUME NEW m, Queue(m) PROVE mq'.client = mq.client /\ mq'.connected = mq.connected
  BY <1>1, <1>5 DEF Queue, Client
<1>6. CASE PublisherTask
  <2>1. g'.at = g.at
    BY <1>1, <1>6 DEF PublisherTask, TakesNext, PublisherSends, PublisherRefused, PublisherWaits,
                      PublisherLosesPatience, SetupContinues, Subscribes, NotesOwn, GivesSessionUp,
                      Quiet, GatewayOK
  <2>2. mq'.client = mq.client /\ (mq'.connected => mq.connected)
    <3>1. CASE TakesNext
      BY <1>1, <3>1 DEF TakesNext, TakeNext, Client
    <3>2. CASE PublisherSends \/ PublisherRefused \/ PublisherWaits
      BY <1>4, <3>2 DEF PublisherSends, PublisherRefused, PublisherWaits, PublisherPublishes, PublisherClaims
    <3>3. CASE PublisherLosesPatience \/ SetupContinues \/ Subscribes \/ NotesOwn
      BY <3>3 DEF PublisherLosesPatience, SetupContinues, Subscribes, NotesOwn, PublisherGivesUp, GivesUp,
                  VaultSent, SubscribeToEverything, OwnSent
    <3>4. CASE GivesSessionUp
      BY <1>1, <3>4 DEF GivesSessionUp, DropConnection, Disconnected, Client
    <3> QED
      BY <1>6, <3>1, <3>2, <3>3, <3>4 DEF PublisherTask
  <2> QED
    BY <1>2, <2>1, <2>2 DEF ClientStays
<1>7. CASE GatewayTask
  <2>1. CASE StartEspNow \/ Discard \/ StartAgain \/ PauseOrResume \/ RefreshSnapshot
    <3>1. mq' = mq
      BY <2>1 DEF StartEspNow, Discard, StartAgain, PauseOrResume, RefreshSnapshot
    <3>2. g'.at = g.at \/ g'.at # "discard"
      BY <1>1, <2>1 DEF StartEspNow, Discard, StartAgain, PauseOrResume, RefreshSnapshot, Silent, GatewayOK
    <3> QED
      BY <1>3, <3>1, <3>2
  <2>2. CASE StopServices
    <3>1. mq' = mq /\ (g'.at = "discard" => mq.client # "started")
      BY <1>1, <2>2 DEF StopServices, Silent, GatewayOK
    <3> QED
      BY <1>2, <3>1 DEF ClientStays
  <2>3. CASE StartMqtt
    <3>1. g' = g /\ g.at = "run" /\ mq'.client = "started" /\ mq'.connected = mq.connected
      BY <1>1, <2>3 DEF StartMqtt, StartClient, Client
    <3> QED
      BY <3>1 DEF StoppedOK
  <2>4. CASE Halt
    <3>1. mq'.client = "stopped" /\ mq'.connected = FALSE
      BY <1>1, <2>4 DEF Halt, StopClient, Client
    <3> QED
      BY <3>1 DEF StoppedOK
  <2>5. CASE DrainInbound
    <3>1. mq' = mq /\ g'.at = g.at
      <4>1. GatewayTypeOK /\ OnMessage(Head(inbound)) /\ Head(inbound) \in Inbound /\ mq' = mq
        BY <2>5, Taken
      <4>2. \A e, w : OtherGateway(e, w) => g'.at = g.at
        BY <1>1 DEF OtherGateway, GatewayOK
      <4>3. (\E w : g' = [g EXCEPT !.vault = w]) \/ Cleared => g'.at = g.at
        BY <1>1 DEF Cleared, GatewayOK
      <4> QED
        BY <4>1, <4>2, <4>3, Kinds, Zenon
    <3> QED
      BY <1>3, <3>1
  <2>6. CASE StopClaims
    <3>1. g' = g
      BY <2>6 DEF StopClaims
    <3> QED
      BY <1>2, <1>4, <2>6, <3>1 DEF StopClaims, ClientStays
  <2>7. ASSUME NEW x \in BOOLEAN, StopPublishes(x) \/ StopGivesUp(x) PROVE StoppedOK'
    <3>1. g'.at = "halt"
      BY <1>1, <2>7 DEF StopPublishes, StopGivesUp, GatewayOK
    <3>2. mq'.client = mq.client /\ mq'.connected = mq.connected
      BY <1>4, <2>7 DEF StopPublishes, StopGivesUp, GivesUp
    <3> QED
      BY <1>2, <3>1, <3>2 DEF ClientStays
  <2>8. CASE ProjectClients \/ Reassert \/ ProjectNetwork
    <3>1. g'.at = g.at
      BY <1>1, <2>8 DEF ProjectClients, Reassert, ProjectNetwork, GatewayOK
    <3>2. mq'.client = mq.client /\ mq'.connected = mq.connected
      BY <1>5, <2>8 DEF ProjectClients, Reassert, ProjectNetwork, Projects
    <3> QED
      BY <1>2, <3>1, <3>2 DEF ClientStays
  <2> QED
    BY <1>7, <2>1, <2>2, <2>3, <2>4, <2>5, <2>6, <2>7, <2>8 DEF GatewayTask, StopRefused
<1>8. CASE Environment
  <2>1. CASE Connects
    <3>1. g' = g /\ mq.client = "started" /\ mq'.client = "started"
      BY <1>1, <2>1 DEF Connects, Connected, Quiet, Client
    <3> QED
      BY <3>1 DEF StoppedOK
  <2>2. CASE BrokerTakes \/ ConnectionLost \/ Expires
    <3>1. g' = g /\ mq'.client = mq.client /\ (mq'.connected => mq.connected)
      BY <1>1, <2>2 DEF BrokerTakes, ConnectionLost, Expires, Acknowledged, Disconnected, Deleted,
                        SlotReturns, Quiet, Client
    <3> QED
      BY <1>2, <3>1 DEF ClientStays
  <2>3. CASE (\E t \in b.replay : Replay(t)) \/ (\E on \in BOOLEAN : Enable(on) \/ Pause(on)) \/ MinutePasses
             \/ (\E from, to : Session(from, to))
    <3>1. mq' = mq
      BY <2>3 DEF Replay, Enable, Pause, Commanded, MinutePasses, Session
    <3>2. g'.at = g.at
      BY <1>1, <2>3 DEF Replay, Quiet, Enable, Pause, Commanded, MinutePasses, Session, GatewayOK
    <3> QED
      BY <1>3, <3>1, <3>2
  <2>4. ASSUME NEW v, NEW device, FromDevice(v, device) PROVE StoppedOK'
    <3>1. g'.at = g.at
      BY <1>1, <2>4 DEF FromDevice, GatewayOK
    <3>2. mq'.client = mq.client /\ mq'.connected = mq.connected
      BY <1>5, <2>4 DEF FromDevice, SendRemote
    <3> QED
      BY <1>2, <3>1, <3>2 DEF ClientStays
  <2>5. ASSUME NEW m, Publishes(m) PROVE mq' = mq /\ g' = g
    BY <2>5 DEF Publishes
  <2>6. CASE \/ \E t \in {"status", "network"} : SomeoneClears(t)
             \/ \E value \in {"on", "off"} : SomeoneSays(value)
             \/ PeerConnects \/ PeerLists \/ PeerDevice \/ PeerLost \/ PeerReboots \/ LateWill
    <3>1. mq' = mq /\ g' = g
      BY <2>5, <2>6, OthersPublish
    <3> QED
      BY <1>3, <3>1
  <2>7. Device => (\E from, to : Session(from, to)) \/ \E v, device : FromDevice(v, device)
    BY DEF Device
  <2> QED
    BY <1>8, <2>1, <2>2, <2>3, <2>4, <2>6, <2>7, Zenon DEF Environment
<1>9. CASE UNCHANGED vars
  BY <1>3, <1>9 DEF vars
<1> QED
  BY <1>6, <1>7, <1>8, <1>9 DEF Next

LEMMA RecoverySteps ==
    ASSUME IInv, LinkOK, RecoveryOK, [Next]_vars
    PROVE  RecoveryOK'
<1>1. GatewayTypeOK /\ ToldOK /\ Settled(g.peer) /\ StoppedOK
  BY DEF IInv, RecoveryOK
<1>2. StoppedOK'
  BY <1>1, ClientSteps
<1>3. ASSUME ToldOK', g'.peer = g.peer PROVE RecoveryOK'
  BY <1>1, <1>2, <1>3 DEF RecoveryOK, Settled
<1>4. CASE Untold
  BY <1>1, <1>3, <1>4, UntoldStays DEF Untold
<1>5. CASE DrainInbound
  <2>1. ToldOK' /\ Settled(g'.peer)
    BY <1>1, <1>5, HearingTold
  <2> QED
    BY <1>2, <2>1 DEF RecoveryOK, Settled
<1>6. CASE \/ \E t \in {"status", "network"} : SomeoneClears(t)
           \/ \E value \in {"on", "off"} : SomeoneSays(value)
           \/ PeerConnects \/ PeerLists \/ PeerDevice \/ PeerLost \/ PeerReboots \/ LateWill
  <2>1. CASE UNCHANGED <<mq, pub, wire, g, inbound, b, seen>>
    BY <1>4, <2>1 DEF Untold
  <2>2. CASE \E m \in Inbound : Publishes(m)
    <3>1. ToldOK' /\ g' = g
      BY <1>1, <2>2, PublishedTold DEF Publishes
    <3> QED
      BY <1>3, <3>1
  <2> QED
    BY <1>1, <1>6, <2>1, <2>2, OthersPublish
<1>7. CASE BrokerTakes \/ \E t \in b.replay : Replay(t)
  <2>1. ToldOK'
    BY <1>1, <1>7, TakenTold, ReplayTold
  <2>2. g' = g
    BY <1>7 DEF BrokerTakes, Replay, Quiet
  <2> QED
    BY <1>3, <2>1, <2>2
<1>8. CASE PublisherTask \/ (GatewayTask /\ ~DrainInbound)
  BY <1>1, <1>4, <1>8, TasksUntold
<1>9. CASE \/ Connects \/ ConnectionLost \/ Expires
           \/ (\E on \in BOOLEAN : Enable(on) \/ Pause(on)) \/ MinutePasses \/ Device
           \/ UNCHANGED vars
  BY <1>1, <1>4, <1>9, OtherUntold
<1> QED
  BY <1>5, <1>6, <1>7, <1>8, <1>9, Zenon DEF Next, Environment

LEMMA RecoveryInitially == Init => RecoveryOK
<1> SUFFICES ASSUME Init PROVE RecoveryOK
  OBVIOUS
<1>1. /\ b.subscribed = FALSE /\ g.peer = Recovery!Unknown /\ g.at \in {"wait", "run"}
      /\ mq.connected = FALSE
  BY Begins DEF Beginning, ClientInit
<1>2. Settled(g.peer)
  BY <1>1, GatewayAssumption DEF Settled, Recovery!Unknown
<1> QED
  BY <1>1, <1>2 DEF RecoveryOK, ToldOK, StoppedOK

\* Once all is heard of the other gateway, its end and its clients are known.
LEMMA RecoveryImplied == GatewayTypeOK /\ RecoveryOK => NoneForgotten
<1> SUFFICES ASSUME GatewayTypeOK, RecoveryOK, Informed, NEW n \in {1, 2}, Ended(n),
                    g.peer.generation \in {None, n}
             PROVE  g.peer.applied
  BY DEF NoneForgotten
<1>1. ASSUME NEW t \in Peers, b[t] # None PROVE Reflected(t, g.peer, b[t])
  <2>1. t \notin b.replay /\ NothingOf(inbound, t)
    BY DEF Informed, NothingOf
  <2>2. ~LastOf(inbound, t, b[t])
    BY <2>1 DEF LastOf, NothingOf, Message
  <2>3. Told(t)
    BY DEF RecoveryOK, ToldOK, Informed
  <2> QED
    BY <1>1, <2>1, <2>2, <2>3 DEF Told
<1>2. PICK s \in {"gone", "named"} : b.peer = <<n, FALSE>> /\ b.peerClients = <<n, s>>
  BY DEF Ended
<1>3. n \in Nat /\ b.peer # None /\ b.peerClients # None
  <2>0. n \in Nat
    OBVIOUS
  <2>1. <<n, FALSE>> \in Nat \X BOOLEAN /\ <<n, s>> \in Nat \X {"gone", "named"}
    BY <2>0
  <2> QED
    BY <1>2, <2>0, <2>1, GatewayAssumption
<1>4. Reflected("peer", g.peer, <<n, FALSE>>) /\ Reflected("peerClients", g.peer, <<n, s>>)
  BY <1>1, <1>2, <1>3 DEF Peers
<1>5. g.peer.offline = n /\ g.peer.snapshot = n
  BY <1>4 DEF Reflected
<1> QED
  BY <1>3, <1>5 DEF RecoveryOK, Settled

-------------------------------------------------------------------------------
(* The truth goes first: once a session is subscribed, or asks to be, what the     *)
(* device said here last is on its way, or the broker has it from this gateway.    *)

Has(s, m) == \E i \in DOMAIN s : s[i] = m
Word(v) == Message("device", v)

On(v) == OnItsWay(Word(v)) \/ b.by = "us"
Asks == b.subscribed \/ Has(wire, All)
InSetup == pub.same /\ pub.at \in {"vault", "own", "subscribe"}
Excused == seen.lost \/ seen.hasty

\* The setup of a session has the vault to publish, or it is on; and it is, once the
\* session asks for the subscription.
Said ==
    /\ InSetup => Has(pub.todo, Word(g.vault.value)) \/ On(g.vault.value)
    /\ Asks => On(g.vault.value)

\* A session that waits for its setup asks for nothing unless a subscription was hasty.
FirstOK ==
    /\ mq.pending => ~pub.same
    /\ mq.connected /\ mq.pending /\ Asks => seen.hasty
    /\ "device" \in b.replay => b.subscribed /\ b.by = "them"
    /\ mq.connected /\ seen.latest /\ Local /\ ~Excused => Said

LEMMA SaidAnew ==
    ASSUME NEW v, g'.vault.value = v,
           InSetup' => Has(pub'.todo, Word(v)) \/ On(v)', Asks' => On(v)'
    PROVE  Said'
BY DEF Said, On, OnItsWay, Has, Word

LEMMA HasAppend ==
    ASSUME NEW S, NEW s \in Seq(S), NEW x, NEW m
    PROVE  /\ Has(s, m) => Has(Append(s, x), m)
           /\ Has(Append(s, x), m) => Has(s, m) \/ x = m
           /\ x = m => Has(Append(s, x), m)
<1> DEFINE r == Append(s, x)
<1>1. /\ Len(s) \in Nat /\ DOMAIN s = 1 .. Len(s) /\ DOMAIN r = 1 .. Len(s) + 1
      /\ \A k \in 1 .. Len(s) : r[k] = s[k]
      /\ r[Len(s) + 1] = x /\ Len(s) + 1 \in DOMAIN r
      /\ \A k \in DOMAIN r : k \in 1 .. Len(s) \/ k = Len(s) + 1
      /\ \A k \in 1 .. Len(s) : k \in DOMAIN r
  OBVIOUS
<1> HIDE DEF r
<1>2. Has(s, m) => Has(r, m)
  BY <1>1 DEF Has
<1>3. Has(r, m) => Has(s, m) \/ x = m
  BY <1>1, Zenon DEF Has
<1>4. x = m => Has(r, m)
  BY <1>1, Zenon DEF Has
<1> QED
  BY <1>2, <1>3, <1>4 DEF r

LEMMA HasTail ==
    ASSUME NEW S, NEW s \in Seq(S), s # <<>>, NEW m
    PROVE  /\ Has(s, m) => Head(s) = m \/ Has(Tail(s), m)
           /\ Has(Tail(s), m) => Has(s, m)
<1> DEFINE r == Tail(s)
<1>1. /\ 1 \in DOMAIN s /\ Head(s) = s[1]
      /\ \A j \in DOMAIN r : j + 1 \in DOMAIN s /\ r[j] = s[j + 1]
      /\ \A i \in DOMAIN s : i # 1 => i - 1 \in DOMAIN r /\ r[i - 1] = s[i]
  BY TailFacts
<1> HIDE DEF r
<1>2. Has(s, m) => Head(s) = m \/ Has(r, m)
  BY <1>1, Zenon DEF Has
<1>3. Has(r, m) => Has(s, m)
  BY <1>1, Zenon DEF Has
<1> QED
  BY <1>2, <1>3 DEF r

LEMMA WordFacts ==
    /\ \A m : ~Has(<<>>, m)
    /\ \A v \in {"on", "off"} : Word(v) # None /\ Word(v) # All /\ Word(v).topic = "device"
    /\ \A t \in {"status", "network", "clients"} : \A v, w : Message(t, v) # Word(w)
BY GatewayAssumption DEF Has, Word, All, Message

\* What most steps do: no new session, nothing new of the device, and what is on stays on.
Carried(v) ==
    /\ On(v) => On(v)' \/ seen'.lost
    /\ InSetup' /\ Has(pub.todo, Word(v)) => Has(pub'.todo, Word(v)) \/ On(v)' \/ seen'.lost
Calm ==
    /\ mq'.connected => mq.connected
    /\ mq'.pending = mq.pending /\ pub'.same = pub.same
    /\ seen.hasty => seen'.hasty
    /\ seen.lost => seen'.lost
    /\ Local' /\ seen'.latest => Local /\ seen.latest /\ g'.vault.value = g.vault.value
    /\ mq'.connected => /\ Asks' => Asks
                        /\ InSetup' => InSetup
                        /\ seen'.latest => \A v \in {"on", "off"} : Carried(v)
    /\ "device" \in b'.replay => b'.subscribed /\ b'.by = "them"

LEMMA CalmStays ==
    ASSUME GatewayOK, FirstOK, Calm
    PROVE  FirstOK'
<1>1. /\ mq'.pending => ~pub'.same
      /\ mq'.connected /\ mq'.pending /\ Asks' => seen'.hasty
      /\ "device" \in b'.replay => b'.subscribed /\ b'.by = "them"
  BY DEF FirstOK, Calm
<1>2. ASSUME mq'.connected, seen'.latest, Local', ~Excused'
      PROVE  Said'
  <2>1. PICK v \in {"on", "off"} : v = g.vault.value
    BY <1>2 DEF Calm, GatewayOK, Local, OwnedHere, Entry
  <2>2. /\ mq.connected /\ seen.latest /\ Local /\ ~Excused /\ ~seen'.lost
        /\ g'.vault.value = v /\ Carried(v)
        /\ (Asks' => Asks) /\ (InSetup' => InSetup)
    BY <1>2, <2>1 DEF Calm, Excused
  <2>3. (InSetup => Has(pub.todo, Word(v)) \/ On(v)) /\ (Asks => On(v))
    BY <2>1, <2>2 DEF FirstOK, Said
  <2>4. /\ InSetup' => Has(pub'.todo, Word(v)) \/ On(v)'
        /\ Asks' => On(v)'
    BY <2>2, <2>3 DEF Carried
  <2> QED
    BY <2>2, <2>4, SaidAnew
<1> QED
  BY <1>1, <1>2 DEF FirstOK

\* The steps that touch neither the client nor what is on its way.
Aside ==
    /\ mq' = mq /\ pub' = pub /\ wire' = wire
    /\ b'.subscribed = b.subscribed
    /\ seen'.hasty = seen.hasty /\ seen'.lost = seen.lost
    /\ seen'.latest => seen.latest /\ b'.by = b.by
    /\ g'.vault = g.vault \/ ~Local'
    /\ "device" \in b'.replay => "device" \in b.replay /\ b'.by = b.by

LEMMA AsideIsCalm == FirstOK /\ Aside => Calm
<1> SUFFICES ASSUME FirstOK, Aside PROVE Calm
  OBVIOUS
<1>1. (Asks' <=> Asks) /\ (InSetup' <=> InSetup)
  BY DEF Aside, Asks, InSetup, Has
<1>2. ASSUME seen'.latest, NEW v \in {"on", "off"} PROVE Carried(v)
  BY <1>2 DEF Aside, Carried, On, OnItsWay, Has
<1>3. Local' => Local /\ g'.vault.value = g.vault.value
  BY DEF Aside, Local
<1> QED
  BY <1>1, <1>2, <1>3 DEF Aside, Calm, FirstOK

LEMMA PublishedIsAside ==
    ASSUME GatewayTypeOK, NEW m \in Inbound, Publishes(m)
    PROVE  Aside
<1>1. BrokerOK /\ seen \in History /\ m.topic \in {"device", "status", "network", "peer", "peerClients"}
  BY DEF GatewayTypeOK, AroundOK, Inbound, Document
<1>2. mq' = mq /\ pub' = pub /\ wire' = wire /\ g' = g
  BY DEF Publishes
<1>3. /\ seen'.hasty = seen.hasty /\ seen'.lost = seen.lost
      /\ seen'.latest => seen.latest /\ m.topic # "device"
  BY <1>1 DEF Publishes, History
<1>4. CASE m.topic = "device"
  <2>1. b' = [b EXCEPT !.device = m.value, !.by = "them", !.replay = @ \ {"device"}]
    BY <1>4 DEF Publishes, Retain
  <2>2. b'.subscribed = b.subscribed /\ "device" \notin b'.replay
    BY <1>1, <2>1 DEF BrokerOK
  <2> QED
    BY <1>2, <1>3, <1>4, <2>2 DEF Aside
<1>5. ASSUME NEW u \in {"status", "network", "peer", "peerClients"}, m.topic = u PROVE Aside
  <2> DEFINE w == Missed(m)
  <2>1. b' = [b EXCEPT ![u] = m.value, !.replay = @ \ {u}, !.missed = w]
    BY <1>5 DEF Publishes, Retain
  <2> HIDE DEF w
  <2>2. b'.subscribed = b.subscribed /\ b'.by = b.by /\ b'.replay \subseteq b.replay
    BY <1>1, <2>1 DEF BrokerOK
  <2> QED
    BY <1>2, <1>3, <2>2 DEF Aside
<1> QED
  BY <1>1, <1>4, <1>5

LEMMA MuchIsAside ==
    ASSUME GatewayTypeOK,
           \/ StartEspNow \/ StopServices \/ Discard \/ StartAgain \/ PauseOrResume \/ RefreshSnapshot
           \/ DrainInbound
           \/ (\E t \in b.replay : Replay(t))
           \/ (\E on \in BOOLEAN : Enable(on) \/ Pause(on)) \/ MinutePasses
           \/ (\E from, to : Session(from, to))
           \/ UNCHANGED <<mq, pub, wire, g, inbound, b, seen>>
    PROVE  Aside
<1>1. CASE DrainInbound
  <2>1. Elsewhere
    BY <1>1, HearingIsElsewhere
  <2>2. b' = b
    BY <1>1, Taken
  <2>3. seen'.hasty = seen.hasty /\ seen'.latest = seen.latest
    <3>1. seen \in History /\ OnMessage(Head(inbound)) /\ Head(inbound) \in Inbound
      BY <1>1, Taken DEF GatewayTypeOK, AroundOK
    <3> QED
      BY <3>1, Kinds DEF History
  <2> QED
    BY <2>1, <2>2, <2>3 DEF Elsewhere, Aside
<1>2. CASE \E t \in b.replay : Replay(t)
  <2>1. Elsewhere
    BY <1>2, CommandIsElsewhere
  <2>2. b'.by = b.by /\ b'.replay \subseteq b.replay /\ seen' = seen
    <3>1. PICK t \in b.replay : Replay(t)
      BY <1>2
    <3> DEFINE w == Missed(Message(t, b[t]))
    <3>2. b' = [b EXCEPT !.replay = @ \ {t}, !.missed = w] /\ seen' = seen
      BY <3>1 DEF Replay, Quiet
    <3> HIDE DEF w
    <3> QED
      BY <3>2 DEF GatewayTypeOK, BrokerOK
  <2> QED
    BY <2>1, <2>2 DEF Elsewhere, Aside
<1>3. CASE UNCHANGED <<mq, pub, wire, g, inbound, b, seen>>
  BY <1>3 DEF Aside
<1>4. CASE \/ StartEspNow \/ StopServices \/ Discard \/ StartAgain \/ PauseOrResume \/ RefreshSnapshot
           \/ (\E on \in BOOLEAN : Enable(on) \/ Pause(on)) \/ MinutePasses
           \/ (\E from, to : Session(from, to))
  <2>1. Elsewhere
    BY <1>4, TaskIsElsewhere, CommandIsElsewhere, Zenon
  <2>2. b' = b /\ seen' = seen
    BY <1>4 DEF StartEspNow, StopServices, Discard, StartAgain, PauseOrResume, RefreshSnapshot, Outside,
                Enable, Pause, Commanded, MinutePasses, Session
  <2> QED
    BY <2>1, <2>2 DEF Elsewhere, Aside
<1> QED
  BY <1>1, <1>2, <1>3, <1>4

\* The queue, the connection and the subscription are as before, and more may be on the wire.
LEMMA OnStays ==
    ASSUME ClientOK, NEW v \in {"on", "off"},
           mq'.queue = mq.queue \/ \E m : mq'.queue = Append(mq.queue, m),
           pub'.hand = pub.hand, b' = b,
           wire' = wire \/ \E m : wire' = Append(wire, m)
    PROVE  On(v) => On(v)'
<1>1. mq.queue \in Queues /\ wire \in Wires
  BY DEF ClientOK, Client
<1>2. Has(mq.queue, Word(v)) => Has(mq'.queue, Word(v))
  <2>1. \A m : Has(mq.queue, Word(v)) => Has(Append(mq.queue, m), Word(v))
    BY <1>1, HasAppend DEF Queues
  <2> QED
    BY <2>1, Zenon
<1>3. Has(wire, Word(v)) => Has(wire', Word(v))
  <2>1. \A m : Has(wire, Word(v)) => Has(Append(wire, m), Word(v))
    BY <1>1, HasAppend DEF Wires
  <2> QED
    BY <2>1, Zenon
<1> QED
  BY <1>2, <1>3 DEF On, OnItsWay, Has

\* The gateway task starts the client, waits for the window, gives up on it, or publishes
\* through it; and what it projects is queued.
LEMMA TaskIsCalm ==
    ASSUME GatewayTypeOK, FirstOK,
           \/ StartMqtt \/ StopClaims \/ (\E x \in BOOLEAN : StopPublishes(x) \/ StopGivesUp(x))
           \/ ProjectClients \/ Reassert \/ ProjectNetwork
    PROVE  Calm
<1>1. ClientOK /\ mq \in Client /\ GatewayOK /\ wire \in Wires
  BY DEF GatewayTypeOK, ClientOK
<1>2. b' = b /\ seen' = seen /\ pub' = pub
  BY DEF StartMqtt, StopClaims, StopPublishes, StopGivesUp, ProjectClients, Reassert, ProjectNetwork,
         Projects, Outside
<1>3. g'.vault = g.vault
  BY <1>1 DEF StartMqtt, StopClaims, StopPublishes, StopGivesUp, ProjectClients, Reassert,
              ProjectNetwork, GatewayOK
<1>4. /\ mq'.connected = mq.connected /\ mq'.pending = mq.pending
      /\ mq'.queue = mq.queue \/ \E m : mq'.queue = Append(mq.queue, m)
      /\ wire' = wire \/ \E w : wire' = Append(wire, Message("status", w))
  <2>1. CASE StartMqtt \/ StopClaims \/ (\E x \in BOOLEAN : StopPublishes(x) \/ StopGivesUp(x))
    BY <1>1, <2>1 DEF StartMqtt, StartClient, StopClaims, StopPublishes, StopGivesUp, Claim, Publish,
                      GivesUp, Client
  <2>2. CASE ProjectClients \/ Reassert \/ ProjectNetwork
    BY <1>1, <2>2 DEF ProjectClients, Reassert, ProjectNetwork, Projects, Queue, Client
  <2> QED
    BY <2>1, <2>2
<1>5. Asks' => Asks
  <2>1. \A w : Message("status", w) # All
    BY DEF Message, All
  <2>3. \A w : Has(Append(wire, Message("status", w)), All) => Has(wire, All)
    BY <1>1, <2>1, HasAppend DEF Wires
  <2>2. Has(wire', All) => Has(wire, All)
    BY <1>4, <2>3
  <2> QED
    BY <1>2, <2>2 DEF Asks, Has
<1>6. ASSUME NEW v \in {"on", "off"} PROVE Carried(v)
  <2>1. On(v) => On(v)'
    BY <1>1, <1>2, <1>4, OnStays
  <2> QED
    BY <1>2, <2>1 DEF Carried
<1>7. InSetup' => InSetup
  BY <1>2 DEF InSetup
<1> QED
  BY <1>2, <1>3, <1>4, <1>5, <1>6, <1>7 DEF Calm, Local, FirstOK

\* Without a connection nothing is owed.
LEMMA CutIsCalm ==
    ASSUME GatewayTypeOK, FirstOK, ConnectionLost \/ GivesSessionUp \/ Halt
    PROVE  Calm
<1>1. mq \in Client /\ pub \in Publisher /\ GatewayOK /\ BrokerOK
  BY DEF GatewayTypeOK, ClientOK
<1>2. ~mq'.connected /\ mq'.pending = mq.pending /\ pub'.same = pub.same
  BY <1>1 DEF ConnectionLost, GivesSessionUp, Halt, Disconnected, DropConnection, StopClient, Client,
              Publisher
<1>3. seen' = seen /\ g'.vault = g.vault
  BY <1>1 DEF ConnectionLost, GivesSessionUp, Halt, Quiet, GatewayOK
<1>4. b' = b \/ b'.replay = {}
  BY <1>1 DEF ConnectionLost, GivesSessionUp, Halt, Unsubscribed, BrokerOK
<1> QED
  BY <1>2, <1>3, <1>4 DEF Calm, Local, FirstOK

\* What the publisher takes from its list goes to the wire; what it drops is noted.
LEMMA SendingIsCalm ==
    ASSUME GatewayTypeOK, SetupOK, FirstOK, PublisherSends \/ PublisherWaits
    PROVE  Calm
<1>1. /\ ClientOK /\ mq \in Client /\ pub \in Publisher /\ wire \in Wires
      /\ b' = b /\ seen' = seen /\ g' = g
  BY DEF GatewayTypeOK, ClientOK, PublisherSends, PublisherWaits, Around, Quiet
<1>2. CASE PublisherWaits
  <2>1. /\ mq'.connected = mq.connected /\ mq'.pending = mq.pending /\ mq'.queue = mq.queue
        /\ pub' = pub /\ wire' = wire
    BY <1>1, <1>2 DEF PublisherWaits, PublisherClaims, Claim, Client
  <2>2. \A v : Carried(v)
    BY <1>1, <2>1 DEF Carried, On, OnItsWay
  <2>3. (Asks' => Asks) /\ (InSetup' => InSetup)
    BY <1>1, <2>1 DEF Asks, InSetup, Has
  <2> QED
    BY <1>1, <2>1, <2>2, <2>3 DEF Calm, Local, FirstOK
<1>3. CASE PublisherSends
  <2>1. /\ mq'.connected = mq.connected /\ mq'.pending = mq.pending /\ mq'.queue = mq.queue
        /\ wire' = IF mq.connected THEN Append(wire, Outgoing) ELSE wire
        /\ Publishing
    BY <1>1, <1>3 DEF PublisherSends, PublisherPublishes, Publish, Client
  <2>2. Outgoing \in Outbound
    BY <1>1, <2>1, Sequences DEF Publishing, Outgoing, ClientOK, Publisher
  <2>3. Asks' => Asks
    <3>1. Has(wire', All) => Has(wire, All)
      BY <1>1, <2>1, <2>2, HasAppend, Subscription DEF Wires
    <3> QED
      BY <1>1, <3>1 DEF Asks, Has
  <2>4. CASE pub.at = "send"
    <3>1. pub'.at = "idle" /\ pub'.hand = None /\ pub'.same = pub.same
      BY <1>1, <1>3, <2>4 DEF PublisherSends, PublisherPublishes, Publisher
    <3>2. ~InSetup'
      BY <3>1 DEF InSetup
    <3>3. ASSUME mq'.connected, NEW v \in {"on", "off"} PROVE Carried(v)
      <4>1. wire' = Append(wire, pub.hand)
        BY <2>1, <2>4, <3>3 DEF Outgoing
      <4>2. /\ Has(wire, Word(v)) => Has(wire', Word(v))
            /\ pub.hand = Word(v) => Has(wire', Word(v))
        BY <1>1, <4>1, HasAppend DEF Wires
      <4>3. On(v) => On(v)'
        BY <1>1, <2>1, <4>2 DEF On, OnItsWay, Has
      <4> QED
        BY <3>2, <4>3 DEF Carried
    <3> QED
      BY <1>1, <2>1, <2>3, <3>1, <3>2, <3>3 DEF Calm, Local, FirstOK
  <2>5. CASE pub.at # "send"
    <3>1. /\ pub'.at = pub.at /\ pub'.hand = pub.hand /\ pub'.same = pub.same
          /\ pub'.todo = Tail(pub.todo) /\ pub.todo # <<>> /\ pub.todo \in Seq(Outbound)
          /\ Outgoing = Head(pub.todo)
      BY <1>1, <1>3, <2>1, <2>5 DEF PublisherSends, PublisherPublishes, Publishing, Outgoing, Publisher
    <3>2. InSetup' => InSetup
      BY <3>1 DEF InSetup
    <3>3. ASSUME mq'.connected, NEW v \in {"on", "off"} PROVE Carried(v)
      <4>1. wire' = Append(wire, Head(pub.todo))
        BY <2>1, <3>1, <3>3
      <4>2. /\ Has(wire, Word(v)) => Has(wire', Word(v))
            /\ Head(pub.todo) = Word(v) => Has(wire', Word(v))
        BY <1>1, <4>1, HasAppend DEF Wires
      <4>3. Has(pub.todo, Word(v)) => Head(pub.todo) = Word(v) \/ Has(pub'.todo, Word(v))
        BY <3>1, HasTail
      <4>4. On(v) => On(v)'
        BY <1>1, <2>1, <3>1, <4>2 DEF On, OnItsWay, Has
      <4>5. Has(wire', Word(v)) => On(v)'
        BY DEF On, OnItsWay, Has
      <4>6. Has(pub.todo, Word(v)) => Has(pub'.todo, Word(v)) \/ On(v)'
        BY <4>2, <4>3, <4>5
      <4> QED
        BY <4>4, <4>6 DEF Carried
    <3> QED
      BY <1>1, <2>1, <2>3, <3>1, <3>2, <3>3 DEF Calm, Local, FirstOK
  <2> QED
    BY <2>4, <2>5
<1> QED
  BY <1>2, <1>3

LEMMA OnwardKeeps ==
    ASSUME pub \in Publisher, pub' = Onward(pub)
    PROVE  /\ pub'.at \in {"idle", "send"} /\ pub'.same = pub.same
           /\ mq.connected => pub'.hand = pub.hand
BY DEF Onward, Publisher

LEMMA FailureIsCalm ==
    ASSUME GatewayTypeOK, SetupOK, FirstOK, PublisherRefused \/ PublisherLosesPatience
    PROVE  Calm
<1>1. /\ ClientOK /\ mq \in Client /\ pub \in Publisher /\ wire \in Wires /\ seen \in History
      /\ b' = b /\ g' = g
  BY DEF GatewayTypeOK, ClientOK, AroundOK, PublisherRefused, PublisherLosesPatience, Around
<1>2. /\ mq'.connected = mq.connected /\ mq'.pending = mq.pending /\ mq'.queue = mq.queue
      /\ wire' = wire
  BY <1>1 DEF PublisherRefused, PublisherLosesPatience, PublisherPublishes, PublisherGivesUp, Publish,
              GivesUp, Client
<1>3. Failed /\ Loses
  BY DEF PublisherRefused, PublisherLosesPatience, PublisherPublishes, PublisherGivesUp
<1>4. /\ seen'.hasty = seen.hasty /\ seen'.latest = seen.latest
      /\ seen'.lost <=> seen.lost \/ (pub.at = "send" /\ pub.hand.topic = "device")
  <2> DEFINE x == seen.lost \/ (pub.at = "send" /\ pub.hand.topic = "device")
  <2>1. x \in BOOLEAN /\ seen' = [seen EXCEPT !.lost = x]
    BY <1>3 DEF Loses
  <2> HIDE DEF x
  <2>2. seen'.hasty = seen.hasty /\ seen'.latest = seen.latest /\ seen'.lost = x
    BY <1>1, <2>1 DEF History
  <2> QED
    BY <2>2 DEF x
<1>5. /\ pub'.at \in {"idle", "send", "disconnect"} /\ pub'.same = pub.same
      /\ mq.connected /\ pub.at # "send" => pub'.hand = pub.hand
  <2>1. CASE pub.at = "send"
    BY <1>1, <1>3, <2>1 DEF Failed, Publisher
  <2>2. CASE pub.at # "send" /\ SameSession
    BY <1>1, <1>3, <2>2 DEF Failed, Publisher
  <2>3. CASE pub.at # "send" /\ ~SameSession
    <3>1. pub' = Onward(pub)
      BY <1>3, <2>3 DEF Failed
    <3> QED
      BY <1>1, <2>3, <3>1, OnwardKeeps
  <2> QED
    BY <2>1, <2>2, <2>3
<1>6. ~InSetup' /\ (Asks' => Asks)
  BY <1>1, <1>2, <1>5 DEF InSetup, Asks, Has
<1>7. ASSUME mq'.connected, NEW v \in {"on", "off"} PROVE Carried(v)
  <2>1. pub.hand = Word(v) /\ pub.at = "send" => seen'.lost
    BY <1>4, WordFacts
  <2>2. On(v) => On(v)' \/ seen'.lost
    BY <1>1, <1>2, <1>5, <1>7, <2>1 DEF On, OnItsWay, Word
  <2> QED
    BY <1>6, <2>2 DEF Carried
<1> QED
  BY <1>1, <1>2, <1>4, <1>5, <1>6, <1>7 DEF Calm, Local, FirstOK

\* The setup goes on once its list is empty.
LEMMA SetupIsCalm ==
    ASSUME GatewayTypeOK, SetupOK, FirstOK, SetupContinues \/ NotesOwn
    PROVE  Calm
<1>1. /\ ClientOK /\ mq \in Client /\ pub \in Publisher /\ GatewayOK
      /\ b' = b /\ seen' = seen /\ mq' = mq /\ wire' = wire /\ pub.todo = <<>>
      /\ pub.at \in {"vault", "own"}
  BY DEF GatewayTypeOK, ClientOK, SetupContinues, NotesOwn, Around, Quiet, VaultSent, OwnSent
<1>2. g'.vault = g.vault
  BY <1>1 DEF SetupContinues, NotesOwn, Quiet, GatewayOK
<1>3. pub'.same = pub.same /\ (mq.connected => pub'.hand = pub.hand)
  <2>1. CASE pub' = Onward(pub)
    BY <1>1, <2>1, OnwardKeeps
  <2>2. CASE pub' # Onward(pub)
    BY <1>1, <2>2 DEF SetupContinues, NotesOwn, VaultSent, OwnSent, Publisher
  <2> QED
    BY <2>1, <2>2
<1>4. InSetup' => InSetup
  BY <1>1, <1>3 DEF InSetup
<1>5. Asks' => Asks
  BY <1>1 DEF Asks, Has
<1>6. ASSUME mq'.connected, NEW v \in {"on", "off"} PROVE Carried(v)
  <2>1. ~Has(pub.todo, Word(v))
    BY <1>1, WordFacts
  <2>2. On(v) => On(v)'
    BY <1>1, <1>3, <1>6 DEF On, OnItsWay
  <2> QED
    BY <2>1, <2>2 DEF Carried
<1> QED
  BY <1>1, <1>2, <1>3, <1>4, <1>5, <1>6 DEF Calm, Local, FirstOK

\* What esp-mqtt gives up on is noted, and what the broker takes is retained.
LEMMA WireIsCalm ==
    ASSUME GatewayTypeOK, FirstOK, BrokerTakes \/ Expires
    PROVE  Calm
<1>1. /\ ClientOK /\ mq \in Client /\ wire \in Wires /\ wire # <<>> /\ wire' = Tail(wire)
      /\ BrokerOK /\ seen \in History /\ pub' = pub /\ g' = g
  BY DEF GatewayTypeOK, ClientOK, AroundOK, BrokerTakes, Expires, Quiet, Acknowledged, Deleted
<1>2. mq'.connected = mq.connected /\ mq'.pending = mq.pending /\ mq'.queue = mq.queue
  BY <1>1 DEF BrokerTakes, Expires, Acknowledged, Deleted, SlotReturns, Client
<1>3. /\ Has(wire', All) => Has(wire, All)
      /\ \A v : Has(wire, Word(v)) => Head(wire) = Word(v) \/ Has(wire', Word(v))
  BY <1>1, HasTail DEF Wires
<1>4. InSetup' => InSetup
  BY <1>1 DEF InSetup
<1>5. CASE Expires
  <2>1. b' = b
    BY <1>5 DEF Expires
  <2>2. /\ seen'.hasty = seen.hasty /\ seen'.latest = seen.latest
        /\ seen.lost => seen'.lost
        /\ Head(wire).topic = "device" => seen'.lost
    BY <1>1, <1>5 DEF Expires, History
  <2>3. Asks' => Asks
    BY <1>3, <2>1 DEF Asks, Has
  <2>4. ASSUME NEW v \in {"on", "off"} PROVE Carried(v)
    <3>1. Head(wire) = Word(v) => seen'.lost
      BY <2>2, WordFacts
    <3>2. On(v) => On(v)' \/ seen'.lost
      BY <1>1, <1>2, <1>3, <2>1, <3>1 DEF On, OnItsWay, Has
    <3> QED
      BY <1>1, <3>2 DEF Carried
  <2> QED
    BY <1>1, <1>2, <1>4, <2>1, <2>2, <2>3, <2>4 DEF Calm, Local, FirstOK
<1>6. CASE BrokerTakes /\ Head(wire) = All
  <2>1. Subscribed /\ seen' = seen
    BY <1>6 DEF BrokerTakes, Quiet
  <2>2. b'.subscribed /\ b'.by = b.by /\ ("device" \in b'.replay => b.by = "them")
    BY <1>1, <2>1 DEF Subscribed, BrokerOK, Peers
  <2>3. Asks
    BY <1>1, <1>6, TailFacts DEF Asks, Has, Wires
  <2>4. ASSUME NEW v \in {"on", "off"} PROVE Carried(v)
    <3>1. Head(wire) # Word(v)
      BY <1>6, WordFacts
    <3>2. On(v) => On(v)'
      BY <1>1, <1>2, <1>3, <2>2, <3>1 DEF On, OnItsWay, Has
    <3> QED
      BY <1>1, <3>2 DEF Carried
  <2> QED
    BY <1>1, <1>2, <1>4, <2>1, <2>2, <2>3, <2>4 DEF Calm, Local
<1>7. CASE BrokerTakes /\ Head(wire) # All
  <2> DEFINE m == Head(wire)
  <2>1. m \in Outbound /\ Retain(m, "us", b.missed) /\ seen' = seen
    BY <1>1, <1>7, Sequences DEF BrokerTakes, Quiet
  <2>2. m.topic \in {"status", "network", "clients", "device"}
    BY <2>1 DEF Outbound, Document
  <2> HIDE DEF m
  <2>3. /\ b'.subscribed = b.subscribed /\ b'.replay \subseteq b.replay
        /\ m.topic = "device" => b'.by = "us" /\ "device" \notin b'.replay
        /\ m.topic # "device" => b'.by = b.by
    <3>1. CASE m.topic = "device"
      <4>1. b' = [b EXCEPT !.device = m.value, !.by = "us", !.replay = @ \ {"device"}]
        BY <2>1, <3>1 DEF Retain
      <4> QED
        BY <1>1, <3>1, <4>1 DEF BrokerOK
    <3>2. ASSUME NEW u \in {"status", "network", "clients"}, m.topic = u
          PROVE  /\ b'.subscribed = b.subscribed /\ b'.replay \subseteq b.replay /\ b'.by = b.by
                 /\ m.topic # "device"
      <4>1. b' = [b EXCEPT ![u] = m.value, !.replay = @ \ {u}, !.missed = b.missed]
        BY <2>1, <3>2 DEF Retain
      <4> QED
        BY <1>1, <3>2, <4>1 DEF BrokerOK
    <3> QED
      BY <2>2, <3>1, <3>2
  <2>4. Asks' => Asks
    BY <1>3, <2>3 DEF Asks, Has
  <2>5. ASSUME NEW v \in {"on", "off"} PROVE Carried(v)
    <3>1. m = Word(v) => m.topic = "device"
      BY WordFacts
    <3>2. CASE m.topic = "device"
      BY <1>1, <2>3, <3>2 DEF Carried, On
    <3>3. CASE m.topic # "device"
      <4>1. Has(wire, Word(v)) => Has(wire', Word(v))
        BY <1>3, <3>1, <3>3 DEF m
      <4>2. On(v) => On(v)'
        BY <1>1, <1>2, <2>3, <3>3, <4>1 DEF On, OnItsWay, Has
      <4> QED
        BY <1>1, <4>2 DEF Carried
    <3> QED
      BY <3>2, <3>3
  <2>6. "device" \in b'.replay => b'.subscribed /\ b'.by = "them"
    BY <2>3 DEF FirstOK
  <2> QED
    BY <1>1, <1>2, <1>4, <2>1, <2>3, <2>4, <2>5, <2>6 DEF Calm, Local
<1> QED
  BY <1>5, <1>6, <1>7

\* The next of the queue is in hand; a setup has the vault to publish.
LEMMA TakesNextFirst ==
    ASSUME GatewayTypeOK, SetupOK, LinkOK, FirstOK, TakesNext
    PROVE  FirstOK'
<1> DEFINE q == mq.queue
           p == [pub EXCEPT !.hand = Head(q)]
<1>1. /\ ClientOK /\ mq \in Client /\ pub \in Publisher /\ q \in Queues /\ q # <<>> /\ GatewayOK
      /\ seen \in History /\ b' = b /\ g' = g /\ wire' = wire /\ pub.at = "idle" /\ pub.hand = None
  BY DEF GatewayTypeOK, ClientOK, AroundOK, Client, TakesNext, TakeNext, Around, SetupOK
<1>2. /\ mq'.connected = mq.connected /\ mq'.queue = Tail(q)
      /\ mq'.pending = FALSE
  BY <1>1 DEF TakesNext, TakeNext, SetupDue, Client
<1>3. seen'.hasty = seen.hasty /\ seen'.latest = seen.latest /\ (pub'.at # "vault" => seen'.lost = seen.lost)
  BY <1>1 DEF TakesNext, History
<1>4. ASSUME NEW v \in {"on", "off"}
      PROVE  Has(q, Word(v)) => Head(q) = Word(v) \/ Has(mq'.queue, Word(v))
  BY <1>1, <1>2, HasTail DEF Queues
<1>5. Asks' <=> Asks
  BY <1>1 DEF Asks, Has
<1>6. "device" \in b'.replay => b'.subscribed /\ b'.by = "them"
  BY <1>1 DEF FirstOK
<1>7. ASSUME mq'.connected, seen'.latest, Local', ~Excused'
      PROVE  Said'
  <2>1. PICK v \in {"on", "off"} : v = g.vault.value
    BY <1>1, <1>7 DEF GatewayOK, Local, OwnedHere, Entry
  <2>2. g'.vault.value = v /\ Local /\ mq.connected /\ seen.latest /\ ~seen.hasty
    BY <1>1, <1>2, <1>3, <1>7, <2>1 DEF Local, Excused
  <2>3. CASE mq.pending
    <3>1. pub' = [p EXCEPT !.at = "vault", !.todo = VaultDocuments, !.same = TRUE]
      BY <2>3 DEF TakesNext, TakeNext, SetupDue
    <3>2. pub'.todo = VaultDocuments
      BY <1>1, <3>1 DEF Publisher
    <3>3. VaultDocuments = <<Word(v)>>
      BY <2>1, <2>2 DEF VaultDocuments, Local, Word
    <3>4. Has(pub'.todo, Word(v))
      BY <3>2, <3>3 DEF Has
    <3>5. ~Asks
      BY <2>2, <2>3 DEF FirstOK
    <3> QED
      BY <1>5, <2>2, <3>4, <3>5, SaidAnew
  <2>4. CASE ~mq.pending
    <3>1. pub' = Onward(p)
      BY <2>4 DEF TakesNext, TakeNext, SetupDue
    <3>2. pub'.at \in {"idle", "send"} /\ pub'.hand = Head(q)
      BY <1>1, <2>2, <3>1 DEF Onward, Publisher
    <3>3. ~seen.lost /\ ~InSetup'
      BY <1>3, <1>7, <3>2 DEF Excused, InSetup
    <3>4. Asks => On(v)
      BY <2>1, <2>2, <3>3 DEF FirstOK, Excused, Said
    <3>5. Has(q, Word(v)) => On(v)'
      BY <1>4, <3>2 DEF On, OnItsWay, Has, Word
    <3>6. pub.hand # Word(v)
      BY <1>1, WordFacts
    <3>7. On(v) => On(v)'
      BY <1>1, <3>5, <3>6 DEF On, OnItsWay, Has, Word
    <3> QED
      BY <1>5, <2>2, <3>3, <3>4, <3>7, SaidAnew
  <2> QED
    BY <2>3, <2>4
<1> QED
  BY <1>2, <1>6, <1>7 DEF FirstOK

\* A session subscribes after its own setup, or is noted to have been hasty.
LEMMA SubscribesFirst ==
    ASSUME GatewayTypeOK, SetupOK, FirstOK, Subscribes
    PROVE  FirstOK'
<1>1. /\ ClientOK /\ pub \in Publisher /\ wire \in Wires /\ GatewayOK /\ seen \in History
      /\ b' = b /\ g' = g /\ mq' = mq /\ pub' = Onward(pub) /\ pub.at = "subscribe" /\ pub.todo = <<>>
      /\ wire' = IF mq.connected THEN Append(wire, All) ELSE wire
  BY DEF GatewayTypeOK, ClientOK, AroundOK, Subscribes, SubscribeToEverything, Around, SetupOK
<1>2. /\ seen'.lost = seen.lost /\ seen'.latest = seen.latest
      /\ seen.hasty => seen'.hasty
      /\ mq.connected /\ ~pub.same => seen'.hasty
  BY <1>1 DEF Subscribes, History
<1>3. /\ pub'.at \in {"idle", "send"} /\ pub'.same = pub.same
      /\ mq.connected => pub'.hand = pub.hand
  BY <1>1, OnwardKeeps
<1>4. "device" \in b'.replay => b'.subscribed /\ b'.by = "them"
  BY <1>1 DEF FirstOK
<1>5. mq'.pending => ~pub'.same
  BY <1>1, <1>3 DEF FirstOK
<1>6. mq'.connected /\ mq'.pending => seen'.hasty
  BY <1>1, <1>2 DEF FirstOK
<1>7. ASSUME mq'.connected, seen'.latest, Local', ~Excused'
      PROVE  Said'
  <2>1. PICK v \in {"on", "off"} : v = g.vault.value
    BY <1>1, <1>7 DEF GatewayOK, Local, OwnedHere, Entry
  <2>2. g'.vault.value = v /\ Local /\ mq.connected /\ seen.latest /\ ~Excused /\ pub.same
    BY <1>1, <1>2, <1>7, <2>1 DEF Local, Excused
  <2>3. InSetup /\ ~Has(pub.todo, Word(v))
    BY <1>1, <2>2, WordFacts DEF InSetup
  <2>4. On(v)
    BY <2>1, <2>2, <2>3 DEF FirstOK, Said
  <2>5. On(v)'
    BY <1>1, <1>3, <2>2, <2>4, OnStays
  <2> QED
    BY <2>2, <2>5, SaidAnew
<1> QED
  BY <1>4, <1>5, <1>6, <1>7 DEF FirstOK

\* A new session waits for its setup, and what the device says is queued or noted as lost.
LEMMA ConnectsFirst ==
    ASSUME GatewayTypeOK, LinkOK, FirstOK, Connects
    PROVE  FirstOK'
<1>1. /\ mq \in Client /\ pub \in Publisher /\ ~mq.connected /\ b' = b /\ wire' = <<>>
      /\ pub'.same = FALSE
  BY DEF GatewayTypeOK, ClientOK, Connects, Connected, Publisher
<1>2. ~Asks' /\ ~InSetup'
  BY <1>1, WordFacts DEF LinkOK, Asks, InSetup, Has
<1>3. Said'
  BY <1>2 DEF Said
<1> QED
  BY <1>1, <1>2, <1>3 DEF FirstOK

LEMMA DeviceFirst ==
    ASSUME GatewayTypeOK, FirstOK, NEW v \in {"on", "off"}, NEW device, FromDevice(v, device)
    PROVE  FirstOK'
<1>1. /\ mq \in Client /\ mq.queue \in Queues /\ GatewayOK /\ seen \in History
      /\ pub' = pub /\ wire' = wire /\ b' = b /\ SendRemote(Word(v))
  BY DEF GatewayTypeOK, ClientOK, Client, AroundOK, FromDevice, Word
<1>2. mq'.connected = mq.connected /\ mq'.pending = mq.pending
  BY <1>1 DEF SendRemote, Queue, Client
<1>3. seen'.hasty = seen.hasty /\ (mq.connected /\ ~HasRoom => seen'.lost)
  BY <1>1 DEF SendRemote, History
<1>4. Local' => g'.vault.value = v
  <2>1. g' = [g EXCEPT !.vault = Vault(v, "local"), !.device = device]
    BY DEF FromDevice
  <2>2. g'.vault = Vault(v, "local")
    BY <1>1, <2>1 DEF GatewayOK
  <2> QED
    BY <2>2 DEF Vault, Local, OwnedHere
<1>5. (Asks' <=> Asks) /\ ("device" \in b'.replay => b'.subscribed /\ b'.by = "them")
  BY <1>1 DEF Asks, Has, FirstOK
<1>6. ASSUME mq'.connected, ~Excused' PROVE On(v)'
  <2>1. mq'.queue = Append(mq.queue, Word(v))
    BY <1>1, <1>2, <1>3, <1>6 DEF SendRemote, Queue, Client, Excused
  <2>2. Has(mq'.queue, Word(v))
    BY <1>1, <2>1, HasAppend DEF Queues
  <2> QED
    BY <2>2 DEF On, OnItsWay, Has
<1>7. ASSUME mq'.connected, Local', ~Excused' PROVE Said'
  BY <1>4, <1>6, <1>7, SaidAnew
<1>8. ~seen.hasty <=> ~seen'.hasty
  BY <1>3
<1> QED
  BY <1>1, <1>2, <1>5, <1>7, <1>8 DEF FirstOK

LEMMA FirstSteps ==
    ASSUME GatewayTypeOK, SetupOK, LinkOK, FirstOK, [Next]_vars
    PROVE  FirstOK'
<1>1. Aside \/ Calm => FirstOK'
  BY AsideIsCalm, CalmStays DEF GatewayTypeOK
<1>2. CASE PublisherTask
  BY <1>1, <1>2, TakesNextFirst, SendingIsCalm, FailureIsCalm, SetupIsCalm, SubscribesFirst, CutIsCalm,
     Zenon DEF PublisherTask
<1>3. CASE GatewayTask
  <2>1. StopRefused => \E x \in BOOLEAN : StopPublishes(x) \/ StopGivesUp(x)
    BY DEF StopRefused
  <2>2. StopPublishes(TRUE) => \E x \in BOOLEAN : StopPublishes(x) \/ StopGivesUp(x)
    OBVIOUS
  <2> QED
    BY <1>1, <1>3, <2>1, <2>2, MuchIsAside, TaskIsCalm, CutIsCalm, Zenon DEF GatewayTask
<1>4. CASE Environment
  <2>1. Device => (\E from, to : Session(from, to)) \/ \E v \in {"on", "off"} : \E device : FromDevice(v, device)
    BY DEF Device
  <2>2. Device => FirstOK'
    BY <1>1, <2>1, MuchIsAside, DeviceFirst, Zenon
  <2>3. BrokerTakes \/ Connects \/ ConnectionLost \/ Expires => FirstOK'
    BY <1>1, WireIsCalm, ConnectsFirst, CutIsCalm, Zenon
  <2>4. (\E t \in b.replay : Replay(t)) \/ (\E on \in BOOLEAN : Enable(on) \/ Pause(on)) \/ MinutePasses
        => FirstOK'
    BY <1>1, MuchIsAside, Zenon
  <2>5. \/ \E t \in {"status", "network"} : SomeoneClears(t)
        \/ \E value \in {"on", "off"} : SomeoneSays(value)
        \/ PeerConnects \/ PeerLists \/ PeerDevice \/ PeerLost \/ PeerReboots \/ LateWill
        => FirstOK'
    <3>1. (\E m \in Inbound : Publishes(m)) \/ UNCHANGED <<mq, pub, wire, g, inbound, b, seen>> => FirstOK'
      BY <1>1, MuchIsAside, PublishedIsAside, Zenon
    <3> QED
      BY <3>1, OthersPublish, Zenon
  <2> QED
    BY <1>4, <2>2, <2>3, <2>4, <2>5, Zenon DEF Environment
<1>5. CASE UNCHANGED vars
  <2>1. UNCHANGED <<mq, pub, wire, g, inbound, b, seen>>
    BY <1>5 DEF vars
  <2> QED
    BY <1>1, <2>1, MuchIsAside
<1> QED
  BY <1>2, <1>3, <1>4, <1>5 DEF Next

LEMMA FirstInitially == Init => FirstOK
<1> SUFFICES ASSUME Init PROVE FirstOK
  OBVIOUS
<1>1. /\ mq.connected = FALSE /\ mq.pending = FALSE /\ b.replay = {}
  BY Begins DEF Beginning, ClientInit
<1> QED
  BY <1>1 DEF FirstOK

LEMMA FirstImplied == GatewayTypeOK /\ LinkOK /\ FirstOK => TruthGoesFirst
<1> SUFFICES ASSUME GatewayTypeOK, LinkOK, FirstOK, "device" \in b.replay, seen.latest,
                    OwnedHere(g.vault), ~seen.lost, ~seen.hasty
             PROVE  OnItsWay(Message("device", g.vault.value))
  BY DEF TruthGoesFirst
<1>1. b.subscribed /\ b.by = "them" /\ mq.connected /\ Asks
  BY DEF FirstOK, LinkOK, Asks
<1>2. On(g.vault.value)
  BY <1>1 DEF FirstOK, Said, Local, Excused
<1> QED
  BY <1>1, <1>2 DEF On, Word

-------------------------------------------------------------------------------
(* The theorems.                                                                 *)

\* Every step keeps the invariant; and what every step does.
LEMMA Steps ==
    ASSUME IInv, [Next]_vars
    PROVE  /\ IInv'
           /\ DrainInbound \/ Unheard
<1>1. GatewayTypeOK /\ HeardOK
  BY DEF IInv
<1>2. ASSUME Unheard PROVE HeardOK'
  BY <1>1, <1>2 DEF Unheard, HeardOK
<1>3. CASE PublisherTask
  <2>1. inbound' = inbound
    BY <1>3 DEF PublisherTask, TakesNext, PublisherSends, PublisherRefused, PublisherWaits,
                PublisherLosesPatience, SetupContinues, Subscribes, NotesOwn, GivesSessionUp, Around
  <2> QED
    BY <1>1, <1>2, <1>3, <2>1, PublisherTypes, PublisherSteps DEF IInv, GatewayTypeOK
<1>4. CASE GatewayTask /\ ~DrainInbound
  BY <1>1, <1>2, <1>4, TaskClient, TaskSteps DEF IInv, GatewayTypeOK
<1>5. CASE GatewayTask /\ DrainInbound
  <2>1. BrokerOK'
    BY <1>1, <1>5, Taken DEF BrokerOK, GatewayTypeOK
  <2> QED
    BY <1>1, <1>5, <2>1, TaskClient, Heard DEF IInv, GatewayTypeOK, Hears
<1>6. CASE Environment
  BY <1>1, <1>2, <1>6, BrokerSteps, OtherSteps, DeviceSteps DEF Environment, IInv
<1>7. CASE UNCHANGED vars
  BY <1>1, <1>7 DEF vars, IInv, GatewayTypeOK, ClientOK, GatewayOK, BrokerOK, AroundOK, Unheard, HeardOK
<1> QED
  BY <1>3, <1>4, <1>5, <1>6, <1>7 DEF Next

LEMMA Initially == Init => IInv
<1> SUFFICES ASSUME Init PROVE IInv
  OBVIOUS
<1>3. ClientInit
  BY Begins DEF Beginning
<1>1. ClientOK
  BY <1>3, Sequences, Counts DEF ClientInit, ClientOK, Client, Publisher, Claims
<1>2. HeardOK
  BY Begins DEF Beginning, HeardOK, Recovery!Unknown
<1> QED
  BY <1>1, <1>2, Begins DEF Beginning, IInv, GatewayTypeOK

LEMMA Inductive == Spec => []IInv
<1>1. IInv /\ [Next]_vars => IInv'
  BY Steps
<1> QED
  BY <1>1, Initially, PTL DEF Spec

\* What the gateway, its client, the broker and the other gateway hold keeps its type.
THEOREM GatewayTypes == Spec => []GatewayTypeOK
<1>1. IInv => GatewayTypeOK
  BY DEF IInv
<1> QED
  BY <1>1, Inductive, PTL

\* What is published through the window arrives: whatever connections are lost, the
\* window does not fill for good, and once nothing is under way the broker retains what a
\* device published here last, unless a publication was dropped or overtaken, which is
\* noted, or someone else wrote the topic since.
THEOREM PublicationsThroughWindow == Spec => []PublicationsArrive
<1> DEFINE Inv == IInv /\ PublicationOK
<1>1. Init => Inv
  BY Initially, PublicationsInitially
<1>2. Inv /\ [Next]_vars => Inv'
  <2> SUFFICES ASSUME IInv, PublicationOK, [Next]_vars PROVE IInv' /\ PublicationOK'
    OBVIOUS
  <2> QED
    BY Steps, PublicationSteps DEF IInv
<1>3. Inv => PublicationsArrive
  BY PublicationsImplied DEF IInv
<1> QED
  BY <1>1, <1>2, <1>3, PTL DEF Spec

\* The last wills of the devices that are lost with another gateway are applied: at the
\* most once before a gateway is online again, those of the generation that is gone and
\* was the last one known, and taking effect; and once all that the broker has of the
\* other gateway is heard, none is left that is due, unless a message found no room or the
\* end is of a life that the gateway did not know.
THEOREM WillsAreTheLost == Spec => WillsAreRecovered
<1> DEFINE Inv == IInv /\ PublicationOK /\ RecoveryOK
           Step == seen'.wills > seen.wills => Recovers
<1>1. Init => Inv
  BY Initially, PublicationsInitially, RecoveryInitially
<1>2. Inv /\ [Next]_vars => Inv'
  <2> SUFFICES ASSUME IInv, PublicationOK, RecoveryOK, [Next]_vars
               PROVE  IInv' /\ PublicationOK' /\ RecoveryOK'
    OBVIOUS
  <2> QED
    BY Steps, PublicationSteps, RecoverySteps DEF IInv, PublicationOK
<1>3. Inv => RecoveredOnce /\ NoneForgotten
  BY RecoveryImplied DEF IInv, GatewayTypeOK, AroundOK, HeardOK, RecoveredOnce
<1>4. ASSUME IInv, [Next]_vars PROVE Step
  <2>1. CASE DrainInbound
    BY <1>4, <2>1, Heard DEF Hears
  <2>2. CASE Unheard
    <3>1. seen.wills \in Nat /\ seen'.wills = seen.wills
      BY <1>4, <2>2 DEF IInv, GatewayTypeOK, AroundOK, History, Unheard
    <3> QED
      BY <3>1
  <2> QED
    BY <1>4, <2>1, <2>2, Steps
<1>5. Inv /\ [Next]_vars => [Step]_vars
  BY <1>4
<1>6. Spec => [](RecoveredOnce /\ NoneForgotten) /\ [][Step]_vars
  BY <1>1, <1>2, <1>3, <1>5, PTL DEF Spec
<1>7. [][Step]_vars => RecoversTheLost
  <2>1. [Step]_vars => [seen'.wills > seen.wills =>
         /\ g'.peer.snapshot \in seen'.gone
         /\ seen.online \in {None, g'.peer.snapshot}
         /\ g'.peer.clients = "named" /\ g.device # "named" => g'.vault = Vault("off", "remote")]_vars
    BY DEF Recovers
  <2> QED
    BY <2>1, PTL DEF RecoversTheLost
<1> QED
  BY <1>6, <1>7, PTL DEF WillsAreRecovered

\* The truth of the gateway's own device goes before the subscription: whatever is lost and
\* comes back, the broker is never about to replay a status of the device older than the
\* one it said here last, unless that one is on its way to the broker, was dropped, or a
\* setup subscribed in a later session than its own.
THEOREM TruthBeforeReplay == Spec => []TruthGoesFirst
<1> DEFINE Inv == IInv /\ PublicationOK /\ FirstOK
<1>1. Init => Inv
  BY Initially, PublicationsInitially, FirstInitially
<1>2. Inv /\ [Next]_vars => Inv'
  <2> SUFFICES ASSUME IInv, PublicationOK, FirstOK, [Next]_vars
               PROVE  IInv' /\ PublicationOK' /\ FirstOK'
    OBVIOUS
  <2> QED
    BY Steps, PublicationSteps, FirstSteps DEF IInv, PublicationOK
<1>3. Inv => TruthGoesFirst
  BY FirstImplied DEF IInv, PublicationOK
<1> QED
  BY <1>1, <1>2, <1>3, PTL DEF Spec
===============================================================================
