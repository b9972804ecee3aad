--------------------------- MODULE EspNowLink_proofs ---------------------------
(* That a station and the gateway never use one session id with two keys, for  *)
(* queues of any length and whatever is lost, late or restarted.               *)
EXTENDS EspNowLink, EspBroker_proofs, WellFoundedInduction

-------------------------------------------------------------------------------
(* The inductive invariant.  A handshake is followed by the ids of its frames: *)
(* the CONNECT and its CHALLENGE bear connectId, the AUTH and its CONNACK      *)
(* authId.  Both queues are first in, first out, and an AUTH is sent only for  *)
(* the CHALLENGE of the latest CONNECT: there is no other AUTH on its way then. *)

UpFrame == {f \in UNION {Frame(type) : type \in FromClient} : f.mac = Me /\ f.id \in MsgId}
DownFrame ==
    {f \in UNION {Frame(type) : type \in FromGateway} :
        /\ f.mac = Me /\ f.type \in ForTask
        /\ f.type \in {"CHALLENGE", "CONNACK"} => f.id \in MsgId
        /\ f.type = "CONNACK" => f.cid \in Cid}
    \cup [mac : {Me}, type : {"BEACON"}, id : {0}, cid : {0}, data : 1 .. MaxGeneration]

At(q, type, id) == {i \in DOMAIN q : q[i].type = type /\ q[i].id = id}
Auths(u) == {i \in DOMAIN u : u[i].type = "AUTH"}
Connects(c, u) == At(u, "CONNECT", c.connectId)
Challenges(c, k) == At(k, "CHALLENGE", c.connectId)
Acks(c, k) == At(k, "CONNACK", c.authId)
Shared(c) == <<c.clientNonce, c.gatewayNonce>>

\* The latest CONNECT, or its CHALLENGE, is there once; no AUTH comes after it.
AskedOnce(c, u, k) ==
    /\ \A i, j \in Connects(c, u) : i = j
    /\ \A i, j \in Challenges(c, k) : i = j
    /\ Connects(c, u) = {} \/ Challenges(c, k) = {}
    /\ \A i \in Connects(c, u) : \A j \in Auths(u) : j < i
    /\ Challenges(c, k) # {} => Auths(u) = {}

\* The latest AUTH is alone, and so is the CONNACK it gets, whose session has its key.
ProvenOnce(c, u, k, t) ==
    /\ \A i \in At(u, "AUTH", c.authId) :
          /\ Auths(u) = {i}
          /\ c.st = "AUTHENTICATING" => u[i].data = Shared(c)
    /\ Acks(c, k) # {} => Auths(u) = {}
    /\ c.st = "AUTHENTICATING" =>
          \A i \in Acks(c, k) : \A d \in t.devices :
             d.mac = Me /\ d.cid = k[i].cid => d.key = Shared(c)

\* A station with a session proves nothing, and the gateway has its key.
Joined(c, u, t) ==
    c.cid # 0 =>
       /\ c.st \in {"SECURING", "CONNECTED"} /\ Auths(u) = {}
       /\ \A d \in t.devices : d.mac = Me /\ d.cid = c.cid => d.key = c.key

Handshakes(c, u, k, t) == AskedOnce(c, u, k) /\ ProvenOnce(c, u, k, t) /\ Joined(c, u, t)

QueuesOK ==
    /\ uplink \in Seq(UpFrame) /\ Len(uplink) <= UplinkDepth
    /\ control \in Seq(DownFrame) /\ Len(control) <= ControlDepth
SurroundingsOK ==
    /\ task \in {"control", "timers", "connected"} /\ generation \in 1 .. MaxGeneration
    /\ captured \in 0 .. MaxCid /\ willing \in BOOLEAN /\ calm \in BOOLEAN

LinkInv ==
    /\ IInv /\ client \in Client /\ QueuesOK /\ SurroundingsOK
    /\ Handshakes(client, uplink, control, table)

-------------------------------------------------------------------------------
(* Queues.                                                                     *)

LEMMA Enqueued ==
    ASSUME NEW S, NEW q \in Seq(S), NEW f \in S, NEW r, r = q \o <<f>>
    PROVE  /\ r \in Seq(S) /\ Len(r) = Len(q) + 1
           /\ DOMAIN r = DOMAIN q \cup {Len(q) + 1}
           /\ r[Len(q) + 1] = f /\ \A i \in DOMAIN q : r[i] = q[i] /\ i \in Nat /\ i <= Len(q)
<1>1. r \in Seq(S) /\ Len(r) = Len(q) + 1 /\ Len(q) \in Nat
  OBVIOUS
<1>2. DOMAIN r = 1 .. Len(q) + 1 /\ DOMAIN q = 1 .. Len(q)
  BY <1>1
<1> QED
  BY <1>1, <1>2

LEMMA Dequeued ==
    ASSUME NEW S, NEW q \in Seq(S), q # <<>>, NEW r, r = Tail(q)
    PROVE  /\ r \in Seq(S) /\ Len(r) = Len(q) - 1 /\ Len(q) \in Nat
           /\ 1 \in DOMAIN q /\ Head(q) = q[1] /\ Head(q) \in S
           /\ \A i \in DOMAIN r : i \in Nat /\ i >= 1 /\ i + 1 \in DOMAIN q /\ r[i] = q[i + 1]
OBVIOUS

\* Nothing is added: the frames of r are those of q in the same order.
Fewer(q, r) ==
    \/ r = q
    \/ \A i \in DOMAIN r : i \in Nat /\ i >= 1 /\ i + 1 \in DOMAIN q /\ r[i] = q[i + 1]

-------------------------------------------------------------------------------
(* Unused ids and nonces.                                                      *)

LEMMA Constants ==
    /\ Me \in Mac /\ 0 \notin MsgId /\ 0 \in Nonce /\ MsgId \subseteq Nat /\ Nonce \subseteq Nat
    /\ UplinkDepth \in Nat /\ ControlDepth \in Nat
    /\ MaxGeneration \in Nat /\ MaxGeneration >= 1 /\ MaxCid \in Nat /\ MaxCid >= 1
BY ManagerAssumption, BrokerAssumption, ClientAssumption, LinkAssumption

LEMMA LeastNumber ==
    ASSUME NEW T, T \subseteq Nat, T # {}
    PROVE  \E x \in T : \A y \in T : x <= y
<1>1. IsWellFoundedOn(OpToRel(<, Nat), Nat)
  BY NatLessThanWellFounded
<1>2. PICK x \in T : \A y \in T : ~(<<y, x>> \in OpToRel(<, Nat))
  BY <1>1, WFMin
<1>3. \A y \in T : ~(y < x)
  BY <1>2 DEF OpToRel
<1> QED
  BY <1>3

LEMMA ImageBound ==
    ASSUME NEW n \in Nat, NEW f, f = [i \in 1 .. n |-> f[i]]
    PROVE  IsFiniteSet({f[i] : i \in 1 .. n}) /\ Cardinality({f[i] : i \in 1 .. n}) <= n
<1> DEFINE T == {f[i] : i \in 1 .. n}
<1>1. f \in Surjection(1 .. n, T)
  BY DEF Surjection
<1>2. IsFiniteSet(1 .. n) /\ Cardinality(1 .. n) = n
  BY FS_Interval
<1>3. IsFiniteSet(T)
  BY <1>1, <1>2, FS_Surjection
<1>4. ExistsSurjection(1 .. n, T)
  BY <1>1 DEF ExistsSurjection
<1>5. Cardinality(T) <= n
  BY <1>4, FS_SurjCardinalityBound
<1> QED
  BY <1>3, <1>5

LEMMA UnionBound ==
    ASSUME NEW S, NEW T, NEW m \in Nat, NEW n \in Nat,
           IsFiniteSet(S), Cardinality(S) <= m, IsFiniteSet(T), Cardinality(T) <= n
    PROVE  IsFiniteSet(S \cup T) /\ Cardinality(S \cup T) <= m + n
<1>1. IsFiniteSet(S \cap T)
  BY FS_Intersection
<1>2. Cardinality(S \cap T) \in Nat /\ Cardinality(S) \in Nat /\ Cardinality(T) \in Nat
  BY <1>1, FS_CardinalityType
<1>3. Cardinality(S \cup T) = Cardinality(S) + Cardinality(T) - Cardinality(S \cap T)
  BY FS_Union
<1> QED
  BY <1>2, <1>3, FS_Union

\* Three things are three at the most.
LEMMA ThreeBound ==
    ASSUME NEW x, NEW y, NEW z
    PROVE  IsFiniteSet({x, y, z}) /\ Cardinality({x, y, z}) <= 3
<1>1. \A v : IsFiniteSet({v}) /\ Cardinality({v}) <= 1
  <2> SUFFICES ASSUME NEW v PROVE IsFiniteSet({v}) /\ Cardinality({v}) <= 1
    OBVIOUS
  <2>1. IsFiniteSet({v}) /\ Cardinality({v}) = 1
    BY FS_Singleton
  <2> QED
    BY <2>1
<1> DEFINE two == {x} \cup {y}
<1>2. IsFiniteSet(two) /\ Cardinality(two) <= 2
  <2>1. IsFiniteSet(two) /\ Cardinality(two) <= 1 + 1
    BY <1>1, UnionBound
  <2> QED
    BY <2>1
<1>3. two \cup {z} = {x, y, z}
  OBVIOUS
<1> HIDE DEF two
<1>4. IsFiniteSet({z}) /\ Cardinality({z}) <= 1
  BY <1>1
<1>5. IsFiniteSet(two \cup {z}) /\ Cardinality(two \cup {z}) <= 2 + 1
  BY <1>2, <1>4, UnionBound
<1> QED
  BY <1>3, <1>5

\* A set with more members than another has one that the other has not.
LEMMA OneLeft ==
    ASSUME NEW S, IsFiniteSet(S), S \subseteq Nat, NEW U, IsFiniteSet(U),
           Cardinality(U) < Cardinality(S)
    PROVE  \E x \in S \ U : \A y \in S \ U : x <= y
<1>1. S \ U # {}
  <2> SUFFICES ASSUME S \subseteq U PROVE FALSE
    OBVIOUS
  <2>1. Cardinality(S) <= Cardinality(U)
    BY FS_Subset
  <2>2. Cardinality(S) \in Nat /\ Cardinality(U) \in Nat
    BY FS_CardinalityType
  <2> QED
    BY <2>1, <2>2
<1> QED
  BY <1>1, LeastNumber

\* The ids in use are few: one is left.
LEMMA FreshIdIs ==
    ASSUME QueuesOK
    PROVE  FreshId \in MsgId /\ FreshId \notin UsedIds
<1> DEFINE up1 == {uplink[i].id : i \in DOMAIN uplink}
           down == {control[i].id : i \in DOMAIN control}
           own == {client.connectId, client.authId, client.pingId}
<1>1. /\ Len(uplink) \in Nat /\ DOMAIN uplink = 1 .. Len(uplink) /\ Len(uplink) <= UplinkDepth
      /\ Len(control) \in Nat /\ DOMAIN control = 1 .. Len(control) /\ Len(control) <= ControlDepth
  BY DEF QueuesOK
<1>2. IsFiniteSet(up1) /\ Cardinality(up1) <= UplinkDepth
  <2> DEFINE f == [i \in 1 .. Len(uplink) |-> uplink[i].id]
  <2>1. up1 = {f[i] : i \in 1 .. Len(uplink)} /\ f = [i \in 1 .. Len(uplink) |-> f[i]]
    BY <1>1
  <2> HIDE DEF f
  <2>2. IsFiniteSet(up1) /\ Cardinality(up1) <= Len(uplink)
    BY <1>1, <2>1, ImageBound
  <2> HIDE DEF up1
  <2> QED
    BY <1>1, <2>2, FS_CardinalityType, Constants
<1>3. IsFiniteSet(down) /\ Cardinality(down) <= ControlDepth
  <2> DEFINE f == [i \in 1 .. Len(control) |-> control[i].id]
  <2>1. down = {f[i] : i \in 1 .. Len(control)} /\ f = [i \in 1 .. Len(control) |-> f[i]]
    BY <1>1
  <2> HIDE DEF f
  <2>2. IsFiniteSet(down) /\ Cardinality(down) <= Len(control)
    BY <1>1, <2>1, ImageBound
  <2> HIDE DEF down
  <2> QED
    BY <1>1, <2>2, FS_CardinalityType, Constants
<1>4. IsFiniteSet(own) /\ Cardinality(own) <= 3
  BY ThreeBound
<1>5. UsedIds = (own \cup up1) \cup down
  BY DEF UsedIds
<1> HIDE DEF up1, down, own
<1>6. IsFiniteSet(own \cup up1) /\ Cardinality(own \cup up1) <= 3 + UplinkDepth
  BY <1>2, <1>4, UnionBound, Constants
<1>7. 3 + UplinkDepth \in Nat
  BY Constants
<1>8. IsFiniteSet(UsedIds) /\ Cardinality(UsedIds) <= (3 + UplinkDepth) + ControlDepth
  BY <1>3, <1>5, <1>6, <1>7, UnionBound, Constants
<1>9. Cardinality(UsedIds) < Cardinality(MsgId) /\ IsFiniteSet(MsgId)
  BY <1>8, LinkAssumption, FS_CardinalityType, Constants
<1>10. \E x \in MsgId \ UsedIds : \A y \in MsgId \ UsedIds : x <= y
  BY <1>8, <1>9, OneLeft, Constants
<1> QED
  BY <1>10 DEF FreshId

\* What one session, one handshake and the client have, and what is on its way.
FirstOf(f) == IF f.type \in {"CONNECT", "CHALLENGE"} THEN f.data
              ELSE IF f.type = "AUTH" THEN f.data[1] ELSE 0
SecondOf(f) == IF f.type = "AUTH" THEN f.data[2] ELSE 0

LEMMA CarriedAre ==
    ASSUME NEW q, NEW n \in Nat, Len(q) \in Nat, Len(q) <= n, DOMAIN q = 1 .. Len(q)
    PROVE  \E T : /\ UNION {Carried(q[i]) : i \in DOMAIN q} \subseteq T
                  /\ IsFiniteSet(T) /\ Cardinality(T) <= n + n
<1> DEFINE a == [i \in 1 .. Len(q) |-> FirstOf(q[i])]
           b == [i \in 1 .. Len(q) |-> SecondOf(q[i])]
           A == {a[i] : i \in 1 .. Len(q)}
           B == {b[i] : i \in 1 .. Len(q)}
<1>1. \A i \in DOMAIN q : Carried(q[i]) \subseteq {a[i], b[i]}
  BY DEF Carried, FirstOf, SecondOf
<1>2. a = [i \in 1 .. Len(q) |-> a[i]] /\ b = [i \in 1 .. Len(q) |-> b[i]]
  OBVIOUS
<1> HIDE DEF a, b
<1>3. UNION {Carried(q[i]) : i \in DOMAIN q} \subseteq A \cup B
  BY <1>1
<1>4. IsFiniteSet(A) /\ Cardinality(A) <= Len(q) /\ IsFiniteSet(B) /\ Cardinality(B) <= Len(q)
  BY <1>2, ImageBound
<1> HIDE DEF A, B
<1>5. Cardinality(A) <= n /\ Cardinality(B) <= n
  BY <1>4, FS_CardinalityType
<1>6. IsFiniteSet(A \cup B) /\ Cardinality(A \cup B) <= n + n
  BY <1>4, <1>5, UnionBound
<1> QED
  BY <1>3, <1>6

LEMMA InUseAre ==
    ASSUME IInv
    PROVE  \E v, w, x, y : NoncesInUse(Me) \subseteq {v, w, x, y}
<1>1. Distinct(table) /\ OneEach(table) /\ table \in Table
  BY DEF IInv, TypeOK, Consistent, Sound
<1> DEFINE mine == {e \in table.devices : e.mac = Me /\ e.key # NoKey}
           slots == PendingSlots(table, Me)
           d == CHOOSE e \in mine : TRUE
           s == CHOOSE r \in slots : TRUE
<1>2. \A e \in mine : e = d
  BY <1>1 DEF Distinct
<1>3. \A r \in slots : r = s
  BY <1>1 DEF OneEach, PendingSlots
<1>4. NoncesInUse(Me) = UNION ({{e.key[1], e.key[2]} : e \in mine}
         \cup {{table.pending[r].clientNonce, table.pending[r].gatewayNonce} : r \in slots})
  BY DEF NoncesInUse
<1> HIDE DEF mine, slots, d, s
<1>5. NoncesInUse(Me) \subseteq {d.key[1], d.key[2], table.pending[s].clientNonce, table.pending[s].gatewayNonce}
  BY <1>2, <1>3, <1>4
<1> QED
  BY <1>5

LEMMA FreshNonceIs ==
    ASSUME IInv, QueuesOK
    PROVE  FreshNonce \in Nonce /\ FreshNonce \notin UsedNonces
<1>1. /\ Len(uplink) \in Nat /\ DOMAIN uplink = 1 .. Len(uplink) /\ Len(uplink) <= UplinkDepth
      /\ Len(control) \in Nat /\ DOMAIN control = 1 .. Len(control) /\ Len(control) <= ControlDepth
  BY DEF QueuesOK
<1>2. PICK v, w, x, y : NoncesInUse(Me) \subseteq {v, w, x, y}
  BY InUseAre
<1>3. PICK A : /\ UNION {Carried(uplink[i]) : i \in DOMAIN uplink} \subseteq A
               /\ IsFiniteSet(A) /\ Cardinality(A) <= UplinkDepth + UplinkDepth
  BY <1>1, CarriedAre, Constants
<1>4. PICK B : /\ UNION {Carried(control[i]) : i \in DOMAIN control} \subseteq B
               /\ IsFiniteSet(B) /\ Cardinality(B) <= ControlDepth + ControlDepth
  BY <1>1, CarriedAre, Constants
<1> DEFINE C == {0, client.clientNonce, client.gatewayNonce}
           D == {v, w, x}
           E == {y, client.key[1], client.key[2]}
<1>5. InKey(client.key) \subseteq {client.key[1], client.key[2]}
  BY DEF InKey
<1>6. UsedNonces \subseteq (((C \cup D) \cup E) \cup A) \cup B
  BY <1>2, <1>3, <1>4, <1>5 DEF UsedNonces
<1>7. /\ IsFiniteSet(C) /\ Cardinality(C) <= 3 /\ IsFiniteSet(D) /\ Cardinality(D) <= 3
      /\ IsFiniteSet(E) /\ Cardinality(E) <= 3
  BY ThreeBound
<1> HIDE DEF C, D, E
<1> DEFINE F == C \cup D
           G == F \cup E
           H == G \cup A
           I == H \cup B
<1>8. IsFiniteSet(F) /\ Cardinality(F) <= 6
  <2>1. IsFiniteSet(F) /\ Cardinality(F) <= 3 + 3
    BY <1>7, UnionBound
  <2> QED
    BY <2>1
<1> HIDE DEF F
<1>9. IsFiniteSet(G) /\ Cardinality(G) <= 9
  <2>1. IsFiniteSet(G) /\ Cardinality(G) <= 6 + 3
    BY <1>7, <1>8, UnionBound
  <2> QED
    BY <2>1
<1> HIDE DEF G
<1>10. UplinkDepth + UplinkDepth \in Nat /\ ControlDepth + ControlDepth \in Nat
       /\ 9 + (UplinkDepth + UplinkDepth) \in Nat
  BY Constants
<1>11. IsFiniteSet(H) /\ Cardinality(H) <= 9 + (UplinkDepth + UplinkDepth)
  BY <1>3, <1>9, <1>10, UnionBound
<1> HIDE DEF H
<1>12. IsFiniteSet(I) /\ Cardinality(I) <= (9 + (UplinkDepth + UplinkDepth)) + (ControlDepth + ControlDepth)
  BY <1>4, <1>10, <1>11, UnionBound
<1>13. UsedNonces \subseteq I
  BY <1>6 DEF F, G, H
<1> HIDE DEF I
<1>14. Cardinality(I) < Cardinality(Nonce) /\ IsFiniteSet(Nonce)
  BY <1>12, LinkAssumption, FS_CardinalityType, Constants
<1>15. IsFiniteSet(UsedNonces) /\ Cardinality(UsedNonces) <= Cardinality(I)
  BY <1>12, <1>13, FS_Subset
<1>16. Cardinality(UsedNonces) < Cardinality(Nonce)
  BY <1>12, <1>14, <1>15, FS_CardinalityType
<1>17. \E n \in Nonce \ UsedNonces : \A m \in Nonce \ UsedNonces : n <= m
  BY <1>14, <1>15, <1>16, OneLeft, Constants
<1> QED
  BY <1>17 DEF FreshNonce

-------------------------------------------------------------------------------
(* The client's operators.  Each keeps the handshake there is or gives it up,  *)
(* begins another, proves the latest, or joins the session it was for.         *)

ClientOK(c) == c \in Client /\ (c.cid # 0 => c.st \in {"SECURING", "CONNECTED"})

Keeps(c, d) ==
    /\ d.connectId \in {c.connectId, 0} /\ d.authId \in {c.authId, 0}
    /\ d.st = "AUTHENTICATING" => c.st = "AUTHENTICATING" /\ Shared(d) = Shared(c)
    /\ d.cid # 0 => d.cid = c.cid /\ d.key = c.key
Plainly(out) == out = <<>> \/ \E f \in UpFrame : out = <<f>> /\ f.type \notin {"CONNECT", "AUTH"}
KeepsOn(c, r) == Keeps(c, r.c) /\ Plainly(r.out)

Asks(c, r, id) ==
    /\ r.c.connectId = id /\ r.c.authId = c.authId /\ r.c.cid = 0 /\ r.c.st # "AUTHENTICATING"
    /\ \E f \in UpFrame : r.out = <<f>> /\ f.type = "CONNECT" /\ f.id = id

ProvesFor(c, f, r, id) ==
    /\ f.type = "CHALLENGE" /\ f.id = c.connectId
    /\ r.c.connectId = c.connectId /\ r.c.authId = id /\ r.c.cid = 0
    /\ \E g \in UpFrame : r.out = <<g>> /\ g.type = "AUTH" /\ g.id = id /\ g.data = Shared(r.c)

JoinsBy(c, f, r) ==
    /\ f.type = "CONNACK" /\ f.id = c.authId /\ c.st = "AUTHENTICATING"
    /\ r.c.connectId = c.connectId /\ r.c.authId = c.authId
    /\ r.c.cid = f.cid /\ r.c.key = Shared(c) /\ r.c.st = "SECURING" /\ Plainly(r.out)

\* r is c as it is, and one frame.
SendsOne(r, c, type, id, data) ==
    \E f \in UpFrame : r = [c |-> c, out |-> <<f>>] /\ f.type = type /\ f.id = id /\ f.data = data

LEMMA FrameSent ==
    ASSUME NEW c, NEW type, NEW id, NEW cid, NEW data,
           type \in FromClient, id \in MsgId, cid \in Nat, data \in Payload(type)
    PROVE  SendsOne(Sending(c, type, id, cid, data), c, type, id, data)
<1> DEFINE f == [mac |-> Me, type |-> type, id |-> id, cid |-> cid, data |-> data]
<1>1. f \in Frame(type) /\ f.mac = Me /\ f.type = type /\ f.id = id /\ f.data = data
  BY Constants DEF Frame
<1>2. Sending(c, type, id, cid, data) = [c |-> c, out |-> <<f>>]
  BY DEF Sending
<1> HIDE DEF f
<1>3. f \in UpFrame
  BY <1>1 DEF UpFrame
<1> QED
  BY <1>1, <1>2, <1>3 DEF SendsOne

LEMMA QuietKeeps ==
    ASSUME NEW c, NEW d, Keeps(c, d)
    PROVE  Quiet(d).c = d /\ KeepsOn(c, Quiet(d))
BY DEF Quiet, KeepsOn, Plainly

LEMMA Dropped ==
    ASSUME NEW c \in Client
    PROVE  LET d == DropSession(c) IN
           d \in Client /\ d.cid = 0 /\ d.connectId = c.connectId /\ d.authId = c.authId /\ d.failures = c.failures
<1> DEFINE k == IF c.key \in Key THEN Plain ELSE c.key
<1>1. c.key \in Key \cup {Plain, NoPeer}
  BY DEF Client
<1>2. k \in Key \cup {Plain, NoPeer}
  BY <1>1
<1>3. DropSession(c) = [c EXCEPT !.cid = 0, !.clientNonce = 0, !.gatewayNonce = 0, !.key = k]
  BY DEF DropSession, Client
<1> HIDE DEF k
<1>4. 0 \in 0 .. MaxCid /\ 0 \in Nonce
  BY Constants
<1> QED
  BY <1>2, <1>3, <1>4 DEF Client

LEMMA Searching ==
    ASSUME NEW c \in Client, NEW backoff \in BOOLEAN
    PROVE  LET d == EnterSearching(c, backoff) IN ClientOK(d) /\ Keeps(c, d)
<1> DEFINE e == DropSession(c)
           g == ForgetGateway(e)
<1>1. e \in Client /\ e.cid = 0 /\ e.connectId = c.connectId /\ e.authId = c.authId
  BY Dropped
<1> HIDE DEF e
<1>2. g \in Client /\ g.cid = 0 /\ g.connectId = c.connectId /\ g.authId = c.authId
  <2>1. 0 \in 0 .. MaxGeneration
    BY Constants
  <2>2. CASE e.gw
    <3>1. g = [e EXCEPT !.gw = FALSE, !.generation = 0, !.key = NoPeer]
      BY <2>2 DEF ForgetGateway
    <3> QED
      BY <1>1, <2>1, <3>1 DEF Client
  <2>3. CASE ~e.gw
    BY <1>1, <2>3 DEF ForgetGateway
  <2> QED
    BY <2>2, <2>3
<1>3. EnterSearching(c, backoff) = [g EXCEPT !.failures = 0, !.st = "SEARCHING", !.backoff = backoff]
  BY DEF EnterSearching, e
<1> HIDE DEF g
<1>4. 0 \in 0 .. HandshakeAttempts
  BY ClientAssumption
<1> QED
  BY <1>2, <1>3, <1>4 DEF ClientOK, Keeps, Client, State

LEMMA Connecting ==
    ASSUME NEW c \in Client, c.cid = 0, c.st \in {"SEARCHING", "CONNECTING"}, NEW n \in Nonce, NEW id \in MsgId
    PROVE  LET r == SendConnect(c, n, id) IN ClientOK(r.c) /\ Asks(c, r, id)
<1> DEFINE d == [c EXCEPT !.clientNonce = n, !.connectId = id]
<1>1. /\ d \in Client /\ d.cid = 0 /\ d.connectId = id /\ d.authId = c.authId /\ d.st = c.st
  BY DEF Client
<1> HIDE DEF d
<1>2. SendConnect(c, n, id) = Sending(d, "CONNECT", id, 0, n)
  BY DEF SendConnect, d
<1>3. "CONNECT" \in FromClient /\ n \in Payload("CONNECT") /\ 0 \in Nat
  BY Payloads DEF FromClient
<1>4. SendsOne(Sending(d, "CONNECT", id, 0, n), d, "CONNECT", id, n)
  BY <1>3, FrameSent
<1> QED
  BY <1>1, <1>2, <1>4 DEF Asks, ClientOK, SendsOne

LEMMA Starting ==
    ASSUME NEW c \in Client, NEW n \in Nonce, NEW id \in MsgId
    PROVE  LET r == StartHandshake(c, n, id) IN ClientOK(r.c) /\ Asks(c, r, id)
<1> DEFINE e == DropSession(c)
           d == [e EXCEPT !.st = "CONNECTING"]
<1>1. e \in Client /\ e.cid = 0 /\ e.authId = c.authId
  BY Dropped
<1> HIDE DEF e
<1>2. d \in Client /\ d.cid = 0 /\ d.st = "CONNECTING" /\ d.authId = c.authId
  BY <1>1 DEF Client, State
<1> HIDE DEF d
<1>3. StartHandshake(c, n, id) = SendConnect(d, n, id)
  BY DEF StartHandshake, d, e
<1> QED
  BY <1>2, <1>3, Connecting DEF Asks

LEMMA Failing ==
    ASSUME NEW c \in Client, NEW n \in Nonce, NEW id \in MsgId
    PROVE  LET r == HandshakeFailed(c, n, id) IN ClientOK(r.c) /\ (KeepsOn(c, r) \/ Asks(c, r, id))
<1>1. CASE c.failures + 1 >= HandshakeAttempts
  <2>1. HandshakeFailed(c, n, id) = Quiet(EnterSearching(c, FALSE))
    BY <1>1 DEF HandshakeFailed
  <2>2. ClientOK(EnterSearching(c, FALSE)) /\ Keeps(c, EnterSearching(c, FALSE))
    BY Searching
  <2> QED
    BY <2>1, <2>2, QuietKeeps
<1>2. CASE ~(c.failures + 1 >= HandshakeAttempts)
  <2> DEFINE d == [c EXCEPT !.failures = @ + 1]
  <2>1. c.failures \in 0 .. HandshakeAttempts
    BY DEF Client
  <2>2. c.failures + 1 \in 0 .. HandshakeAttempts
    BY <1>2, <2>1, ClientAssumption
  <2>3. d \in Client /\ d.authId = c.authId
    BY <2>2 DEF Client
  <2>4. HandshakeFailed(c, n, id) = StartHandshake(d, n, id)
    BY <1>2 DEF HandshakeFailed
  <2> HIDE DEF d
  <2> QED
    BY <2>3, <2>4, Starting DEF Asks
<1> QED
  BY <1>1, <1>2

LEMMA Pinging ==
    ASSUME NEW c, ClientOK(c), NEW id \in MsgId
    PROVE  LET r == SendPing(c, id) IN
           /\ ClientOK(r.c) /\ KeepsOn(c, r)
           /\ r.c.st = c.st /\ r.c.cid = c.cid /\ r.c.key = c.key
           /\ r.c.connectId = c.connectId /\ r.c.authId = c.authId
<1> DEFINE d == [c EXCEPT !.pingId = id]
<1>1. c \in Client /\ c.cid \in Nat
  BY Constants DEF ClientOK, Client
<1>2. CASE c.cid = 0 \/ ~c.gw
  <2>1. SendPing(c, id) = Quiet(c) /\ Keeps(c, c)
    BY <1>2 DEF SendPing, Keeps
  <2> QED
    BY <2>1, QuietKeeps
<1>3. CASE ~(c.cid = 0 \/ ~c.gw)
  <2>1. SendPing(c, id) = Sending(d, "PING", id, c.cid, NoData)
    BY <1>3 DEF SendPing
  <2>2. ClientOK(d) /\ Keeps(c, d) /\ d.st = c.st /\ d.cid = c.cid /\ d.key = c.key
        /\ d.connectId = c.connectId /\ d.authId = c.authId
    BY <1>1 DEF ClientOK, Keeps, Client, Shared
  <2> HIDE DEF d
  <2>3. "PING" \in FromClient /\ NoData \in Payload("PING")
    BY Payloads DEF FromClient
  <2>4. SendsOne(Sending(d, "PING", id, c.cid, NoData), d, "PING", id, NoData)
    BY <1>1, <2>3, FrameSent
  <2> QED
    BY <2>1, <2>2, <2>4 DEF KeepsOn, Plainly, SendsOne
<1> QED
  BY <1>2, <1>3

LEMMA Willing ==
    ASSUME NEW c, ClientOK(c), NEW id \in MsgId
    PROVE  LET r == SendLastWill(c, id) IN r.c = c /\ KeepsOn(c, r)
<1>1. c \in Client /\ c.cid \in Nat /\ Keeps(c, c)
  BY Constants DEF ClientOK, Client, Keeps
<1>2. CASE c.will = NoWill \/ c.cid = 0 \/ ~c.gw
  BY <1>1, <1>2, QuietKeeps DEF SendLastWill
<1>3. CASE ~(c.will = NoWill \/ c.cid = 0 \/ ~c.gw)
  <2>1. SendLastWill(c, id) = Sending(c, "LAST_WILL", id, c.cid, c.will)
    BY <1>3 DEF SendLastWill
  <2>2. "LAST_WILL" \in FromClient /\ c.will \in Payload("LAST_WILL")
    BY <1>1, <1>3, Payloads DEF FromClient, Client
  <2>3. SendsOne(Sending(c, "LAST_WILL", id, c.cid, c.will), c, "LAST_WILL", id, c.will)
    BY <1>1, <2>2, FrameSent
  <2> QED
    BY <1>1, <2>1, <2>3 DEF KeepsOn, Plainly, SendsOne
<1> QED
  BY <1>2, <1>3

\* What handling f, or the timer, leads to.
Outcome(c, f, r, id) ==
    ClientOK(r.c) /\ (KeepsOn(c, r) \/ Asks(c, r, id) \/ ProvesFor(c, f, r, id) \/ JoinsBy(c, f, r))

LEMMA QuietOutcome ==
    ASSUME NEW c, NEW f, NEW id, NEW d, ClientOK(d), Keeps(c, d)
    PROVE  Outcome(c, f, Quiet(d), id)
<1>1. Quiet(d).c = d /\ KeepsOn(c, Quiet(d))
  BY QuietKeeps
<1> QED
  BY <1>1 DEF Outcome

LEMMA StartingOutcome ==
    ASSUME NEW c, NEW f, NEW d \in Client, d.authId = c.authId, NEW n \in Nonce, NEW id \in MsgId
    PROVE  Outcome(c, f, StartHandshake(d, n, id), id)
<1>1. ClientOK(StartHandshake(d, n, id).c) /\ Asks(d, StartHandshake(d, n, id), id)
  BY Starting
<1> QED
  BY <1>1 DEF Outcome, Asks

\* A station that is neither proving nor joined: its failure changes nothing else.
LEMMA FailingOutcome ==
    ASSUME NEW c, NEW f, NEW d \in Client, d.authId = c.authId, d.connectId = c.connectId,
           d.st = "AUTHENTICATING" => c.st = "AUTHENTICATING" /\ Shared(d) = Shared(c),
           d.cid # 0 => d.cid = c.cid /\ d.key = c.key,
           NEW n \in Nonce, NEW id \in MsgId
    PROVE  Outcome(c, f, HandshakeFailed(d, n, id), id)
<1> DEFINE r == HandshakeFailed(d, n, id)
<1>1. ClientOK(r.c) /\ (KeepsOn(d, r) \/ Asks(d, r, id))
  BY Failing
<1> HIDE DEF r
<1>2. KeepsOn(d, r) => KeepsOn(c, r)
  BY DEF KeepsOn, Keeps
<1>3. Asks(d, r, id) => Asks(c, r, id)
  BY DEF Asks
<1> QED
  BY <1>1, <1>2, <1>3 DEF Outcome, r

LEMMA Unjoined ==
    ASSUME NEW c, ClientOK(c), c.st \notin {"SECURING", "CONNECTED"}
    PROVE  c.cid = 0
BY DEF ClientOK

LEMMA BeaconOutcome ==
    ASSUME NEW c, ClientOK(c), NEW f, f.data \in 1 .. MaxGeneration, NEW n \in Nonce, NEW id \in MsgId
    PROVE  Outcome(c, f, OnBeacon(c, f, n, id), id)
<1> DEFINE known == [c EXCEPT !.generation = f.data]
           found == SetGateway(known)
<1>1. c \in Client /\ f.data \in 0 .. MaxGeneration
  BY Constants DEF ClientOK
<1>2. ClientOK(known) /\ Keeps(c, known) /\ known \in Client /\ known.authId = c.authId
  BY <1>1 DEF ClientOK, Keeps, Client, Shared
<1>3. found \in Client /\ found.authId = c.authId
  <2>1. found = [known EXCEPT !.gw = TRUE, !.key = Plain]
    BY DEF SetGateway
  <2>2. Plain \in Key \cup {Plain, NoPeer}
    OBVIOUS
  <2> HIDE DEF known, found
  <2> QED
    BY <1>2, <2>1, <2>2 DEF Client
<1>4. OnBeacon(c, f, n, id) \in {StartHandshake(known, n, id), Quiet(known),
                                 StartHandshake(found, n, id), Quiet(c)}
  BY DEF OnBeacon
<1> HIDE DEF known, found
<1>5. Outcome(c, f, StartHandshake(known, n, id), id) /\ Outcome(c, f, StartHandshake(found, n, id), id)
  BY <1>2, <1>3, StartingOutcome
<1>6. Outcome(c, f, Quiet(known), id)
  BY <1>2, QuietOutcome
<1>7. Outcome(c, f, Quiet(c), id)
  <2>1. Keeps(c, c)
    BY DEF Keeps
  <2> QED
    BY <2>1, QuietOutcome
<1> QED
  BY <1>4, <1>5, <1>6, <1>7

LEMMA ChallengeOutcome ==
    ASSUME NEW c, ClientOK(c), NEW f, f.type = "CHALLENGE", f.data \in Nonce,
           NEW n \in Nonce, NEW id \in MsgId, NEW ok
    PROVE  Outcome(c, f, OnChallenge(c, f, n, id, ok), id)
<1>1. CASE ~(c.st \in {"SEARCHING", "CONNECTING"} /\ f.id = c.connectId)
  <2>1. OnChallenge(c, f, n, id, ok) = Quiet(c) /\ Keeps(c, c)
    BY <1>1 DEF OnChallenge, Keeps
  <2> QED
    BY <2>1, QuietOutcome
<1>2. CASE c.st \in {"SEARCHING", "CONNECTING"} /\ f.id = c.connectId
  <2> DEFINE near == IF c.gw THEN c ELSE SetGateway(c)
             met == [near EXCEPT !.gatewayNonce = f.data]
             sure == [met EXCEPT !.st = "AUTHENTICATING", !.authId = id]
  <2>1. c.cid = 0 /\ c \in Client
    BY <1>2, Unjoined DEF ClientOK
  <2>2. /\ near \in Client /\ near.cid = 0 /\ near.st = c.st
        /\ near.authId = c.authId /\ near.connectId = c.connectId
    <3>1. CASE c.gw
      BY <2>1, <3>1
    <3>2. CASE ~c.gw
      <4>1. near = [c EXCEPT !.gw = TRUE, !.key = Plain]
        BY <3>2 DEF SetGateway
      <4> HIDE DEF near
      <4> QED
        BY <2>1, <4>1 DEF Client
    <3> QED
      BY <3>1, <3>2
  <2> HIDE DEF near
  <2>3. /\ met \in Client /\ met.cid = 0 /\ met.st = c.st
        /\ met.authId = c.authId /\ met.connectId = c.connectId
    BY <2>2 DEF Client
  <2>4. OnChallenge(c, f, n, id, ok)
        = IF ~ok THEN HandshakeFailed(met, n, id)
          ELSE Sending(sure, "AUTH", id, 0, <<met.clientNonce, met.gatewayNonce>>)
    BY <1>2 DEF OnChallenge, near
  <2> HIDE DEF met
  <2>5. met.st # "AUTHENTICATING"
    BY <1>2, <2>3
  <2>6. Outcome(c, f, HandshakeFailed(met, n, id), id)
    BY <2>3, <2>5, FailingOutcome
  <2>7. /\ sure \in Client /\ sure.cid = 0 /\ sure.connectId = c.connectId /\ sure.authId = id
        /\ Shared(sure) = <<met.clientNonce, met.gatewayNonce>>
    BY <2>3 DEF Client, State, Shared
  <2>8. <<met.clientNonce, met.gatewayNonce>> \in Key
    BY <2>3 DEF Client, Key
  <2> HIDE DEF sure
  <2>9. "AUTH" \in FromClient /\ Shared(sure) \in Payload("AUTH") /\ 0 \in Nat
    BY <2>7, <2>8, Payloads DEF FromClient
  <2>10. SendsOne(Sending(sure, "AUTH", id, 0, Shared(sure)), sure, "AUTH", id, Shared(sure))
    BY <2>9, FrameSent
  <2> DEFINE r == Sending(sure, "AUTH", id, 0, Shared(sure))
  <2>11. Outcome(c, f, r, id)
    <3> HIDE DEF r
    <3>1. SendsOne(r, sure, "AUTH", id, Shared(sure))
      BY <2>10 DEF r
    <3> QED
      BY <1>2, <2>7, <3>1 DEF Outcome, ProvesFor, ClientOK, SendsOne
  <2> QED
    BY <2>4, <2>6, <2>7, <2>11
<1> QED
  BY <1>1, <1>2

LEMMA ConnAckOutcome ==
    ASSUME NEW c, ClientOK(c), NEW f, f.type = "CONNACK", f.cid \in Cid,
           NEW n \in Nonce, NEW id \in MsgId, NEW ok
    PROVE  Outcome(c, f, OnConnAck(c, f, n, id, ok), id)
<1>1. c \in Client
  BY DEF ClientOK
<1>2. CASE ~AwaitsConnAck(c, f)
  <2>1. OnConnAck(c, f, n, id, ok) = Quiet(c) /\ Keeps(c, c)
    BY <1>2 DEF OnConnAck, Keeps
  <2> QED
    BY <2>1, QuietOutcome
<1>3. CASE AwaitsConnAck(c, f) /\ ~ok
  <2>1. OnConnAck(c, f, n, id, ok) = HandshakeFailed(c, n, id)
    BY <1>3 DEF OnConnAck
  <2> QED
    BY <1>1, <2>1, FailingOutcome
<1>4. CASE AwaitsConnAck(c, f) /\ ok
  <2> DEFINE keyed == [c EXCEPT !.key = <<c.clientNonce, c.gatewayNonce>>,
                                !.clientNonce = 0, !.gatewayNonce = 0]
             joined == [keyed EXCEPT !.cid = f.cid, !.st = "SECURING", !.tries = 1]
             r == SendPing(joined, id)
  <2>1. OnConnAck(c, f, n, id, ok) = r
    BY <1>4 DEF OnConnAck
  <2>2. c.st = "AUTHENTICATING" /\ f.id = c.authId
    BY <1>4 DEF AwaitsConnAck
  <2>3. /\ Shared(c) \in Key /\ Shared(c) = <<c.clientNonce, c.gatewayNonce>>
        /\ 0 \in Nonce /\ 1 \in 0 .. SecuringPings /\ f.cid \in 0 .. MaxCid
    BY <1>1, Constants, ClientAssumption DEF Shared, Key, Client, Cid
  <2>4. keyed \in Client /\ keyed.key = Shared(c) /\ keyed.connectId = c.connectId /\ keyed.authId = c.authId
    BY <1>1, <2>3 DEF Client
  <2> HIDE DEF keyed
  <2>5. /\ ClientOK(joined) /\ joined.key = Shared(c) /\ joined.cid = f.cid /\ joined.st = "SECURING"
        /\ joined.connectId = c.connectId /\ joined.authId = c.authId
    BY <2>3, <2>4 DEF Client, State, ClientOK
  <2> HIDE DEF joined
  <2>6. /\ ClientOK(r.c) /\ KeepsOn(joined, r)
        /\ r.c.st = joined.st /\ r.c.cid = joined.cid /\ r.c.key = joined.key
        /\ r.c.connectId = joined.connectId /\ r.c.authId = joined.authId
    BY <2>5, Pinging
  <2> HIDE DEF r
  <2> QED
    BY <2>1, <2>2, <2>5, <2>6 DEF Outcome, JoinsBy, KeepsOn
<1> QED
  BY <1>2, <1>3, <1>4

LEMMA PongOutcome ==
    ASSUME NEW c, ClientOK(c), NEW f, NEW id \in MsgId
    PROVE  Outcome(c, f, OnPong(c, f, id), id)
<1> DEFINE heard == [c EXCEPT !.missed = 0]
           sure == [heard EXCEPT !.failures = 0]
<1>1. OnPong(c, f, id) \in {Quiet(c), Quiet(heard), SendLastWill(sure, id)}
  BY DEF OnPong
<1>2. 0 \in 0 .. MissedBeforeLost /\ 0 \in 0 .. HandshakeAttempts
  BY ClientAssumption
<1>3. ClientOK(heard) /\ Keeps(c, heard)
  BY <1>2 DEF ClientOK, Keeps, Client, Shared
<1>4. ClientOK(sure) /\ Keeps(c, sure)
  BY <1>2 DEF ClientOK, Keeps, Client, Shared
<1> HIDE DEF heard, sure
<1>5. Outcome(c, f, Quiet(c), id) /\ Outcome(c, f, Quiet(heard), id)
  <2>1. Keeps(c, c)
    BY DEF Keeps
  <2> QED
    BY <1>3, <2>1, QuietOutcome
<1>6. Outcome(c, f, SendLastWill(sure, id), id)
  <2> DEFINE r == SendLastWill(sure, id)
  <2>1. r.c = sure /\ KeepsOn(sure, r)
    BY <1>4, Willing
  <2> HIDE DEF r
  <2>2. Outcome(c, f, r, id)
    BY <1>4, <2>1 DEF Outcome, KeepsOn
  <2> QED
    BY <2>2 DEF r
<1> QED
  BY <1>1, <1>5, <1>6

LEMMA ErrorOutcome ==
    ASSUME NEW c, ClientOK(c), NEW f, NEW n \in Nonce, NEW id \in MsgId
    PROVE  Outcome(c, f, OnError(c, f, n, id), id)
<1>1. OnError(c, f, n, id) \in {Quiet(EnterSearching(c, TRUE)), StartHandshake(c, n, id), Quiet(c)}
  BY DEF OnError
<1>2. c \in Client /\ Keeps(c, c)
  BY DEF ClientOK, Keeps
<1>3. ClientOK(EnterSearching(c, TRUE)) /\ Keeps(c, EnterSearching(c, TRUE))
  BY <1>2, Searching
<1>4. Outcome(c, f, Quiet(EnterSearching(c, TRUE)), id) /\ Outcome(c, f, Quiet(c), id)
  BY <1>2, <1>3, QuietOutcome
<1>5. Outcome(c, f, StartHandshake(c, n, id), id)
  BY <1>2, StartingOutcome
<1> QED
  BY <1>1, <1>4, <1>5

LEMMA ControlOutcome ==
    ASSUME NEW c, ClientOK(c), NEW f \in DownFrame, NEW n \in Nonce, NEW id \in MsgId, NEW ok
    PROVE  Outcome(c, f, HandleControl(c, f, n, id, ok), id)
<1>1. /\ f.type \in ForTask
      /\ f.type = "CONNACK" => f.cid \in Cid
      /\ f.type = "CHALLENGE" => f.data \in Nonce
      /\ f.type = "BEACON" => f.data \in 1 .. MaxGeneration
  BY Payloads DEF DownFrame, Frame, FromGateway, ForTask
<1>2. CASE f.type = "BEACON"
  BY <1>1, <1>2, BeaconOutcome DEF HandleControl
<1>3. CASE f.type = "CHALLENGE"
  BY <1>1, <1>3, ChallengeOutcome DEF HandleControl
<1>4. CASE f.type = "CONNACK"
  BY <1>1, <1>4, ConnAckOutcome DEF HandleControl
<1>5. CASE f.type = "PONG"
  BY <1>5, PongOutcome DEF HandleControl
<1>6. CASE f.type = "ERROR"
  BY <1>6, ErrorOutcome DEF HandleControl
<1> QED
  BY <1>1, <1>2, <1>3, <1>4, <1>5, <1>6 DEF ForTask

LEMMA HeartbeatOutcome ==
    ASSUME NEW c, ClientOK(c), NEW f, NEW id \in MsgId
    PROVE  Outcome(c, f, Heartbeat(c, id), id)
<1>1. c \in Client /\ c.missed \in 0 .. MissedBeforeLost
  BY DEF ClientOK, Client
<1>2. CASE c.missed >= MissedBeforeLost
  <2>1. Heartbeat(c, id) = Quiet(EnterSearching(c, FALSE))
    BY <1>2 DEF Heartbeat
  <2>2. ClientOK(EnterSearching(c, FALSE)) /\ Keeps(c, EnterSearching(c, FALSE))
    BY <1>1, Searching
  <2> QED
    BY <2>1, <2>2, QuietOutcome
<1>3. CASE ~(c.missed >= MissedBeforeLost)
  <2> DEFINE d == [c EXCEPT !.missed = @ + 1]
             r == SendPing(d, id)
  <2>1. Heartbeat(c, id) = r
    BY <1>3 DEF Heartbeat
  <2>2. c.missed + 1 \in 0 .. MissedBeforeLost
    BY <1>1, <1>3, ClientAssumption
  <2>3. ClientOK(d) /\ Keeps(c, d)
    BY <2>2 DEF ClientOK, Keeps, Client, Shared
  <2> HIDE DEF d
  <2>4. ClientOK(r.c) /\ KeepsOn(d, r)
    BY <2>3, Pinging
  <2> HIDE DEF r
  <2> QED
    BY <2>1, <2>3, <2>4 DEF Outcome, KeepsOn, Keeps
<1> QED
  BY <1>2, <1>3

LEMMA TimerOutcome ==
    ASSUME NEW c, ClientOK(c), c.st # "STOPPED", NEW f, NEW n \in Nonce, NEW id \in MsgId
    PROVE  Outcome(c, f, RunTimers(c, n, id), id)
<1>1. c \in Client
  BY DEF ClientOK
<1>2. CASE c.st = "SEARCHING"
  <2> DEFINE d == [c EXCEPT !.backoff = FALSE]
             r == SendConnect(d, n, id)
  <2>1. RunTimers(c, n, id) = r
    BY <1>2 DEF RunTimers
  <2>2. d \in Client /\ d.cid = 0 /\ d.st = "SEARCHING" /\ d.authId = c.authId
    BY <1>1, <1>2, Unjoined DEF Client
  <2> HIDE DEF d
  <2>3. ClientOK(r.c) /\ Asks(d, r, id)
    BY <2>2, Connecting
  <2> HIDE DEF r
  <2> QED
    BY <2>1, <2>2, <2>3 DEF Outcome, Asks
<1>3. CASE c.st \in {"CONNECTING", "AUTHENTICATING"}
  <2>1. RunTimers(c, n, id) = HandshakeFailed(c, n, id)
    BY <1>3 DEF RunTimers
  <2> QED
    BY <1>1, <2>1, FailingOutcome
<1>4. CASE c.st = "SECURING"
  <2>1. CASE c.tries >= SecuringPings
    <3>1. RunTimers(c, n, id) = HandshakeFailed(c, n, id)
      BY <1>4, <2>1 DEF RunTimers
    <3> QED
      BY <1>1, <3>1, FailingOutcome
  <2>2. CASE ~(c.tries >= SecuringPings)
    <3> DEFINE d == [c EXCEPT !.tries = @ + 1]
               r == SendPing(d, id)
    <3>1. RunTimers(c, n, id) = r
      BY <1>4, <2>2 DEF RunTimers
    <3>2. c.tries + 1 \in 0 .. SecuringPings
      BY <1>1, <2>2, ClientAssumption DEF Client
    <3>3. ClientOK(d) /\ Keeps(c, d)
      BY <3>2 DEF ClientOK, Keeps, Client, Shared
    <3> HIDE DEF d
    <3>4. ClientOK(r.c) /\ KeepsOn(d, r)
      BY <3>3, Pinging
    <3> HIDE DEF r
    <3> QED
      BY <3>1, <3>3, <3>4 DEF Outcome, KeepsOn, Keeps
  <2> QED
    BY <2>1, <2>2
<1>5. CASE c.st = "CONNECTED"
  <2>1. RunTimers(c, n, id) = Heartbeat(c, id)
    BY <1>5 DEF RunTimers
  <2> QED
    BY <2>1, HeartbeatOutcome
<1> QED
  BY <1>1, <1>2, <1>3, <1>4, <1>5 DEF Client, State

\* begin() and end() give up what there was.
LEMMA StoppedOutcome ==
    ASSUME NEW c \in Client
    PROVE  ClientOK(Stopped(c)) /\ Keeps(c, Stopped(c)) /\ Stopped(c) \in Client /\ Stopped(c).cid = 0
<1> DEFINE s == [Off EXCEPT !.generation = c.generation, !.will = c.will]
<1>1. Stopped(c) = s
  BY DEF Stopped
<1>2. /\ s.st = "STOPPED" /\ s.gw = FALSE /\ s.generation = c.generation /\ s.cid = 0
      /\ s.clientNonce = 0 /\ s.gatewayNonce = 0 /\ s.connectId = 0 /\ s.authId = 0 /\ s.pingId = 0
      /\ s.tries = 0 /\ s.missed = 0 /\ s.failures = 0 /\ s.key = NoPeer /\ s.backoff = FALSE
      /\ s.will = c.will
  BY DEF Off
<1>3. /\ 0 \in 0 .. MaxCid /\ 0 \in Nonce /\ 0 \in 0 .. SecuringPings /\ 0 \in 0 .. MissedBeforeLost
      /\ 0 \in 0 .. HandshakeAttempts
  BY Constants, ClientAssumption
<1>4. s \in Client
  BY <1>3 DEF Off, Client, State
<1> HIDE DEF s
<1> QED
  BY <1>1, <1>2, <1>4 DEF ClientOK, Keeps

LEMMA BeginOutcome ==
    ASSUME NEW c \in Client
    PROVE  ClientOK(Begin(c)) /\ Keeps(c, Begin(c))
<1>1. Stopped(c) \in Client /\ Stopped(c).cid = 0 /\ Keeps(c, Stopped(c))
  BY StoppedOutcome
<1>2. Begin(c) = [Stopped(c) EXCEPT !.st = "SEARCHING"]
  BY DEF Begin
<1> DEFINE s == Stopped(c)
<1> HIDE DEF s
<1>3. [s EXCEPT !.st = "SEARCHING"] \in Client /\ [s EXCEPT !.st = "SEARCHING"].cid = 0
      /\ Keeps(c, [s EXCEPT !.st = "SEARCHING"])
  BY <1>1 DEF s, Client, State, Keeps
<1> QED
  BY <1>2, <1>3 DEF ClientOK, s

LEMMA EndOutcome ==
    ASSUME NEW c, ClientOK(c), NEW id \in MsgId
    PROVE  ClientOK(End(c, id).c) /\ KeepsOn(c, End(c, id))
<1> DEFINE s == Stopped(c)
           r == Sending(s, "DISCONNECT", id, c.cid, NoData)
<1>1. c \in Client /\ c.cid \in Nat
  BY Constants DEF ClientOK, Client
<1>2. ClientOK(s) /\ Keeps(c, s)
  BY <1>1, StoppedOutcome
<1>3. End(c, id) \in {r, Quiet(s)}
  BY DEF End
<1> HIDE DEF s
<1>4. "DISCONNECT" \in FromClient /\ NoData \in Payload("DISCONNECT")
  BY Payloads DEF FromClient
<1>5. SendsOne(r, s, "DISCONNECT", id, NoData)
  BY <1>1, <1>4, FrameSent
<1> HIDE DEF r
<1>6. r.c = s /\ KeepsOn(c, r)
  BY <1>2, <1>5 DEF KeepsOn, Plainly, SendsOne
<1>7. Quiet(s).c = s /\ KeepsOn(c, Quiet(s))
  BY <1>2, QuietKeeps
<1> QED
  BY <1>2, <1>3, <1>6, <1>7

LEMMA EnterOutcome ==
    ASSUME NEW c, ClientOK(c)
    PROVE  ClientOK(EnterConnected(c)) /\ Keeps(c, EnterConnected(c))
<1>1. EnterConnected(c) = [c EXCEPT !.st = "CONNECTED"]
  BY DEF EnterConnected
<1> QED
  BY <1>1 DEF ClientOK, Keeps, Client, State

-------------------------------------------------------------------------------
(* The invariant along the steps.  r has no handshake frame that q has not, at *)
(* the place of a frame s later.                                               *)

Handshaking == {"CONNECT", "CHALLENGE", "AUTH", "CONNACK"}
Later(q, r, s) ==
    \A i \in DOMAIN r :
       i \in Nat /\ (r[i].type \in Handshaking => i + s \in DOMAIN q /\ r[i] = q[i + s])
OnlyLater(q, r) == \E s \in Nat : Later(q, r, s)
\* A station's sessions in u are sessions it has in t.
NoOther(t, u) ==
    \A e \in u.devices : e.mac = Me => \E d \in t.devices : d.mac = Me /\ d.cid = e.cid /\ d.key = e.key

LEMMA HandshakesKept ==
    ASSUME NEW c, NEW u, NEW k, NEW t, Handshakes(c, u, k, t),
           NEW d, Keeps(c, d), NEW v \in Seq(UpFrame), OnlyLater(u, v),
           NEW l \in Seq(DownFrame), OnlyLater(k, l), NEW w, NoOther(t, w),
           d.cid # 0 => d.st \in {"SECURING", "CONNECTED"}
    PROVE  Handshakes(d, v, l, w)
<1>1. PICK s \in Nat : Later(u, v, s)
  BY DEF OnlyLater
<1>2. PICK x \in Nat : Later(k, l, x)
  BY DEF OnlyLater
<1>3. /\ \A i \in DOMAIN v : v[i].id # 0
      /\ \A i \in DOMAIN l : l[i].type \in {"CHALLENGE", "CONNACK"} => l[i].id # 0
  <2>1. ASSUME NEW i \in DOMAIN v PROVE v[i].id # 0
    <3>1. v[i] \in UpFrame
      OBVIOUS
    <3> QED
      BY <3>1, Constants DEF UpFrame
  <2>2. ASSUME NEW i \in DOMAIN l, l[i].type \in {"CHALLENGE", "CONNACK"} PROVE l[i].id # 0
    <3>1. l[i] \in DownFrame
      OBVIOUS
    <3> QED
      BY <2>2, <3>1, Constants DEF DownFrame
  <2> QED
    BY <2>1, <2>2
<1>4. \A i \in Auths(v) : i \in Nat /\ i + s \in Auths(u)
  BY <1>1 DEF Later, Auths, Handshaking
<1>5. \A i \in Connects(d, v) : i \in Nat /\ i + s \in Connects(c, u)
  BY <1>1, <1>3 DEF Later, Connects, At, Handshaking, Keeps
<1>6. \A i \in Challenges(d, l) : i \in Nat /\ i + x \in Challenges(c, k)
  BY <1>2, <1>3 DEF Later, Challenges, At, Handshaking, Keeps
<1>7. \A i \in At(v, "AUTH", d.authId) : i \in Nat /\ i + s \in At(u, "AUTH", c.authId) /\ v[i] = u[i + s]
  BY <1>1, <1>3 DEF Later, At, Handshaking, Keeps
<1>8. \A i \in Acks(d, l) : i \in Nat /\ i + x \in Acks(c, k) /\ l[i] = k[i + x]
  BY <1>2, <1>3 DEF Later, Acks, At, Handshaking, Keeps
<1>9. AskedOnce(d, v, l)
  <2>1. AskedOnce(c, u, k)
    BY DEF Handshakes
  <2>2. \A i, j \in Connects(d, v) : i = j
    BY <1>5, <2>1 DEF AskedOnce
  <2>3. \A i, j \in Challenges(d, l) : i = j
    BY <1>6, <2>1 DEF AskedOnce
  <2>4. Connects(d, v) = {} \/ Challenges(d, l) = {}
    BY <1>5, <1>6, <2>1 DEF AskedOnce
  <2>5. \A i \in Connects(d, v) : \A j \in Auths(v) : j < i
    BY <1>4, <1>5, <2>1 DEF AskedOnce
  <2>6. Challenges(d, l) # {} => Auths(v) = {}
    BY <1>4, <1>6, <2>1 DEF AskedOnce
  <2> QED
    BY <2>2, <2>3, <2>4, <2>5, <2>6 DEF AskedOnce
<1>10. ProvenOnce(d, v, l, w)
  <2>1. ProvenOnce(c, u, k, t)
    BY DEF Handshakes
  <2>2. ASSUME NEW i \in At(v, "AUTH", d.authId)
        PROVE  Auths(v) = {i} /\ (d.st = "AUTHENTICATING" => v[i].data = Shared(d))
    <3>1. i \in Nat /\ i + s \in At(u, "AUTH", c.authId) /\ v[i] = u[i + s]
      BY <1>7
    <3>2. Auths(u) = {i + s} /\ (c.st = "AUTHENTICATING" => u[i + s].data = Shared(c))
      BY <2>1, <3>1 DEF ProvenOnce
    <3>3. \A j \in Auths(v) : j \in Nat /\ j + s = i + s
      BY <1>4, <3>2
    <3>4. \A j \in Auths(v) : j = i
      BY <3>1, <3>3
    <3>5. i \in Auths(v)
      BY DEF At, Auths
    <3> QED
      BY <3>1, <3>2, <3>4, <3>5 DEF Keeps
  <2>3. Acks(d, l) # {} => Auths(v) = {}
    BY <1>4, <1>8, <2>1 DEF ProvenOnce
  <2>4. ASSUME d.st = "AUTHENTICATING", NEW i \in Acks(d, l), NEW e \in w.devices,
               e.mac = Me, e.cid = l[i].cid
        PROVE  e.key = Shared(d)
    <3>1. i + x \in Acks(c, k) /\ l[i] = k[i + x]
      BY <1>8
    <3>2. PICK o \in t.devices : o.mac = Me /\ o.cid = e.cid /\ o.key = e.key
      BY <2>4 DEF NoOther
    <3> QED
      BY <2>1, <2>4, <3>1, <3>2 DEF ProvenOnce, Keeps
  <2> QED
    BY <2>2, <2>3, <2>4 DEF ProvenOnce
<1>11. Joined(d, v, w)
  <2>1. Joined(c, u, t)
    BY DEF Handshakes
  <2> SUFFICES ASSUME d.cid # 0 PROVE Joined(d, v, w)
    BY DEF Joined
  <2>2. c.cid # 0 /\ d.cid = c.cid /\ d.key = c.key
    BY DEF Keeps
  <2>3. Auths(v) = {}
    BY <1>4, <2>1, <2>2 DEF Joined
  <2>4. ASSUME NEW e \in w.devices, e.mac = Me, e.cid = d.cid PROVE e.key = d.key
    <3>1. PICK o \in t.devices : o.mac = Me /\ o.cid = e.cid /\ o.key = e.key
      BY <2>4 DEF NoOther
    <3> QED
      BY <2>1, <2>2, <2>4, <3>1 DEF Joined
  <2> QED
    BY <2>3, <2>4 DEF Joined
<1> QED
  BY <1>9, <1>10, <1>11 DEF Handshakes

\* What dequeuing, clearing and queueing another kind of frame come to.
LEMMA NothingNew ==
    ASSUME NEW S, NEW q \in Seq(S), NEW r,
           \/ r = q \/ r = <<>> \/ (q # <<>> /\ r = Tail(q))
           \/ \E f \in S : r = q \o <<f>> /\ f.type \notin Handshaking
    PROVE  OnlyLater(q, r) /\ r \in Seq(S)
<1>1. CASE r = q
  <2>1. Later(q, r, 0)
    BY <1>1 DEF Later
  <2> QED
    BY <1>1, <2>1 DEF OnlyLater
<1>2. CASE r = <<>>
  <2>1. Later(q, r, 0)
    BY <1>2 DEF Later
  <2> QED
    BY <1>2, <2>1 DEF OnlyLater
<1>3. CASE q # <<>> /\ r = Tail(q)
  <2>1. Later(q, r, 1) /\ r \in Seq(S)
    BY <1>3, Dequeued DEF Later
  <2> QED
    BY <2>1 DEF OnlyLater
<1>4. ASSUME NEW f \in S, r = q \o <<f>>, f.type \notin Handshaking
      PROVE  OnlyLater(q, r) /\ r \in Seq(S)
  <2>1. /\ r \in Seq(S) /\ DOMAIN r = DOMAIN q \cup {Len(q) + 1} /\ r[Len(q) + 1] = f
        /\ Len(q) \in Nat /\ \A i \in DOMAIN q : r[i] = q[i] /\ i \in Nat
    BY <1>4, Enqueued
  <2>2. Later(q, r, 0)
    BY <1>4, <2>1 DEF Later
  <2> QED
    BY <2>1, <2>2 DEF OnlyLater
<1> QED
  BY <1>1, <1>2, <1>3, <1>4

\* A new CONNECT makes every frame of the handshakes before it stale.
LEMMA AskingKeeps ==
    ASSUME NEW c, NEW u \in Seq(UpFrame), NEW k, NEW t, Handshakes(c, u, k, t),
           NEW id \in MsgId, \A i \in DOMAIN u : u[i].id # id, \A i \in DOMAIN k : k[i].id # id,
           NEW r, Asks(c, r, id), NEW v, v = u \/ v = u \o r.out,
           NEW l \in Seq(DownFrame), k = l \/ OnlyLater(k, l)
    PROVE  Handshakes(r.c, v, l, t) /\ v \in Seq(UpFrame)
<1>1. PICK f \in UpFrame : r.out = <<f>> /\ f.type = "CONNECT" /\ f.id = id
  BY DEF Asks
<1>2. r.c.connectId = id /\ r.c.authId = c.authId /\ r.c.cid = 0 /\ r.c.st # "AUTHENTICATING"
  BY DEF Asks
<1>3. PICK x \in Nat : Later(k, l, x)
  <2>1. CASE k = l
    <3>1. Later(k, l, 0)
      BY <2>1 DEF Later
    <3> QED
      BY <3>1
  <2>2. CASE OnlyLater(k, l)
    BY <2>2 DEF OnlyLater
  <2> QED
    BY <2>1, <2>2
<1>4. /\ v \in Seq(UpFrame) /\ Len(u) \in Nat
      /\ \A i \in DOMAIN v : /\ i \in Nat
                             /\ \/ i \in DOMAIN u /\ v[i] = u[i] /\ i <= Len(u)
                                \/ i = Len(u) + 1 /\ v[i] = f
  <2>1. CASE v = u
    BY <2>1
  <2>2. CASE v = u \o <<f>>
    <3>1. /\ v \in Seq(UpFrame) /\ DOMAIN v = DOMAIN u \cup {Len(u) + 1} /\ v[Len(u) + 1] = f
          /\ Len(u) \in Nat /\ \A i \in DOMAIN u : v[i] = u[i] /\ i \in Nat /\ i <= Len(u)
      BY <2>2, Enqueued
    <3> QED
      BY <3>1
  <2> QED
    BY <1>1, <2>1, <2>2
<1>5. Challenges(r.c, l) = {}
  <2> SUFFICES ASSUME NEW i \in DOMAIN l, l[i].type = "CHALLENGE", l[i].id = id PROVE FALSE
    BY <1>2 DEF Challenges, At
  <2> QED
    BY <1>3 DEF Later, Handshaking
<1>6. \A i \in Connects(r.c, v) : i = Len(u) + 1
  BY <1>2, <1>4 DEF Connects, At
<1>7. \A i \in Auths(v) : i \in Auths(u) /\ v[i] = u[i] /\ i \in Nat /\ i <= Len(u)
  BY <1>1, <1>4 DEF Auths
<1>8. \A i \in Auths(u) : i \in Auths(v) /\ v[i] = u[i]
  <2>1. \A i \in DOMAIN u : i \in DOMAIN v /\ v[i] = u[i]
    <3>1. CASE v = u
      BY <3>1
    <3>2. CASE v = u \o <<f>>
      BY <3>2, Enqueued
    <3> QED
      BY <1>1, <3>1, <3>2
  <2> QED
    BY <2>1 DEF Auths
<1>9. AskedOnce(r.c, v, l)
  <2>1. \A i \in Connects(r.c, v) : \A j \in Auths(v) : j < i
    BY <1>4, <1>6, <1>7
  <2> QED
    BY <1>5, <1>6, <2>1 DEF AskedOnce
<1>10. ProvenOnce(r.c, v, l, t)
  <2>1. ProvenOnce(c, u, k, t)
    BY DEF Handshakes
  <2>2. \A i \in At(v, "AUTH", r.c.authId) : i \in At(u, "AUTH", c.authId)
    BY <1>2, <1>7 DEF At, Auths
  <2>3. \A i \in At(v, "AUTH", r.c.authId) : Auths(v) = {i}
    BY <1>7, <1>8, <2>1, <2>2 DEF ProvenOnce
  <2>4. Acks(r.c, l) # {} => Acks(c, k) # {}
    BY <1>2, <1>3 DEF Acks, At, Later, Handshaking
  <2>5. Acks(r.c, l) # {} => Auths(v) = {}
    BY <1>7, <2>1, <2>4 DEF ProvenOnce
  <2> QED
    BY <1>2, <2>3, <2>5 DEF ProvenOnce
<1>11. Joined(r.c, v, t)
  BY <1>2 DEF Joined
<1> QED
  BY <1>4, <1>9, <1>10, <1>11 DEF Handshakes

\* The CHALLENGE of the latest CONNECT is the last there is: the AUTH is alone.
LEMMA ProvingKeeps ==
    ASSUME NEW c, NEW u \in Seq(UpFrame), NEW k \in Seq(DownFrame), NEW t, Handshakes(c, u, k, t),
           k # <<>>, NEW f, f = Head(k), NEW l, l = Tail(k),
           NEW id \in MsgId, \A i \in DOMAIN k : k[i].id # id,
           NEW r, ProvesFor(c, f, r, id), NEW v, v = u \/ v = u \o r.out
    PROVE  Handshakes(r.c, v, l, t) /\ v \in Seq(UpFrame)
<1>1. PICK g \in UpFrame : r.out = <<g>> /\ g.type = "AUTH" /\ g.id = id /\ g.data = Shared(r.c)
  BY DEF ProvesFor
<1>2. /\ f.type = "CHALLENGE" /\ f.id = c.connectId
      /\ r.c.connectId = c.connectId /\ r.c.authId = id /\ r.c.cid = 0
  BY DEF ProvesFor
<1>3. /\ 1 \in DOMAIN k /\ Head(k) = k[1]
      /\ \A i \in DOMAIN l : i \in Nat /\ i >= 1 /\ i + 1 \in DOMAIN k /\ l[i] = k[i + 1]
  BY Dequeued
<1>4. 1 \in Challenges(c, k)
  BY <1>2, <1>3 DEF Challenges, At
<1>5. AskedOnce(c, u, k)
  BY DEF Handshakes
<1>6. Connects(c, u) = {} /\ Auths(u) = {} /\ \A i \in Challenges(c, k) : i = 1
  BY <1>4, <1>5 DEF AskedOnce
<1>7. Challenges(r.c, l) = {}
  <2> SUFFICES ASSUME NEW i \in DOMAIN l, l[i].type = "CHALLENGE", l[i].id = c.connectId PROVE FALSE
    BY <1>2 DEF Challenges, At
  <2>1. i + 1 \in Challenges(c, k) /\ i \in Nat /\ i >= 1
    BY <1>3 DEF Challenges, At
  <2>2. i + 1 = 1
    BY <1>6, <2>1
  <2> QED
    BY <2>1, <2>2
<1>8. Acks(r.c, l) = {}
  BY <1>2, <1>3 DEF Acks, At
<1>9. /\ v \in Seq(UpFrame)
      /\ \A i \in DOMAIN v : (i \in DOMAIN u /\ v[i] = u[i]) \/ (i = Len(u) + 1 /\ v[i] = g)
  <2>1. CASE v = u
    BY <2>1
  <2>2. CASE v = u \o <<g>>
    BY <2>2, Enqueued
  <2> QED
    BY <1>1, <2>1, <2>2
<1>10. Connects(r.c, v) = {}
  BY <1>1, <1>2, <1>6, <1>9 DEF Connects, At
<1>11. \A i \in Auths(v) : i = Len(u) + 1 /\ v[i] = g
  BY <1>6, <1>9 DEF Auths
<1>12. AskedOnce(r.c, v, l)
  BY <1>7, <1>10 DEF AskedOnce
<1>13. ProvenOnce(r.c, v, l, t)
  <2>1. \A i \in At(v, "AUTH", r.c.authId) : Auths(v) = {i} /\ v[i].data = Shared(r.c)
    BY <1>1, <1>11 DEF At, Auths
  <2> QED
    BY <1>8, <2>1 DEF ProvenOnce
<1>14. Joined(r.c, v, t)
  BY <1>2 DEF Joined
<1> QED
  BY <1>9, <1>12, <1>13, <1>14 DEF Handshakes

\* The CONNACK names the session that has the key, and nothing can change it.
LEMMA JoiningKeeps ==
    ASSUME NEW c, NEW u \in Seq(UpFrame), NEW k \in Seq(DownFrame), NEW t, Handshakes(c, u, k, t),
           k # <<>>, NEW f, f = Head(k), NEW l, l = Tail(k), NEW r, JoinsBy(c, f, r),
           NEW v, v = u \/ v = u \o r.out
    PROVE  Handshakes(r.c, v, l, t) /\ v \in Seq(UpFrame)
<1>1. /\ f.type = "CONNACK" /\ f.id = c.authId /\ c.st = "AUTHENTICATING"
      /\ r.c.connectId = c.connectId /\ r.c.authId = c.authId
      /\ r.c.cid = f.cid /\ r.c.key = Shared(c) /\ r.c.st = "SECURING" /\ Plainly(r.out)
  BY DEF JoinsBy
<1>2. 1 \in DOMAIN k /\ Head(k) = k[1]
  BY Dequeued
<1>3. 1 \in Acks(c, k)
  BY <1>1, <1>2 DEF Acks, At
<1>4. ProvenOnce(c, u, k, t)
  BY DEF Handshakes
<1>5. Auths(u) = {} /\ \A d \in t.devices : d.mac = Me /\ d.cid = f.cid => d.key = Shared(c)
  BY <1>1, <1>2, <1>3, <1>4 DEF ProvenOnce
<1>6. OnlyLater(u, v) /\ v \in Seq(UpFrame)
  <2>1. v = u \/ \E g \in UpFrame : v = u \o <<g>> /\ g.type \notin Handshaking
    <3>1. CASE r.out = <<>>
      BY <3>1
    <3>2. ASSUME NEW g \in UpFrame, r.out = <<g>>, g.type \notin {"CONNECT", "AUTH"}
          PROVE  g.type \notin Handshaking
      BY <3>2 DEF UpFrame, Frame, FromClient, Handshaking
    <3> QED
      BY <1>1, <3>1, <3>2 DEF Plainly
  <2> QED
    BY <2>1, NothingNew
<1>7. OnlyLater(k, l) /\ l \in Seq(DownFrame)
  BY NothingNew
<1>8. AskedOnce(r.c, v, l) /\ ProvenOnce(r.c, v, l, t) /\ Auths(v) = {}
  <2> DEFINE q == [st |-> "SECURING", connectId |-> r.c.connectId, authId |-> r.c.authId, cid |-> 0]
  <2>1. Keeps(c, q) /\ q.cid = 0 /\ q.connectId = r.c.connectId /\ q.authId = r.c.authId /\ q.st = "SECURING"
    BY <1>1 DEF Keeps
  <2> HIDE DEF q
  <2>2. NoOther(t, t)
    BY DEF NoOther
  <2>3. Handshakes(q, v, l, t)
    BY <1>6, <1>7, <2>1, <2>2, HandshakesKept
  <2>4. AskedOnce(r.c, v, l)
    BY <2>1, <2>3 DEF Handshakes, AskedOnce, Connects, Challenges
  <2>5. ProvenOnce(r.c, v, l, t)
    BY <1>1, <2>1, <2>3 DEF Handshakes, ProvenOnce, Acks
  <2>6. Auths(v) = {}
    <3>1. PICK s \in Nat : Later(u, v, s)
      BY <1>6 DEF OnlyLater
    <3> QED
      BY <1>5, <3>1 DEF Later, Auths, Handshaking
  <2> QED
    BY <2>4, <2>5, <2>6
<1>9. Joined(r.c, v, t)
  BY <1>1, <1>5, <1>8 DEF Joined
<1> QED
  BY <1>6, <1>8, <1>9 DEF Handshakes

LEMMA PlainIsNotNew ==
    ASSUME NEW u \in Seq(UpFrame), NEW out, Plainly(out), NEW v, v = u \/ v = u \o out
    PROVE  OnlyLater(u, v) /\ v \in Seq(UpFrame)
<1>1. v = u \/ \E g \in UpFrame : v = u \o <<g>> /\ g.type \notin Handshaking
  <2>1. CASE out = <<>>
    BY <2>1
  <2>2. ASSUME NEW g \in UpFrame, out = <<g>>, g.type \notin {"CONNECT", "AUTH"}
        PROVE  g.type \notin Handshaking
    BY <2>2 DEF UpFrame, Frame, FromClient, Handshaking
  <2> QED
    BY <2>1, <2>2 DEF Plainly
<1> QED
  BY <1>1, NothingNew

LEMMA KeepingKeeps ==
    ASSUME NEW c, NEW u \in Seq(UpFrame), NEW k \in Seq(DownFrame), NEW t, Handshakes(c, u, k, t),
           NEW l, l = k \/ (k # <<>> /\ l = Tail(k)), NEW r, ClientOK(r.c), KeepsOn(c, r),
           NEW v, v = u \/ v = u \o r.out
    PROVE  Handshakes(r.c, v, l, t) /\ v \in Seq(UpFrame)
<1>1. Plainly(r.out) /\ Keeps(c, r.c)
  BY DEF KeepsOn
<1>2. OnlyLater(u, v) /\ v \in Seq(UpFrame)
  BY <1>1, PlainIsNotNew
<1>3. OnlyLater(k, l) /\ l \in Seq(DownFrame)
  BY NothingNew
<1>4. NoOther(t, t) /\ (r.c.cid # 0 => r.c.st \in {"SECURING", "CONNECTED"})
  BY DEF NoOther, ClientOK
<1> QED
  BY <1>1, <1>2, <1>3, <1>4, HandshakesKept

\* The client task handles the frame at the head of its queue.
LEMMA HandlingKeeps ==
    ASSUME NEW c, NEW u \in Seq(UpFrame), NEW k \in Seq(DownFrame), NEW t, Handshakes(c, u, k, t),
           k # <<>>, NEW f, f = Head(k), NEW l, l = Tail(k),
           NEW id \in MsgId, \A i \in DOMAIN u : u[i].id # id, \A i \in DOMAIN k : k[i].id # id,
           NEW r, Outcome(c, f, r, id), NEW v, v = u \/ v = u \o r.out
    PROVE  Handshakes(r.c, v, l, t) /\ v \in Seq(UpFrame)
<1>1. ClientOK(r.c) /\ OnlyLater(k, l) /\ l \in Seq(DownFrame)
  BY NothingNew DEF Outcome
<1>2. CASE KeepsOn(c, r)
  BY <1>1, <1>2, KeepingKeeps
<1>3. CASE Asks(c, r, id)
  BY <1>1, <1>3, AskingKeeps
<1>4. CASE ProvesFor(c, f, r, id)
  BY <1>4, ProvingKeeps
<1>5. CASE JoinsBy(c, f, r)
  BY <1>5, JoiningKeeps
<1> QED
  BY <1>2, <1>3, <1>4, <1>5 DEF Outcome

-------------------------------------------------------------------------------
(* The steps of the station.                                                   *)

LEMMA BrokerStays == IInv /\ UNCHANGED vars => IInv'
BY DEF IInv, Consistent, Sound, Distinct, Keyed, OneEach, PeersAgree, Station, Active, HasPending,
       HasSession, PendingSlots, TypeOK, RepliesOK, vars

LEMMA LinkAfter ==
    ASSUME IInv', ClientOK(client'), uplink' \in Seq(UpFrame), Len(uplink') <= UplinkDepth,
           control' \in Seq(DownFrame), Len(control') <= ControlDepth, SurroundingsOK',
           Handshakes(client', uplink', control', table')
    PROVE  LinkInv'
BY DEF LinkInv, QueuesOK, ClientOK

LEMMA LinkNow ==
    ASSUME LinkInv
    PROVE  /\ IInv /\ ClientOK(client) /\ client \in Client /\ SurroundingsOK /\ QueuesOK
           /\ uplink \in Seq(UpFrame) /\ Len(uplink) <= UplinkDepth
           /\ control \in Seq(DownFrame) /\ Len(control) <= ControlDepth
           /\ Handshakes(client, uplink, control, table)
           /\ FreshId \in MsgId /\ FreshNonce \in Nonce /\ FreshNonce \notin UsedNonces
           /\ \A i \in DOMAIN uplink : uplink[i].id # FreshId
           /\ \A i \in DOMAIN control : control[i].id # FreshId
<1>1. IInv /\ client \in Client /\ SurroundingsOK /\ QueuesOK /\ Handshakes(client, uplink, control, table)
  BY DEF LinkInv
<1>2. ClientOK(client)
  BY <1>1 DEF Handshakes, Joined, ClientOK
<1>3. FreshId \in MsgId /\ FreshId \notin UsedIds
  BY <1>1, FreshIdIs
<1>4. FreshNonce \in Nonce /\ FreshNonce \notin UsedNonces
  BY <1>1, FreshNonceIs
<1>5. /\ \A i \in DOMAIN uplink : uplink[i].id # FreshId
      /\ \A i \in DOMAIN control : control[i].id # FreshId
  BY <1>3 DEF UsedIds
<1> QED
  BY <1>1, <1>2, <1>3, <1>4, <1>5 DEF QueuesOK

LEMMA SentToGateway ==
    ASSUME NEW sent, NEW p, ToGateway(sent, p), sent = <<>> \/ \E f \in UpFrame : sent = <<f>>,
           uplink \in Seq(UpFrame), Len(uplink) <= UplinkDepth
    PROVE  (uplink' = uplink \/ uplink' = uplink \o sent) /\ Len(uplink') <= UplinkDepth
<1>1. uplink' = uplink \/ (Len(uplink) < UplinkDepth /\ uplink' = uplink \o sent)
  BY DEF ToGateway
<1>2. CASE uplink' = uplink
  BY <1>2
<1>3. CASE Len(uplink) < UplinkDepth /\ uplink' = uplink \o sent
  <2>1. CASE sent = <<>>
    BY <1>3, <2>1
  <2>2. ASSUME NEW f \in UpFrame, sent = <<f>> PROVE Len(uplink') <= UplinkDepth
    <3>1. Len(uplink') = Len(uplink) + 1 /\ Len(uplink) \in Nat
      BY <1>3, <2>2, Enqueued
    <3> QED
      BY <1>3, <3>1, Constants
  <2> QED
    BY <1>3, <2>1, <2>2
<1> QED
  BY <1>1, <1>2, <1>3

\* An outcome sends nothing, or one frame.
LEMMA OneSent ==
    ASSUME NEW c, NEW f, NEW r, NEW id, Outcome(c, f, r, id)
    PROVE  r.out = <<>> \/ \E g \in UpFrame : r.out = <<g>>
BY DEF Outcome, KeepsOn, Plainly, Asks, ProvesFor, JoinsBy

LEMMA ClientControlKeeps ==
    ASSUME LinkInv, ClientControl
    PROVE  LinkInv'
<1>1. PICK ok \in BOOLEAN : Does(HandleControl(client, Head(control), FreshNonce, FreshId, ok))
  BY DEF ClientControl
<1> DEFINE f == Head(control)
           r == HandleControl(client, f, FreshNonce, FreshId, ok)
<1>2. /\ control # <<>> /\ control' = Tail(control) /\ UNCHANGED <<vars, generation, app, calm>>
      /\ task' \in {"connected", task}
  BY DEF ClientControl
<1>3. /\ client' = r.c /\ ToGateway(r.out, r.c.key)
  BY <1>1 DEF Does
<1>4. f \in DownFrame /\ control' \in Seq(DownFrame) /\ Len(control') <= ControlDepth
  BY <1>2, LinkNow, Dequeued, Constants
<1>5. Outcome(client, f, r, FreshId)
  BY <1>4, LinkNow, ControlOutcome
<1> HIDE DEF r
<1>6. (uplink' = uplink \/ uplink' = uplink \o r.out) /\ Len(uplink') <= UplinkDepth
  BY <1>3, <1>5, OneSent, LinkNow, SentToGateway
<1>7. Handshakes(r.c, uplink', control', table) /\ uplink' \in Seq(UpFrame)
  BY <1>2, <1>5, <1>6, LinkNow, HandlingKeeps
<1>8. IInv' /\ SurroundingsOK' /\ table' = table
  BY <1>2, LinkNow, BrokerStays DEF SurroundingsOK, app, vars
<1>9. ClientOK(client')
  BY <1>3, <1>5 DEF Outcome
<1> QED
  BY <1>3, <1>4, <1>6, <1>7, <1>8, <1>9, LinkAfter

LEMMA ClientTimerKeeps ==
    ASSUME LinkInv, ClientTimer
    PROVE  LinkInv'
<1> DEFINE f == [type |-> "BEACON"]
           r == RunTimers(client, FreshNonce, FreshId)
<1>1. /\ client' = r.c /\ ToGateway(r.out, r.c.key) /\ client.st # "STOPPED"
      /\ UNCHANGED <<vars, control, generation, app, calm>> /\ task' = "control"
  BY DEF ClientTimer, Does
<1>2. Outcome(client, f, r, FreshId)
  BY <1>1, LinkNow, TimerOutcome
<1>3. f.type = "BEACON"
  OBVIOUS
<1> HIDE DEF r, f
<1>4. (uplink' = uplink \/ uplink' = uplink \o r.out) /\ Len(uplink') <= UplinkDepth
  BY <1>1, <1>2, OneSent, LinkNow, SentToGateway
<1>5. ClientOK(r.c) /\ (KeepsOn(client, r) \/ Asks(client, r, FreshId))
  BY <1>2, <1>3 DEF Outcome, ProvesFor, JoinsBy
<1>6. Handshakes(r.c, uplink', control, table) /\ uplink' \in Seq(UpFrame)
  <2>1. CASE KeepsOn(client, r)
    BY <1>4, <1>5, <2>1, LinkNow, KeepingKeeps
  <2>2. CASE Asks(client, r, FreshId)
    BY <1>4, <2>2, LinkNow, AskingKeeps
  <2> QED
    BY <1>5, <2>1, <2>2
<1>7. IInv' /\ SurroundingsOK' /\ table' = table /\ control' = control
  BY <1>1, LinkNow, BrokerStays DEF SurroundingsOK, app, vars
<1> QED
  BY <1>1, <1>4, <1>5, <1>6, <1>7, LinkNow, LinkAfter

LEMMA ClientEndKeeps ==
    ASSUME LinkInv, ClientEnd
    PROVE  LinkInv'
<1> DEFINE r == End(client, FreshId)
<1>1. /\ client' = r.c /\ ToGateway(r.out, client.key)
      /\ UNCHANGED <<vars, task, control, generation, app, calm>>
  BY DEF ClientEnd
<1>2. ClientOK(r.c) /\ KeepsOn(client, r)
  BY LinkNow, EndOutcome
<1> HIDE DEF r
<1>3. r.out = <<>> \/ \E f \in UpFrame : r.out = <<f>>
  BY <1>2 DEF KeepsOn, Plainly
<1>4. (uplink' = uplink \/ uplink' = uplink \o r.out) /\ Len(uplink') <= UplinkDepth
  BY <1>1, <1>3, LinkNow, SentToGateway
<1>5. Handshakes(r.c, uplink', control, table) /\ uplink' \in Seq(UpFrame)
  BY <1>2, <1>4, LinkNow, KeepingKeeps
<1>6. IInv' /\ SurroundingsOK' /\ table' = table /\ control' = control
  BY <1>1, LinkNow, BrokerStays DEF SurroundingsOK, app, vars
<1> QED
  BY <1>1, <1>2, <1>4, <1>5, <1>6, LinkNow, LinkAfter

\* A frame of an application task changes nothing of the handshake.
LEMMA AppSends ==
    ASSUME LinkInv, NEW out, Plainly(out), ToGateway(out, client.key), UNCHANGED <<vars, client, control>>,
           SurroundingsOK'
    PROVE  LinkInv'
<1> DEFINE r == [c |-> client, out |-> out]
<1>1. ClientOK(r.c) /\ KeepsOn(client, r) /\ r.out = out /\ r.c = client
  BY LinkNow DEF KeepsOn, Keeps
<1> HIDE DEF r
<1>2. out = <<>> \/ \E f \in UpFrame : out = <<f>>
  BY DEF Plainly
<1>3. (uplink' = uplink \/ uplink' = uplink \o out) /\ Len(uplink') <= UplinkDepth
  BY <1>2, LinkNow, SentToGateway
<1>4. Handshakes(client, uplink', control, table) /\ uplink' \in Seq(UpFrame)
  BY <1>1, <1>3, LinkNow, KeepingKeeps
<1>5. IInv' /\ table' = table /\ control' = control
  BY LinkNow, BrokerStays DEF vars
<1> QED
  BY <1>3, <1>4, <1>5, LinkNow, LinkAfter

LEMMA PublishFrameKeeps ==
    ASSUME LinkInv, PublishFrame
    PROVE  LinkInv'
<1>1. /\ captured # 0 /\ UNCHANGED <<vars, task_, control, generation, willing, calm>>
      /\ captured' \in {captured, 0}
  BY DEF PublishFrame
<1>2. SurroundingsOK' /\ UNCHANGED <<vars, client, control>>
  BY <1>1, LinkNow, Constants DEF SurroundingsOK, task_
<1>3. CASE client.gw
  <2> DEFINE f == [mac |-> Me, type |-> "MESSAGE", id |-> FreshId, cid |-> captured, data |-> NoData]
  <2>1. ToGateway(<<f>>, client.key)
    BY <1>3 DEF PublishFrame
  <2>2. f \in UpFrame /\ f.type = "MESSAGE"
    <3>1. "MESSAGE" \in FromClient /\ NoData \in Payload("MESSAGE") /\ captured \in Nat /\ FreshId \in MsgId
      BY LinkNow, Payloads, Constants DEF FromClient, SurroundingsOK
    <3>2. f \in Frame("MESSAGE") /\ f.mac = Me /\ f.id \in MsgId
      BY <3>1, Constants DEF Frame
    <3> QED
      BY <3>1, <3>2 DEF UpFrame
  <2> HIDE DEF f
  <2>3. Plainly(<<f>>)
    BY <2>2 DEF Plainly
  <2> QED
    BY <1>2, <2>1, <2>3, AppSends
<1>4. CASE ~client.gw
  <2>1. uplink' = uplink
    BY <1>4 DEF PublishFrame
  <2>2. IInv' /\ table' = table /\ client' = client /\ control' = control
    BY <1>2, LinkNow, BrokerStays DEF vars
  <2> QED
    BY <1>2, <2>1, <2>2, LinkNow, LinkAfter
<1> QED
  BY <1>3, <1>4

LEMMA WillSendKeeps ==
    ASSUME LinkInv, WillSend
    PROVE  LinkInv'
<1>1. UNCHANGED <<vars, client, control>> /\ SurroundingsOK'
  BY LinkNow DEF WillSend, SurroundingsOK, task_
<1>2. CASE client.st = "CONNECTED"
  <2>1. ToGateway(SendLastWill(client, FreshId).out, client.key)
    BY <1>2 DEF WillSend
  <2>2. Plainly(SendLastWill(client, FreshId).out)
    BY LinkNow, Willing DEF KeepsOn
  <2> QED
    BY <1>1, <2>1, <2>2, AppSends
<1>3. CASE client.st # "CONNECTED"
  <2>1. ToGateway(<<>>, client.key)
    BY <1>3 DEF WillSend, Quiet
  <2>2. Plainly(<<>>)
    BY DEF Plainly
  <2> QED
    BY <1>1, <2>1, <2>2, AppSends
<1> QED
  BY <1>2, <1>3

\* Everything else a station does sends nothing.
LEMMA ClientAlone ==
    ASSUME LinkInv, UNCHANGED vars, uplink' = uplink, control' = control \/ control' = <<>>,
           ClientOK(client'), Keeps(client, client'), SurroundingsOK'
    PROVE  LinkInv'
<1>1. OnlyLater(uplink, uplink) /\ OnlyLater(control, control') /\ control' \in Seq(DownFrame)
      /\ Len(control') <= ControlDepth
  <2>1. Len(<<>>) = 0
    OBVIOUS
  <2> QED
    BY <2>1, LinkNow, NothingNew, Constants
<1>2. IInv' /\ table' = table
  BY LinkNow, BrokerStays DEF vars
<1>3. NoOther(table, table) /\ (client'.cid # 0 => client'.st \in {"SECURING", "CONNECTED"})
  BY DEF NoOther, ClientOK
<1>4. Handshakes(client', uplink, control', table)
  BY <1>1, <1>3, LinkNow, HandshakesKept
<1> QED
  BY <1>1, <1>2, <1>4, LinkNow, LinkAfter

LEMMA OwnStepsKeep ==
    ASSUME LinkInv,
           \/ ClientConnected \/ ClientDrained \/ ClientBackoffOver \/ ClientBegin \/ ClientReboot
           \/ PublishBegin \/ WillStore \/ CalmDown
    PROVE  LinkInv'
<1>1. ClientOK(client) /\ client \in Client /\ Keeps(client, client) /\ SurroundingsOK
  BY LinkNow DEF Keeps
<1>2. CASE ClientConnected
  <2>1. ClientOK(client') /\ Keeps(client, client')
    BY <1>1, <1>2, EnterOutcome DEF ClientConnected
  <2>2. SurroundingsOK' /\ UNCHANGED <<vars, uplink, control>>
    BY <1>1, <1>2 DEF ClientConnected, SurroundingsOK, app
  <2> QED
    BY <2>1, <2>2, ClientAlone
<1>3. CASE ClientDrained \/ CalmDown
  <2>1. SurroundingsOK' /\ UNCHANGED <<vars, client, uplink, control>>
    BY <1>1, <1>3 DEF ClientDrained, CalmDown, SurroundingsOK, app, task_
  <2> QED
    BY <1>1, <2>1, ClientAlone
<1>4. CASE ClientBackoffOver
  <2>1. client' = [client EXCEPT !.backoff = FALSE]
    BY <1>4 DEF ClientBackoffOver
  <2>2. ClientOK(client') /\ Keeps(client, client')
    BY <1>1, <2>1 DEF ClientOK, Keeps, Client, Shared
  <2>3. SurroundingsOK' /\ UNCHANGED <<vars, uplink, control>>
    BY <1>1, <1>4 DEF ClientBackoffOver, SurroundingsOK, app
  <2> QED
    BY <2>2, <2>3, ClientAlone
<1>5. CASE ClientBegin
  <2>1. ClientOK(client') /\ Keeps(client, client')
    BY <1>1, <1>5, BeginOutcome DEF ClientBegin
  <2>2. SurroundingsOK' /\ UNCHANGED <<vars, uplink>> /\ control' = <<>>
    BY <1>1, <1>5 DEF ClientBegin, SurroundingsOK, app
  <2> QED
    BY <2>1, <2>2, ClientAlone
<1>6. CASE ClientReboot
  <2>1. Off.cid = 0 /\ Off.connectId = 0 /\ Off.authId = 0 /\ Off.st = "STOPPED"
    BY DEF Off
  <2>2. Off \in Client
    <3>1. /\ 0 \in 0 .. MaxCid /\ 0 \in Nonce /\ 0 \in 0 .. SecuringPings /\ 0 \in 0 .. MissedBeforeLost
          /\ 0 \in 0 .. HandshakeAttempts /\ 0 \in 0 .. MaxGeneration
      BY Constants, ClientAssumption
    <3> QED
      BY <3>1 DEF Off, Client, State
  <2>3. ClientOK(client') /\ Keeps(client, client')
    BY <1>6, <2>1, <2>2 DEF ClientReboot, ClientOK, Keeps
  <2>4. SurroundingsOK' /\ UNCHANGED <<vars, uplink>> /\ control' = <<>>
    <3>1. 0 \in 0 .. MaxCid
      BY Constants
    <3>2. captured' = 0 /\ willing' = FALSE /\ control' = <<>> /\ UNCHANGED <<vars, task, uplink, generation, calm>>
      BY <1>6 DEF ClientReboot
    <3> QED
      BY <1>1, <3>1, <3>2 DEF SurroundingsOK
  <2> QED
    BY <2>3, <2>4, ClientAlone
<1>7. CASE PublishBegin
  <2>1. client.cid \in 0 .. MaxCid
    BY <1>1 DEF Client
  <2>2. SurroundingsOK' /\ UNCHANGED <<vars, client, uplink, control>>
    BY <1>1, <1>7, <2>1 DEF PublishBegin, SurroundingsOK, task_
  <2> QED
    BY <1>1, <2>2, ClientAlone
<1>8. CASE WillStore
  <2>1. PICK w \in Will : client' = [client EXCEPT !.will = w]
    BY <1>8 DEF WillStore
  <2>2. ClientOK(client') /\ Keeps(client, client')
    BY <1>1, <2>1 DEF ClientOK, Keeps, Client, Shared
  <2>3. SurroundingsOK' /\ UNCHANGED <<vars, uplink, control>>
    BY <1>1, <1>8 DEF WillStore, SurroundingsOK
  <2> QED
    BY <2>2, <2>3, ClientAlone
<1> QED
  BY <1>2, <1>3, <1>4, <1>5, <1>6, <1>7, <1>8

-------------------------------------------------------------------------------
(* The steps of the gateway.                                                   *)

LEMMA QueueingKeeps ==
    ASSUME NEW c, NEW v, NEW k \in Seq(DownFrame), NEW t, Handshakes(c, v, k, t),
           NEW r \in DownFrame, NEW l, l = k \o <<r>>,
           r.type = "CHALLENGE" /\ r.id = c.connectId =>
              Challenges(c, k) = {} /\ Connects(c, v) = {} /\ Auths(v) = {},
           r.type = "CONNACK" /\ r.id = c.authId =>
              /\ Auths(v) = {}
              /\ c.st = "AUTHENTICATING" =>
                    \A d \in t.devices : d.mac = Me /\ d.cid = r.cid => d.key = Shared(c)
    PROVE  Handshakes(c, v, l, t)
<1>1. /\ DOMAIN l = DOMAIN k \cup {Len(k) + 1} /\ l[Len(k) + 1] = r
      /\ \A i \in DOMAIN k : l[i] = k[i]
  BY Enqueued
<1>2. \A i \in DOMAIN l : (i \in DOMAIN k /\ l[i] = k[i]) \/ (i = Len(k) + 1 /\ l[i] = r)
  BY <1>1
<1>3. AskedOnce(c, v, k) /\ ProvenOnce(c, v, k, t) /\ Joined(c, v, t)
  BY DEF Handshakes
<1>4. CASE r.type = "CHALLENGE" /\ r.id = c.connectId
  <2>1. \A i \in Challenges(c, l) : i = Len(k) + 1
    BY <1>2, <1>4 DEF Challenges, At
  <2>2. AskedOnce(c, v, l)
    BY <1>4, <2>1 DEF AskedOnce
  <2>3. \A i \in Acks(c, l) : i \in Acks(c, k) /\ l[i] = k[i]
    BY <1>2, <1>4 DEF Acks, At
  <2>4. ProvenOnce(c, v, l, t)
    BY <1>3, <2>3 DEF ProvenOnce
  <2> QED
    BY <1>3, <2>2, <2>4 DEF Handshakes
<1>5. CASE ~(r.type = "CHALLENGE" /\ r.id = c.connectId)
  <2>1. \A i \in Challenges(c, l) : i \in Challenges(c, k)
    BY <1>2, <1>5 DEF Challenges, At
  <2>2. AskedOnce(c, v, l)
    BY <1>3, <2>1 DEF AskedOnce
  <2>3. \A i \in Acks(c, l) : (i \in Acks(c, k) /\ l[i] = k[i]) \/ (l[i] = r /\ r.type = "CONNACK" /\ r.id = c.authId)
    BY <1>2 DEF Acks, At
  <2>4. Acks(c, l) # {} => Auths(v) = {}
    BY <1>3, <2>3 DEF ProvenOnce
  <2>5. ASSUME c.st = "AUTHENTICATING", NEW i \in Acks(c, l), NEW d \in t.devices, d.mac = Me, d.cid = l[i].cid
        PROVE  d.key = Shared(c)
    BY <1>3, <2>3, <2>5 DEF ProvenOnce
  <2>6. ProvenOnce(c, v, l, t)
    BY <1>3, <2>4, <2>5 DEF ProvenOnce
  <2> QED
    BY <1>3, <2>2, <2>6 DEF Handshakes
<1> QED
  BY <1>4, <1>5

\* What r answers to f, t being the table afterwards.
Answers(f, r, t) ==
    \/ r.type \notin Handshaking
    \/ r.type = "CHALLENGE" /\ f.type = "CONNECT" /\ r.id = f.id
    \/ /\ r.type = "CONNACK" /\ f.type = "AUTH" /\ r.id = f.id /\ r.cid \in Cid
       /\ \A e \in t.devices : e.mac = f.mac => e.key = f.data

LEMMA AnsweringKeeps ==
    ASSUME NEW c, ClientOK(c), NEW u \in Seq(UpFrame), NEW k \in Seq(DownFrame), NEW t, Handshakes(c, u, k, t),
           u # <<>>, NEW f, f = Head(u), NEW v, v = Tail(u), NEW w, f.type # "AUTH" => NoOther(t, w),
           NEW l, l = k \/ \E r \in DownFrame : l = k \o <<r>> /\ Answers(f, r, w)
    PROVE  Handshakes(c, v, l, w) /\ v \in Seq(UpFrame)
<1>1. /\ v \in Seq(UpFrame) /\ 1 \in DOMAIN u /\ Head(u) = u[1] /\ Head(u) \in UpFrame
      /\ \A i \in DOMAIN v : i \in Nat /\ i >= 1 /\ i + 1 \in DOMAIN u /\ v[i] = u[i + 1]
      /\ DOMAIN u \subseteq Nat /\ \A i \in DOMAIN u : i >= 1
  BY Dequeued
<1>2. OnlyLater(u, v) /\ OnlyLater(k, k)
  BY NothingNew
<1>3. Keeps(c, c) /\ (c.cid # 0 => c.st \in {"SECURING", "CONNECTED"})
  BY DEF Keeps, ClientOK
<1>4. f.type = "AUTH" => Acks(c, k) = {} /\ c.cid = 0
  <2> SUFFICES ASSUME f.type = "AUTH" PROVE Acks(c, k) = {} /\ c.cid = 0
    OBVIOUS
  <2>1. Auths(u) # {}
    BY <1>1 DEF Auths
  <2> QED
    BY <2>1 DEF Handshakes, ProvenOnce, Joined
<1>5. Handshakes(c, v, k, w)
  <2>1. CASE f.type # "AUTH"
    BY <1>1, <1>2, <1>3, <2>1, HandshakesKept
  <2>2. CASE f.type = "AUTH"
    <3>1. NoOther(t, t)
      BY DEF NoOther
    <3>2. Handshakes(c, v, k, t)
      BY <1>1, <1>2, <1>3, <3>1, HandshakesKept
    <3>3. ProvenOnce(c, v, k, w) /\ Joined(c, v, w)
      BY <1>4, <2>2, <3>2 DEF Handshakes, ProvenOnce, Joined
    <3> QED
      BY <3>2, <3>3 DEF Handshakes
  <2> QED
    BY <2>1, <2>2
<1>6. ASSUME NEW r \in DownFrame, l = k \o <<r>>, Answers(f, r, w)
      PROVE  Handshakes(c, v, l, w)
  <2>1. CASE r.type \notin Handshaking
    <3>1. r.type # "CHALLENGE" /\ r.type # "CONNACK"
      BY <2>1 DEF Handshaking
    <3> QED
      BY <1>5, <1>6, <3>1, QueueingKeeps
  <2>2. CASE r.type = "CHALLENGE" /\ f.type = "CONNECT" /\ r.id = f.id
    <3>1. ASSUME r.id = c.connectId
          PROVE  Challenges(c, k) = {} /\ Connects(c, v) = {} /\ Auths(v) = {}
      <4>1. 1 \in Connects(c, u)
        BY <1>1, <2>2, <3>1 DEF Connects, At
      <4>2. AskedOnce(c, u, k)
        BY DEF Handshakes
      <4>3. Challenges(c, k) = {} /\ (\A i \in Connects(c, u) : i = 1) /\ \A j \in Auths(u) : j < 1
        BY <4>1, <4>2 DEF AskedOnce
      <4>4. \A i \in Connects(c, v) : i >= 1 /\ i \in Nat /\ i + 1 \in Connects(c, u)
        BY <1>1 DEF Connects, At
      <4>5. \A i \in Auths(v) : i >= 1 /\ i \in Nat /\ i + 1 \in Auths(u)
        BY <1>1 DEF Auths
      <4>6. \A i \in Connects(c, v) : i >= 1 /\ i \in Nat /\ i + 1 = 1
        BY <4>3, <4>4
      <4>7. \A i \in Auths(v) : i >= 1 /\ i \in Nat /\ i + 1 < 1
        BY <4>3, <4>5
      <4> QED
        BY <4>3, <4>6, <4>7
    <3>2. r.type # "CONNACK"
      BY <2>2
    <3> QED
      BY <1>5, <1>6, <3>1, <3>2, QueueingKeeps
  <2>3. CASE /\ r.type = "CONNACK" /\ f.type = "AUTH" /\ r.id = f.id /\ r.cid \in Cid
             /\ \A e \in w.devices : e.mac = f.mac => e.key = f.data
    <3>1. ASSUME r.id = c.authId
          PROVE  /\ Auths(v) = {}
                 /\ c.st = "AUTHENTICATING" =>
                      \A d \in w.devices : d.mac = Me /\ d.cid = r.cid => d.key = Shared(c)
      <4>1. 1 \in At(u, "AUTH", c.authId) /\ f = u[1] /\ f.mac = Me
        BY <1>1, <2>3, <3>1 DEF At, UpFrame
      <4>2. Auths(u) = {1} /\ (c.st = "AUTHENTICATING" => f.data = Shared(c))
        BY <4>1 DEF Handshakes, ProvenOnce
      <4>3. \A i \in Auths(v) : i >= 1 /\ i \in Nat /\ i + 1 \in Auths(u)
        BY <1>1 DEF Auths
      <4>4. \A i \in Auths(v) : i >= 1 /\ i \in Nat /\ i + 1 = 1
        BY <4>2, <4>3
      <4> QED
        BY <2>3, <4>1, <4>2, <4>4
    <3>2. r.type # "CHALLENGE"
      BY <2>3
    <3> QED
      BY <1>5, <1>6, <3>1, <3>2, QueueingKeeps
  <2> QED
    BY <1>6, <2>1, <2>2, <2>3 DEF Answers
<1> QED
  BY <1>1, <1>5, <1>6

\* The only key a station has.
HasKey(t, mac, key) == \A e \in t.devices : e.mac = mac => e.key = key

\* A completed handshake leaves its station one session, with the key it proved.
LEMMA CompletedHasKey ==
    ASSUME NEW t \in Table, NEW mac \in Mac, NEW cid \in Cid, NEW key \in Key, NEW secured,
           Sound(t), FreeCid(Superseded(t, mac), cid),
           NEW done, done = CompleteHandshake(t, mac, cid),
           NEW u, u = SecureSession(done, mac, key, secured) \/ u = EraseSession(done, mac, FALSE)
    PROVE  HasKey(u, mac, key)
<1>1. done \in Table /\ HasSession(done, mac) /\ Distinct(done)
  BY CompleteHandshakeType, CompleteHandshakeSound
<1>2. EraseSession(done, mac, FALSE).devices = {d \in done.devices : d.mac # mac}
  BY <1>1 DEF EraseSession, Table
<1> DEFINE d == SessionFor(done, mac)
           e == [d EXCEPT !.key = key, !.state = "SECURING"]
           r == Replace(done, d, e)
<1>3. d \in done.devices /\ d \in Device /\ d.mac = mac
  BY <1>1, SessionForType
<1>4. e \in Device /\ e.key = key
  BY <1>3 DEF Device
<1>5. \A o \in done.devices : o.mac = mac => o = d
  BY <1>1, <1>3 DEF Distinct
<1> HIDE DEF d, e
<1>6. r.devices = (done.devices \ {d}) \cup {e} /\ r \in Table
  BY <1>1, <1>4, ReplaceType DEF Replace, Table
<1> HIDE DEF r
<1>7. SetPeer(r, mac, key).devices = r.devices
  BY <1>6 DEF SetPeer, Table
<1>8. u = SetPeer(r, mac, key) \/ u = EraseSession(done, mac, FALSE)
  BY DEF SecureSession, r, d, e
<1> QED
  BY <1>2, <1>4, <1>5, <1>6, <1>7, <1>8 DEF HasKey

LEMMA PacketReplies ==
    ASSUME IInv, NEW type \in FromClient, NEW f \in Frame(type), NEW n, HandlePacket(f, n)
    PROVE  replies' = <<>> \/ \E r : replies' = <<r>> /\ r.mac = f.mac /\ Answers(f, r, table')
<1>1. f.mac \in Mac /\ f.type = type /\ table \in Table /\ Sound(table)
  BY DEF Frame, IInv, TypeOK, Consistent
<1>2. \A kind, cid, data : /\ Send(f, kind, cid, data).mac = f.mac /\ Send(f, kind, cid, data).type = kind
                           /\ Send(f, kind, cid, data).id = f.id /\ Send(f, kind, cid, data).cid = cid
  BY DEF Send
<1>3. \A r : r.type \in {"ERROR", "PONG", "ACK"} => Answers(f, r, table')
  BY DEF Answers, Handshaking
<1>4. CASE f.type = "INVALID"
  <2>1. CASE HasSession(table, f.mac) /\ ~Paused(table, f.mac)
    <3>1. PICK error \in {"UNSUPPORTED_VERSION", "INVALID_FRAME"} :
            replies' = <<[Send(f, "ERROR", SessionFor(table, f.mac).cid, error) EXCEPT !.id = 0]>>
      BY <1>4, <2>1 DEF HandlePacket, HandleInvalid
    <3> DEFINE r == [Send(f, "ERROR", SessionFor(table, f.mac).cid, error) EXCEPT !.id = 0]
    <3>2. r.mac = f.mac /\ r.type = "ERROR" /\ replies' = <<r>>
      BY <3>1 DEF Send
    <3> HIDE DEF r
    <3> QED
      BY <1>3, <3>2
  <2>2. CASE ~(HasSession(table, f.mac) /\ ~Paused(table, f.mac))
    BY <1>4, <2>2 DEF HandlePacket, HandleInvalid, IgnoreFrame
  <2> QED
    BY <2>1, <2>2
<1>5. CASE f.type # "INVALID"
  <2>1. HandleValid(f, n)
    BY <1>5 DEF HandlePacket
  <2>2. \/ HandleConnect(f, n) \/ HandleAuth(f) \/ HandleSessionFrame(f) \/ IgnoreFrame
        \/ \E cid, error : RefuseFrame(f, cid, error)
    BY <2>1, Zenon DEF HandleValid
  <2>3. CASE HandleConnect(f, n)
    <3>1. f.type = "CONNECT" /\ (replies' = <<>> \/ replies' = <<Send(f, "CHALLENGE", 0, n)>>)
      BY <2>3, Zenon DEF HandleConnect
    <3>2. Answers(f, Send(f, "CHALLENGE", 0, n), table')
      BY <1>2, <3>1 DEF Answers
    <3> QED
      BY <1>2, <3>1, <3>2
  <2>4. CASE HandleAuth(f)
    <3>1. CASE RejectAuth(f) \/ \E lmkOk \in BOOLEAN : RefuseAuth(f, lmkOk)
      <4>1. replies' = <<>> \/ replies' = <<Send(f, "ERROR", 0, "AUTH_FAILED")>>
        BY <3>1, Zenon DEF RejectAuth, RefuseAuth
      <4> QED
        BY <1>2, <1>3, <4>1
    <3>2. CASE AcceptAuth(f)
      <4>1. PICK cid \in Cid, secured \in Securable :
              /\ IsNextCid(Superseded(table, f.mac), cid)
              /\ replies' = <<Send(f, "CONNACK", cid, NoData)>>
              /\ LET done == CompleteHandshake(table, f.mac, cid) IN
                 \/ table' = SecureSession(done, f.mac, KeyOf(PendingFor(table, f.mac)), secured)
                 \/ table' = EraseSession(done, f.mac, FALSE)
        BY <3>2 DEF AcceptAuth
      <4>2. /\ f.type = "AUTH" /\ KeyOf(PendingFor(table, f.mac)) \in Key
            /\ f.data = KeyOf(PendingFor(table, f.mac))
        BY <1>1, <2>4, <3>2, KeyOfType DEF HandleAuth, AcceptAuth, ProofOk
      <4>3. FreeCid(Superseded(table, f.mac), cid)
        BY <4>1 DEF IsNextCid
      <4>4. HasKey(table', f.mac, f.data)
        <5> DEFINE done == CompleteHandshake(table, f.mac, cid)
        <5>1. \/ table' = SecureSession(done, f.mac, f.data, secured)
              \/ table' = EraseSession(done, f.mac, FALSE)
          BY <4>1, <4>2
        <5>2. f.data \in Key
          BY <4>2
        <5>3. done = CompleteHandshake(table, f.mac, cid)
          OBVIOUS
        <5> HIDE DEF done
        <5> QED
          BY <1>1, <4>3, <5>1, <5>2, <5>3, CompletedHasKey
      <4>5. Answers(f, Send(f, "CONNACK", cid, NoData), table')
        BY <1>2, <4>2, <4>4 DEF Answers, HasKey
      <4> QED
        BY <1>2, <4>1, <4>5
    <3> QED
      BY <2>4, <3>1, <3>2 DEF HandleAuth
  <2>5. CASE HandleSessionFrame(f)
    <3>1. ASSUME NEW ok PROVE Answer(f, ok).mac = f.mac /\ Answer(f, ok).type \in {"ACK", "ERROR"}
      <4>1. \/ Answer(f, ok) = Send(f, "ACK", f.cid, NoData)
            \/ Answer(f, ok) = Send(f, "ERROR", f.cid, "REJECTED")
        BY Zenon DEF Answer
      <4> QED
        BY <1>2, <4>1
    <3>2. \/ replies' = <<>> \/ replies' = <<Send(f, "PONG", f.cid, NoData)>>
          \/ \E ok : replies' = <<Answer(f, ok)>>
      BY <2>5, Zenon
         DEF HandleSessionFrame, HandlePing, HandleDisconnect, HandleSubscribe, HandleUnsubscribe,
             HandleMessage, HandleLastWill, HandleOther
    <3> QED
      BY <1>2, <1>3, <3>1, <3>2
  <2>6. CASE IgnoreFrame \/ \E cid, error : RefuseFrame(f, cid, error)
    <3>1. replies' = <<>> \/ \E cid, error : replies' = <<Send(f, "ERROR", cid, error)>>
      BY <2>6, Zenon DEF IgnoreFrame, RefuseFrame
    <3> QED
      BY <1>2, <1>3, <3>1
  <2> QED
    BY <2>2, <2>3, <2>4, <2>5, <2>6
<1> QED
  BY <1>4, <1>5

LEMMA SentToClient ==
    ASSUME NEW sent, ToClient(sent), sent = <<>> \/ \E r : sent = <<r>>,
           control \in Seq(DownFrame), Len(control) <= ControlDepth
    PROVE  \/ control' = control
           \/ /\ Len(control) < ControlDepth
              /\ \E r : sent = <<r>> /\ control' = control \o <<r>> /\ r.type \in ForTask
<1>1. \/ control' = control
      \/ /\ Len(control) < ControlDepth /\ control' = control \o sent
         /\ \A i \in DOMAIN sent : Hears(client, sent[i].type)
  BY DEF ToClient
<1>2. CASE sent = <<>>
  BY <1>1, <1>2
<1>3. ASSUME NEW r, sent = <<r>>, Len(control) < ControlDepth, control' = control \o sent,
             \A i \in DOMAIN sent : Hears(client, sent[i].type)
      PROVE  control' = control \o <<r>> /\ r.type \in ForTask
  <2>1. 1 \in DOMAIN sent /\ sent[1] = r
    BY <1>3
  <2>2. Hears(client, r.type)
    BY <1>3, <2>1
  <2> QED
    BY <1>3, <2>2 DEF Hears
<1> QED
  BY <1>1, <1>2, <1>3

LEMMA GatewayPacketKeeps ==
    ASSUME LinkInv, GatewayPacket
    PROVE  LinkInv'
<1> DEFINE f == Head(uplink)
<1>1. /\ uplink # <<>> /\ HandlePacket(f, FreshNonce) /\ ToClient(replies') /\ uplink' = Tail(uplink)
      /\ UNCHANGED <<task_, generation, app, calm>>
  BY DEF GatewayPacket
<1>2. f \in UpFrame /\ uplink' \in Seq(UpFrame) /\ Len(uplink') <= UplinkDepth
  BY <1>1, LinkNow, Dequeued, Constants
<1> HIDE DEF f
<1>3. PICK type \in FromClient : f \in Frame(type) /\ f.type = type /\ f.mac = Me /\ f.id \in MsgId
  BY <1>2 DEF UpFrame, Frame
<1>4. IInv'
  BY <1>1, <1>3, LinkNow, PacketInductive
<1>5. f.type # "AUTH" => NoOther(table, table')
  <2>1. f.type # "AUTH" => Kept(table, table')
    BY <1>1, <1>3, LinkNow, PacketKeeps
  <2> QED
    BY <2>1 DEF Kept, NoOther
<1>6. replies' = <<>> \/ \E r : replies' = <<r>> /\ r.mac = f.mac /\ Answers(f, r, table')
  BY <1>1, <1>3, LinkNow, PacketReplies
<1>7. ASSUME NEW r, replies' = <<r>>, r.mac = f.mac, Answers(f, r, table'), r.type \in ForTask
      PROVE  r \in DownFrame
  <2>1. r.type \in FromGateway /\ r \in Frame(r.type)
    <3>1. 1 \in DOMAIN replies' /\ replies'[1] = r
      BY <1>7
    <3> QED
      BY <1>4, <3>1 DEF IInv, TypeOK
  <2>2. /\ r.type \in {"CHALLENGE", "CONNACK"} => r.id \in MsgId
        /\ r.type = "CONNACK" => r.cid \in Cid
    BY <1>3, <1>7 DEF Answers, Handshaking
  <2> QED
    BY <1>3, <1>7, <2>1, <2>2 DEF DownFrame
<1>8. \/ control' = control
      \/ /\ Len(control) < ControlDepth
         /\ \E r \in DownFrame : control' = control \o <<r>> /\ Answers(f, r, table')
  <2>1. \/ control' = control
        \/ /\ Len(control) < ControlDepth
           /\ \E r : replies' = <<r>> /\ control' = control \o <<r>> /\ r.type \in ForTask
    BY <1>1, <1>6, LinkNow, SentToClient
  <2>2. ASSUME NEW r, replies' = <<r>>, control' = control \o <<r>>, r.type \in ForTask
        PROVE  r \in DownFrame /\ Answers(f, r, table')
    <3>1. r.mac = f.mac /\ Answers(f, r, table')
      BY <1>6, <2>2
    <3> QED
      BY <1>7, <2>2, <3>1
  <2> QED
    BY <2>1, <2>2
<1>9. control' \in Seq(DownFrame) /\ Len(control') <= ControlDepth
  <2>1. ASSUME NEW r \in DownFrame, control' = control \o <<r>>, Len(control) < ControlDepth
        PROVE  control' \in Seq(DownFrame) /\ Len(control') <= ControlDepth
    <3>1. control' \in Seq(DownFrame) /\ Len(control') = Len(control) + 1 /\ Len(control) \in Nat
      BY <2>1, LinkNow, Enqueued
    <3> QED
      BY <2>1, <3>1, Constants
  <2> QED
    BY <1>8, <2>1, LinkNow
<1>10. Handshakes(client, uplink', control', table')
  BY <1>1, <1>5, <1>8, LinkNow, AnsweringKeeps DEF f
<1>11. SurroundingsOK' /\ client' = client
  BY <1>1, LinkNow DEF SurroundingsOK, task_, app
<1> QED
  BY <1>2, <1>4, <1>9, <1>10, <1>11, LinkNow, LinkAfter

\* Whatever else the gateway does, no session changes its cid or its key.
LEMMA GatewayAlone ==
    ASSUME LinkInv, IInv', NoOther(table, table'), uplink' = uplink \/ uplink' = <<>>,
           client' = client, control' = control, SurroundingsOK'
    PROVE  LinkInv'
<1>1. /\ OnlyLater(uplink, uplink') /\ uplink' \in Seq(UpFrame) /\ Len(uplink') <= UplinkDepth
      /\ OnlyLater(control, control)
  <2>1. Len(<<>>) = 0
    OBVIOUS
  <2> QED
    BY <2>1, LinkNow, NothingNew, Constants
<1>2. Keeps(client, client) /\ (client.cid # 0 => client.st \in {"SECURING", "CONNECTED"})
  BY LinkNow DEF Keeps, ClientOK
<1>3. Handshakes(client, uplink', control, table')
  BY <1>1, <1>2, LinkNow, HandshakesKept
<1> QED
  BY <1>1, <1>3, LinkNow, LinkAfter

LEMMA NoSessions ==
    ASSUME NEW t, NEW u, u.devices = {}
    PROVE  NoOther(t, u)
BY DEF NoOther

LEMMA GatewayOwnKeeps ==
    ASSUME LinkInv, GatewayExpire \/ Clock \/ GatewayOn \/ GatewayOff \/ GatewayReboot
    PROVE  LinkInv'
<1>1. SurroundingsOK /\ IInv /\ table \in Table
  BY LinkNow DEF IInv, TypeOK
<1>2. CASE GatewayExpire \/ Clock \/ GatewayOn
  <2>1. (ExpirePass \/ Tick \/ Start) /\ UNCHANGED link
    BY <1>2 DEF GatewayExpire, Clock, GatewayOn
  <2>2. IInv'
    BY <1>1, <2>1, ByItselfInductive DEF ByItself
  <2>3. Kept(table, table')
    <3>1. CASE ExpirePass
      <4>1. PICK secured \in Securable : table' = EndSilent(AbandonTimedOut(table, secured))
        BY <3>1 DEF ExpirePass, Expire
      <4> QED
        BY <1>1, <4>1, ExpireKeeps
    <3>2. CASE Tick
      <4>1. table' = Aged(table)
        BY <3>2 DEF Tick
      <4> QED
        BY <1>1, <4>1, ExpireKeeps
    <3>3. CASE Start
      BY <3>3 DEF Start, Kept
    <3> QED
      BY <2>1, <3>1, <3>2, <3>3
  <2>4. NoOther(table, table')
    BY <2>3 DEF Kept, NoOther
  <2>5. SurroundingsOK' /\ client' = client /\ control' = control /\ uplink' = uplink
    BY <1>1, <2>1 DEF SurroundingsOK, link
  <2> QED
    BY <2>2, <2>4, <2>5, GatewayAlone
<1>3. CASE GatewayOff
  <2>1. Shutdown /\ uplink' = <<>> /\ UNCHANGED <<task_, control, generation, app, calm>>
    BY <1>3 DEF GatewayOff
  <2>2. IInv'
    BY <1>1, <2>1, ByItselfInductive DEF ByItself
  <2>3. table'.devices = {}
    BY <2>1 DEF Shutdown, Reset, EmptyTable
  <2>4. SurroundingsOK' /\ client' = client /\ control' = control
    BY <1>1, <2>1 DEF SurroundingsOK, task_, app
  <2> QED
    BY <2>1, <2>2, <2>3, <2>4, NoSessions, GatewayAlone
<1>4. CASE GatewayReboot
  <2>1. /\ generation' = generation + 1 /\ generation < MaxGeneration
        /\ table' = EmptyTable /\ up' = FALSE /\ frame' = NoFrame /\ replies' = <<>> /\ published' = {}
        /\ uplink' = <<>> /\ UNCHANGED <<task_, control, app, calm>>
    BY <1>4 DEF GatewayReboot
  <2>2. TypeOK'
    <3>1. EmptyTable \in Table /\ RepliesOK(<<>>)
      BY EmptyTableType, NoReply
    <3> QED
      BY <2>1, <3>1 DEF TypeOK, RepliesOK
  <2>3. Consistent(table')
    BY <2>1, EmptyConsistent
  <2>4. IInv'
    BY <2>2, <2>3, InvariantAfter
  <2>5. table'.devices = {}
    BY <2>1 DEF EmptyTable
  <2>6. generation' \in 1 .. MaxGeneration
    BY <1>1, <2>1, Constants DEF SurroundingsOK
  <2>7. SurroundingsOK' /\ client' = client /\ control' = control
    BY <1>1, <2>1, <2>6 DEF SurroundingsOK, task_, app
  <2> QED
    BY <2>1, <2>4, <2>5, <2>7, NoSessions, GatewayAlone
<1> QED
  BY <1>2, <1>3, <1>4

LEMMA BeaconKeeps ==
    ASSUME LinkInv, Beacon
    PROVE  LinkInv'
<1> DEFINE f == [mac |-> Me, type |-> "BEACON", id |-> 0, cid |-> 0, data |-> generation]
<1>1. ToClient(<<f>>) /\ UNCHANGED <<vars, task_, uplink, generation, app, calm>>
  BY DEF Beacon
<1>2. f \in DownFrame /\ f.type = "BEACON"
  BY LinkNow DEF DownFrame, SurroundingsOK
<1> HIDE DEF f
<1>3. control' = control \/ (Len(control) < ControlDepth /\ control' = control \o <<f>>)
  BY <1>1, LinkNow, SentToClient
<1>4. control' \in Seq(DownFrame) /\ Len(control') <= ControlDepth
  <2>1. ASSUME control' = control \o <<f>>, Len(control) < ControlDepth
        PROVE  control' \in Seq(DownFrame) /\ Len(control') <= ControlDepth
    <3>1. control' \in Seq(DownFrame) /\ Len(control') = Len(control) + 1 /\ Len(control) \in Nat
      BY <1>2, <2>1, LinkNow, Enqueued
    <3> QED
      BY <2>1, <3>1, Constants
  <2> QED
    BY <1>3, <2>1, LinkNow
<1>5. Handshakes(client, uplink, control', table)
  <2>1. f.type # "CHALLENGE" /\ f.type # "CONNACK"
    BY <1>2
  <2>2. CASE control' = control \o <<f>>
    BY <1>2, <2>1, <2>2, LinkNow, QueueingKeeps
  <2> QED
    BY <1>3, <2>2, LinkNow
<1>6. SurroundingsOK' /\ UNCHANGED <<client, uplink, table>> /\ IInv'
  BY <1>1, LinkNow, BrokerStays DEF SurroundingsOK, task_, app, vars
<1> QED
  BY <1>4, <1>5, <1>6, LinkNow, LinkAfter

-------------------------------------------------------------------------------

LEMMA LinkInductive == LinkSpec => []LinkInv
<1>1. LinkInit => LinkInv
  <2> SUFFICES ASSUME LinkInit PROVE LinkInv
    OBVIOUS
  <2>1. IInv
    BY Begins DEF LinkInit, Init
  <2>2. /\ client = Off /\ task = "control" /\ uplink = <<>> /\ control = <<>>
        /\ generation = 1 /\ captured = 0 /\ willing = FALSE /\ calm = (Trouble = {})
    BY DEF LinkInit
  <2>3. Off.cid = 0 /\ Off.st = "STOPPED"
    BY DEF Off
  <2>4. Off \in Client
    <3>1. /\ 0 \in 0 .. MaxCid /\ 0 \in Nonce /\ 0 \in 0 .. SecuringPings /\ 0 \in 0 .. MissedBeforeLost
          /\ 0 \in 0 .. HandshakeAttempts /\ 0 \in 0 .. MaxGeneration
      BY Constants, ClientAssumption
    <3> QED
      BY <3>1 DEF Off, Client, State
  <2>5. QueuesOK
    <3>1. Len(<<>>) = 0
      OBVIOUS
    <3> QED
      BY <2>2, <3>1, Constants DEF QueuesOK
  <2>6. SurroundingsOK
    <3>1. 1 \in 1 .. MaxGeneration /\ 0 \in 0 .. MaxCid
      BY Constants
    <3>2. calm \in BOOLEAN
      BY <2>2
    <3> QED
      BY <2>2, <3>1, <3>2 DEF SurroundingsOK
  <2>7. Handshakes(Off, <<>>, <<>>, table)
    <3>1. DOMAIN <<>> = {}
      OBVIOUS
    <3> QED
      BY <2>3, <3>1 DEF Handshakes, AskedOnce, ProvenOnce, Joined, Connects, Challenges, Auths, Acks, At
  <2> QED
    BY <2>1, <2>2, <2>4, <2>5, <2>6, <2>7 DEF LinkInv
<1>2. LinkInv /\ [LinkNext]_all => LinkInv'
  <2> SUFFICES ASSUME LinkInv, [LinkNext]_all PROVE LinkInv'
    OBVIOUS
  <2>1. CASE UNCHANGED all
    <3>1. UNCHANGED <<vars, client, task, uplink, control, generation, captured, willing, calm>>
      BY <2>1 DEF all, link
    <3>2. SurroundingsOK'
      BY <3>1, LinkNow DEF SurroundingsOK
    <3>3. Keeps(client, client)
      BY DEF Keeps
    <3> QED
      BY <3>1, <3>2, <3>3, LinkNow, ClientAlone
  <2>2. CASE GatewayPacket
    BY <2>2, GatewayPacketKeeps
  <2>3. CASE GatewayExpire \/ Clock \/ GatewayOn \/ GatewayOff \/ GatewayReboot
    BY <2>3, GatewayOwnKeeps
  <2>4. CASE Beacon
    BY <2>4, BeaconKeeps
  <2>5. CASE ClientControl
    BY <2>5, ClientControlKeeps
  <2>6. CASE ClientTimer
    BY <2>6, ClientTimerKeeps
  <2>7. CASE ClientEnd
    BY <2>7, ClientEndKeeps
  <2>8. CASE PublishFrame
    BY <2>8, PublishFrameKeeps
  <2>9. CASE WillSend
    BY <2>9, WillSendKeeps
  <2>10. CASE \/ ClientConnected \/ ClientDrained \/ ClientBackoffOver \/ ClientBegin \/ ClientReboot
              \/ PublishBegin \/ WillStore \/ CalmDown
    BY <2>10, OwnStepsKeep
  <2> QED
    BY <2>1, <2>2, <2>3, <2>4, <2>5, <2>6, <2>7, <2>8, <2>9, <2>10 DEF LinkNext
<1> QED
  BY <1>1, <1>2, PTL DEF LinkSpec

\* The types of both ends and of what is between them: the queues never hold more than fits,
\* and only frames their task knows.
THEOREM LinkTypes == LinkSpec => []LinkTypeOK
<1>1. LinkInv => LinkTypeOK
  <2> SUFFICES ASSUME LinkInv PROVE LinkTypeOK
    OBVIOUS
  <2>1. \A i \in DOMAIN uplink : uplink[i] \in Frame(uplink[i].type)
    <3> SUFFICES ASSUME NEW i \in DOMAIN uplink PROVE uplink[i] \in Frame(uplink[i].type)
      OBVIOUS
    <3>1. uplink[i] \in UpFrame
      BY LinkNow
    <3> QED
      BY <3>1 DEF UpFrame, Frame
  <2>2. \A i \in DOMAIN control : control[i].type \in ForTask
    <3> SUFFICES ASSUME NEW i \in DOMAIN control PROVE control[i].type \in ForTask
      OBVIOUS
    <3>1. control[i] \in DownFrame
      BY LinkNow
    <3> QED
      BY <3>1 DEF DownFrame, ForTask
  <2>3. TypeOK
    BY LinkNow DEF IInv
  <2> QED
    BY <2>1, <2>2, <2>3, LinkNow DEF LinkTypeOK, SurroundingsOK
<1> QED
  BY <1>1, LinkInductive, PTL

\* A station and the gateway that mean the same session id use the same key, however many
\* handshakes were begun, lost, repeated and answered late before it.
THEOREM OneKeyPerSession == LinkSpec => []KeysAgree
<1>1. LinkInv => KeysAgree
  <2> SUFFICES ASSUME LinkInv, NEW d \in table.devices, d.mac = Me, d.cid = client.cid
               PROVE  d.key = client.key
    BY DEF KeysAgree
  <2>1. client.cid # 0
    <3>1. d \in Device
      BY LinkNow DEF IInv, TypeOK, Table
    <3> QED
      BY <3>1, Constants DEF Device, Cid
  <2> QED
    BY <2>1, LinkNow DEF Handshakes, Joined
<1> QED
  BY <1>1, LinkInductive, PTL
===============================================================================
