--------------------------- MODULE Reassembly_proofs ---------------------------
(* That messages in fragments arrive whole, each at most once, and those whose  *)
(* frames all came do arrive: for any stations, slots, ids and sessions.        *)
EXTENDS Reassembly, Integers, SequenceTheorems, WellFoundedInduction, TLAPS

\* The types of publications, of queued frames, of partial messages and of all.
Everyone == Senders \cup {Gateway}
Pubs ==
    [by : Everyone, to : Everyone, cid : Nat \ {0}, id : Nat, total : Nat \ {0}, next : Nat \ {0},
     fine : BOOLEAN, reused : BOOLEAN]
Frames ==
    [from : Senders, cid : Nat, id : Nat, index : Nat, total : Nat, data : Nat \X Nat]
Partials ==
    {NoPartial} \cup
    [from : Everyone, cid : Nat \ {0}, id : Nat, next : Nat, total : Nat, old : BOOLEAN, data : Seq(Nat \X Nat)]
Air ==
    [here : SUBSET Senders, counts : SUBSET (Nat \ {0}), left : Int, session : [Senders -> Nat],
     joined : [Senders -> Nat], cids : Nat, ids : [Everyone -> Nat], pubs : Seq(Pubs), uplink : Seq(Frames),
     delivered : Seq(Seq(Nat \X Nat)), slots : [1 .. PartialSlots -> Partials], partial : [Senders -> Partials]]

\* The first n fragments of a publication; what identifies it to a receiver; and
\* whether a message put together has a fragment of one whose id came round again.
Upto(p, n) == [i \in 1 .. n |-> <<p, i>>]
Key(a, p) == <<a.pubs[p].by, a.pubs[p].cid, a.pubs[p].id>>
Tainted(a, d) == \E j \in DOMAIN d : a.pubs[d[j][1]].reused
FragmentIn(a, p, j) ==
    [from |-> a.pubs[p].by, cid |-> a.pubs[p].cid, id |-> a.pubs[p].id, index |-> j - 1,
     total |-> a.pubs[p].total, data |-> <<p, j>>]

\* A publication nothing is left of: none of its frames can come any more.
InUplink(a, p) == \E k \in DOMAIN a.uplink : a.uplink[k].data[1] = p
Dead(a, p) ==
    /\ ~InProgress(a, p) /\ ~InUplink(a, p)
    /\ \A i \in Held(a) : p \notin Within(a.slots[i])
    /\ \A s \in Senders : p \in Within(a.partial[s]) => a.partial[s].old

\* A publication has sent at most its fragments, and its receiver is the other side.
PubsOK(a) ==
    \A p \in DOMAIN a.pubs :
        /\ a.pubs[p].next <= a.pubs[p].total + 1
        /\ IF a.pubs[p].by = Gateway THEN a.pubs[p].to \in Senders ELSE a.pubs[p].to = Gateway

\* A queued frame is a goodbye or a fragment that its publication has sent, and those
\* of one publication are queued in order.
FrameOK(a, f) ==
    \/ f.total = 0 /\ f.data = <<0, 0>>
    \/ \E p \in DOMAIN a.pubs : \E j \in 1 .. a.pubs[p].total :
          a.pubs[p].by # Gateway /\ j < a.pubs[p].next /\ f = FragmentIn(a, p, j)
FramesOK(a) == \A k \in DOMAIN a.uplink : FrameOK(a, a.uplink[k])
InOrder(a) ==
    \A k, l \in DOMAIN a.uplink :
        k < l /\ a.uplink[k].data[1] = a.uplink[l].data[1] /\ a.uplink[k].total # 0 =>
            a.uplink[k].data[2] < a.uplink[l].data[2]

\* What a receiver holds begins with an opener, has the fragments of one key, and is
\* the beginning of one publication unless an id came round again.
Tokens(a, d) == d # <<>> /\ \A j \in DOMAIN d : d[j][1] \in DOMAIN a.pubs
Opens(a, d) == d[1][2] = 1 /\ a.pubs[d[1][1]].next > 1
PartOK(a, x) ==
    /\ Tokens(a, x.data) /\ Opens(a, x.data)
    /\ x.next = Len(x.data) /\ x.next < x.total
    /\ \A j \in DOMAIN x.data : Key(a, x.data[j][1]) = <<x.from, x.cid, x.id>>
    /\ \/ Tainted(a, x.data)
       \/ \E p \in DOMAIN a.pubs : x.data = Upto(p, x.next) /\ a.pubs[p].total = x.total
SlotsOK(a) == \A i \in Held(a) : a.slots[i].from # Gateway /\ PartOK(a, a.slots[i])
PartialsOK(a) ==
    \A s \in Senders : a.partial[s] # NoPartial => a.partial[s].from = Gateway /\ PartOK(a, a.partial[s])

\* A message handed over is one whole publication, or has a fragment of one whose id
\* came round again.
WholeOK(a, d) ==
    /\ Tokens(a, d) /\ Opens(a, d)
    /\ Tainted(a, d) \/ \E p \in DOMAIN a.pubs : d = Upto(p, a.pubs[p].total)
DeliveredOK(a) == \A i \in DOMAIN a.delivered : WholeOK(a, a.delivered[i])

\* The opener of a publication is in one place only: the queue, a slot, a station's
\* memory or a message handed over. It is why a message arrives at most once.
OpenersOnce(a) ==
    /\ \A i, j \in Held(a) : a.slots[i].data[1] = a.slots[j].data[1] => i = j
    /\ \A s, t \in Senders :
          a.partial[s] # NoPartial /\ a.partial[t] # NoPartial /\ a.partial[s].data[1] = a.partial[t].data[1] => s = t
    /\ \A i, j \in DOMAIN a.delivered : a.delivered[i][1] = a.delivered[j][1] => i = j
    /\ \A i \in Held(a) : \A j \in DOMAIN a.delivered : a.slots[i].data[1] # a.delivered[j][1]
    /\ \A s \in Senders : \A j \in DOMAIN a.delivered :
          a.partial[s] # NoPartial => a.partial[s].data[1] # a.delivered[j][1]
    /\ \A k \in DOMAIN a.uplink : \A i \in Held(a) : a.uplink[k].data # a.slots[i].data[1]
    /\ \A k \in DOMAIN a.uplink : \A j \in DOMAIN a.delivered : a.uplink[k].data # a.delivered[j][1]

\* No two slots are for the same message.
SlotKeys(a) ==
    \A i, j \in Held(a) :
        a.slots[i].from = a.slots[j].from /\ a.slots[i].cid = a.slots[j].cid /\ a.slots[i].id = a.slots[j].id => i = j

\* Two publications share a key only if the earlier one is dead, or both are spoiled
\* and the later one is marked.
KeysOK(a) ==
    \A p, q \in DOMAIN a.pubs :
        p < q /\ Key(a, p) = Key(a, q) =>
            \/ a.pubs[q].reused /\ ~a.pubs[p].fine /\ ~a.pubs[q].fine
            \/ Dead(a, p)

\* The gateway sends one message at a time.
OneSending(a) ==
    \A p, q \in DOMAIN a.pubs :
        a.pubs[p].by = Gateway /\ a.pubs[q].by = Gateway /\ InProgress(a, p) /\ InProgress(a, q) => p = q

\* The partial message that the first k fragments make; what the gateway has taken of
\* an untroubled publication (k fragments, the others still queued); and where an
\* untroubled publication stands.
Part(a, p, k) ==
    [from |-> a.pubs[p].by, cid |-> a.pubs[p].cid, id |-> a.pubs[p].id, next |-> k, total |-> a.pubs[p].total,
     old |-> FALSE, data |-> Upto(p, k)]
Consumed(a, p, k) ==
    /\ k >= 1 => a.session[a.pubs[p].by] = a.pubs[p].cid
    /\ \A l \in DOMAIN a.uplink : a.uplink[l].data[1] = p => a.uplink[l].data[2] > k
    /\ \A j \in k + 1 .. a.pubs[p].next - 1 : \E l \in DOMAIN a.uplink : a.uplink[l].data = <<p, j>>
    /\ 1 <= k /\ k < a.pubs[p].total => \E i \in Held(a) : a.slots[i] = Part(a, p, k)
    /\ k = a.pubs[p].total => \E i \in DOMAIN a.delivered : a.delivered[i] = Upto(p, k)
CarriedUp(a, p) ==
    /\ a.joined[a.pubs[p].by] = a.pubs[p].cid
    /\ \E k \in 0 .. a.pubs[p].next - 1 : Consumed(a, p, k)
CarriedDown(a, p) ==
    /\ 1 < a.pubs[p].next /\ a.pubs[p].next <= a.pubs[p].total =>
          a.partial[a.pubs[p].to] = Part(a, p, a.pubs[p].next - 1)
    /\ a.pubs[p].next = a.pubs[p].total + 1 =>
          \E i \in DOMAIN a.delivered : a.delivered[i] = Upto(p, a.pubs[p].total)
Carried(a, p) == a.pubs[p].fine => IF a.pubs[p].by = Gateway THEN CarriedDown(a, p) ELSE CarriedUp(a, p)

\* The partial messages.
Part_ == [from : Everyone, cid : Nat \ {0}, id : Nat, next : Nat, total : Nat, old : BOOLEAN,
          data : Seq(Nat \X Nat)]

\* What is held is a partial message, and nothing else is.
LEMMA HeldIs ==
    ASSUME NEW a \in Air
    PROVE  /\ \A i \in Held(a) : i \in 1 .. PartialSlots /\ a.slots[i] \in Part_
           /\ \A i \in 1 .. PartialSlots : i \in Held(a) <=> a.slots[i] # NoPartial
           /\ \A s \in Senders : a.partial[s] # NoPartial => a.partial[s] \in Part_
           /\ \A x \in Part_ : x # NoPartial
<1>1. DOMAIN a.slots = 1 .. PartialSlots /\ \A i \in 1 .. PartialSlots : a.slots[i] \in Partials
  BY DEF Air
<1>2. \A s \in Senders : a.partial[s] \in Partials
  BY DEF Air
<1>3. \A x \in Partials : x # NoPartial => x \in Part_
  BY DEF Partials, Part_
<1>4. \A x \in Part_ : x # NoPartial
  BY DEF Part_, NoPartial
<1> QED BY <1>1, <1>2, <1>3, <1>4 DEF Held

\* What is known of a publication (EspNowFragments::Begin's arguments and counters).
LEMMA PubIs ==
    ASSUME NEW a \in Air, NEW p \in DOMAIN a.pubs
    PROVE  /\ a.pubs[p] \in Pubs /\ p \in Nat \ {0} /\ DOMAIN a.pubs = 1 .. Len(a.pubs)
           /\ a.pubs[p].by \in Everyone /\ a.pubs[p].to \in Everyone /\ a.pubs[p].cid \in Nat \ {0}
           /\ a.pubs[p].id \in Nat /\ a.pubs[p].total \in Nat \ {0} /\ a.pubs[p].next \in Nat \ {0}
           /\ a.pubs[p].fine \in BOOLEAN /\ a.pubs[p].reused \in BOOLEAN
<1>1. a.pubs \in Seq(Pubs)
  BY DEF Air
<1>2. DOMAIN a.pubs = 1 .. Len(a.pubs) /\ a.pubs[p] \in Pubs
  BY <1>1
<1>3. p \in Nat \ {0}
  BY <1>1, <1>2
<1> QED BY <1>2, <1>3 DEF Pubs

\* What is known of a frame that waits in the gateway's queue.
LEMMA FrameIs ==
    ASSUME NEW a \in Air, NEW k \in DOMAIN a.uplink
    PROVE  /\ k \in Nat \ {0} /\ DOMAIN a.uplink = 1 .. Len(a.uplink) /\ a.uplink[k] \in Frames
           /\ a.uplink[k].from \in Senders /\ a.uplink[k].cid \in Nat /\ a.uplink[k].id \in Nat
           /\ a.uplink[k].index \in Nat /\ a.uplink[k].total \in Nat /\ a.uplink[k].data \in Nat \X Nat
<1>1. a.uplink \in Seq(Frames)
  BY DEF Air
<1>2. DOMAIN a.uplink = 1 .. Len(a.uplink) /\ a.uplink[k] \in Frames
  BY <1>1
<1>3. k \in Nat \ {0}
  BY <1>1, <1>2
<1>4. \A f \in Frames : f.from \in Senders /\ f.cid \in Nat /\ f.id \in Nat /\ f.index \in Nat /\ f.total \in Nat
  BY DEF Frames
<1>5. \A f \in Frames : f.data \in Nat \X Nat
  BY DEF Frames
<1> QED BY <1>2, <1>3, <1>4, <1>5

\* The prefixes of a publication.
LEMMA UptoGrows ==
    ASSUME NEW p \in Nat, NEW n \in Nat
    PROVE  /\ Upto(p, n) \in Seq(Nat \X Nat) /\ Len(Upto(p, n)) = n
           /\ Append(Upto(p, n), <<p, n + 1>>) = Upto(p, n + 1)
           /\ <<<<p, 1>>>> = Upto(p, 1)
           /\ n > 0 => Upto(p, n)[1] = <<p, 1>>
<1>1. Upto(p, n) \in [1 .. n -> Nat \X Nat] /\ Upto(p, n + 1) \in [1 .. n + 1 -> Nat \X Nat]
  BY DEF Upto
<1>2. Upto(p, n) \in Seq(Nat \X Nat) /\ Len(Upto(p, n)) = n
  BY <1>1, IsASeq DEF Upto
<1>3. Upto(p, n + 1) \in Seq(Nat \X Nat) /\ Len(Upto(p, n + 1)) = n + 1
  BY <1>1, IsASeq DEF Upto
<1>4. Append(Upto(p, n), <<p, n + 1>>) = Upto(p, n + 1)
  <2> DEFINE s == Append(Upto(p, n), <<p, n + 1>>)
  <2>1. s \in Seq(Nat \X Nat) /\ Len(s) = n + 1 /\ DOMAIN s = 1 .. n + 1
    BY <1>2
  <2>2. \A i \in 1 .. n + 1 : s[i] = Upto(p, n + 1)[i]
    BY <1>1, <1>2 DEF Upto
  <2> QED BY <1>3, <2>1, <2>2, SeqEqual
<1>5. <<<<p, 1>>>> = Upto(p, 1)
  <2>1. Upto(p, 1) \in Seq(Nat \X Nat) /\ Len(Upto(p, 1)) = 1
    <3>1. Upto(p, 1) \in [1 .. 1 -> Nat \X Nat]
      BY DEF Upto
    <3> QED BY <3>1, IsASeq DEF Upto
  <2>2. Upto(p, 1)[1] = <<p, 1>>
    BY DEF Upto
  <2> QED BY <2>1, <2>2, SeqEqual
<1> QED BY <1>2, <1>4, <1>5 DEF Upto

\* The first of the slots that will do is one of them.
LEMMA FirstIs ==
    ASSUME NEW at \in SUBSET Nat, at # {}
    PROVE  First(at) \in at
<1>1. IsWellFoundedOn(OpToRel(<, Nat), Nat)
  BY NatLessThanWellFounded
<1>2. PICK i \in at : \A j \in at : ~(<<j, i>> \in OpToRel(<, Nat))
  BY <1>1, WFMin
<1>3. \A j \in at : ~(j < i)
  BY <1>2 DEF OpToRel
<1>4. \A j \in at : i <= j
  BY <1>3
<1> QED BY <1>4 DEF First

-------------------------------------------------------------------------------
(* What stays true while publications only go on, and while nothing but loss    *)
(* befalls them.                                                                *)

PubsGrow(a, b) ==
    /\ DOMAIN a.pubs \subseteq DOMAIN b.pubs
    /\ \A p \in DOMAIN a.pubs :
          /\ b.pubs[p].by = a.pubs[p].by /\ b.pubs[p].to = a.pubs[p].to
          /\ b.pubs[p].cid = a.pubs[p].cid /\ b.pubs[p].id = a.pubs[p].id
          /\ b.pubs[p].total = a.pubs[p].total /\ b.pubs[p].reused = a.pubs[p].reused
          /\ a.pubs[p].next <= b.pubs[p].next
          /\ b.pubs[p].fine => a.pubs[p].fine

\* A publication keeps its key, and one that has ended stays ended.
LEMMA GrowKeepsKeys ==
    ASSUME NEW a \in Air, NEW b \in Air, PubsGrow(a, b), NEW p \in DOMAIN a.pubs
    PROVE  /\ Key(b, p) = Key(a, p) /\ p \in DOMAIN b.pubs
           /\ InProgress(b, p) => InProgress(a, p)
<1>1. /\ a.pubs[p].next \in Nat /\ b.pubs[p].next \in Nat /\ a.pubs[p].total \in Nat /\ p \in DOMAIN b.pubs
  BY PubIs DEF PubsGrow
<1> QED BY <1>1 DEF PubsGrow, Key, InProgress

\* A frame that was sent stays one that was sent.
LEMMA GrowKeepsFrames ==
    ASSUME NEW a \in Air, NEW b \in Air, PubsGrow(a, b), NEW f, FrameOK(a, f)
    PROVE  FrameOK(b, f)
<1>1. CASE f.total = 0 /\ f.data = <<0, 0>>
  BY <1>1 DEF FrameOK
<1>2. ASSUME NEW p \in DOMAIN a.pubs, NEW j \in 1 .. a.pubs[p].total,
             a.pubs[p].by # Gateway, j < a.pubs[p].next, f = FragmentIn(a, p, j)
      PROVE  FrameOK(b, f)
  <2>1. a.pubs[p].next \in Nat /\ b.pubs[p].next \in Nat /\ a.pubs[p].total \in Nat /\ p \in DOMAIN b.pubs
    BY PubIs DEF PubsGrow
  <2>2. j \in 1 .. b.pubs[p].total /\ b.pubs[p].by # Gateway /\ j < b.pubs[p].next
    BY <1>2, <2>1 DEF PubsGrow
  <2>3. f = FragmentIn(b, p, j)
    BY <1>2 DEF PubsGrow, FragmentIn
  <2> QED BY <2>1, <2>2, <2>3 DEF FrameOK
<1> QED BY <1>1, <1>2 DEF FrameOK

\* What was put together of sent fragments stays so.
LEMMA GrowKeepsTokens ==
    ASSUME NEW a \in Air, NEW b \in Air, PubsGrow(a, b), NEW d \in Seq(Nat \X Nat), Tokens(a, d)
    PROVE  /\ Tokens(b, d) /\ 1 \in DOMAIN d /\ d[1][1] \in DOMAIN a.pubs
           /\ Opens(a, d) => Opens(b, d)
           /\ Tainted(a, d) => Tainted(b, d)
<1>1. Tokens(b, d)
  BY DEF Tokens, PubsGrow
<1>2. 1 \in DOMAIN d /\ d[1][1] \in DOMAIN a.pubs
  <2>1. 1 \in DOMAIN d
    BY DEF Tokens
  <2> QED BY <2>1 DEF Tokens
<1>3. Opens(a, d) => Opens(b, d)
  <2>1. a.pubs[d[1][1]].next \in Nat /\ b.pubs[d[1][1]].next \in Nat /\ a.pubs[d[1][1]].next <= b.pubs[d[1][1]].next
    BY <1>2, PubIs DEF PubsGrow
  <2> QED BY <2>1 DEF Opens
<1>4. Tainted(a, d) => Tainted(b, d)
  BY DEF Tainted, Tokens, PubsGrow
<1> QED BY <1>1, <1>2, <1>3, <1>4

\* A sound partial message stays sound while publications only grow.
LEMMA GrowKeepsParts ==
    ASSUME NEW a \in Air, NEW b \in Air, PubsGrow(a, b), NEW x \in Part_, PartOK(a, x)
    PROVE  PartOK(b, x)
<1>1. x.data \in Seq(Nat \X Nat)
  BY DEF Part_
<1>2. /\ Tokens(a, x.data) /\ Opens(a, x.data) /\ Tokens(b, x.data) /\ Opens(b, x.data)
      /\ Tainted(a, x.data) => Tainted(b, x.data)
  BY <1>1, GrowKeepsTokens DEF PartOK
<1>3. \A j \in DOMAIN x.data : Key(b, x.data[j][1]) = <<x.from, x.cid, x.id>>
  BY <1>2, GrowKeepsKeys DEF PartOK, Tokens
<1>4. ASSUME NEW p \in DOMAIN a.pubs, x.data = Upto(p, x.next), a.pubs[p].total = x.total
      PROVE  p \in DOMAIN b.pubs /\ b.pubs[p].total = x.total
  BY <1>4 DEF PubsGrow
<1> QED BY <1>2, <1>3, <1>4 DEF PartOK

\* A sound delivered message stays sound while publications only grow.
LEMMA GrowKeepsWholes ==
    ASSUME NEW a \in Air, NEW b \in Air, PubsGrow(a, b), NEW d \in Seq(Nat \X Nat), WholeOK(a, d)
    PROVE  WholeOK(b, d)
<1>1. /\ Tokens(a, d) /\ Opens(a, d) /\ Tokens(b, d) /\ Opens(b, d)
      /\ Tainted(a, d) => Tainted(b, d)
  BY GrowKeepsTokens DEF WholeOK
<1>2. ASSUME NEW p \in DOMAIN a.pubs, d = Upto(p, a.pubs[p].total)
      PROVE  p \in DOMAIN b.pubs /\ d = Upto(p, b.pubs[p].total)
  BY <1>2 DEF PubsGrow
<1> QED BY <1>1, <1>2 DEF WholeOK

Sound(a) ==
    /\ a \in Air /\ PubsOK(a) /\ FramesOK(a) /\ InOrder(a)
    /\ SlotsOK(a) /\ PartialsOK(a) /\ DeliveredOK(a)
    /\ OpenersOnce(a) /\ SlotKeys(a) /\ KeysOK(a) /\ OneSending(a)

Faded(y, x) ==
    /\ y.from = x.from /\ y.cid = x.cid /\ y.id = x.id /\ y.next = x.next /\ y.total = x.total
    /\ y.data = x.data /\ (x.old => y.old)
Kept(a, b, o, k) ==
    \/ k + o \in DOMAIN a.uplink /\ b.uplink[k] = a.uplink[k + o]
    \/ b.uplink[k].total = 0 /\ b.uplink[k].data = <<0, 0>>

\* Frames and partial messages vanish or grow old, and a DISCONNECT may be sent.
Fades(a, b) ==
    /\ PubsGrow(a, b) /\ DOMAIN b.pubs = DOMAIN a.pubs
    /\ \A p \in DOMAIN b.pubs : b.pubs[p].next <= b.pubs[p].total + 1
    /\ b.delivered = a.delivered
    /\ \A i \in Held(b) : i \in Held(a) /\ Faded(b.slots[i], a.slots[i])
    /\ \A s \in Senders : b.partial[s] # NoPartial => a.partial[s] # NoPartial /\ Faded(b.partial[s], a.partial[s])
    /\ \E o \in {0, 1} : \A k \in DOMAIN b.uplink : Kept(a, b, o, k)

\* A partial message that only ages is as sound as it was.
LEMMA FadedPart ==
    ASSUME NEW a \in Air, NEW b \in Air, PubsGrow(a, b), NEW x \in Part_, NEW y \in Part_, Faded(y, x), PartOK(a, x)
    PROVE  PartOK(b, y) /\ Within(y) = Within(x)
<1>1. PartOK(b, x)
  BY GrowKeepsParts
<1>2. x # NoPartial /\ y # NoPartial
  BY DEF Part_, NoPartial
<1>3. PartOK(b, y)
  BY <1>1 DEF PartOK, Faded
<1>4. y.data = x.data
  BY DEF Faded
<1> QED BY <1>2, <1>3, <1>4 DEF Within

\* The first fragment of a partial message is of its sender.
LEMMA OfItsSender ==
    ASSUME NEW a, NEW x, PartOK(a, x), 1 \in DOMAIN x.data
    PROVE  Key(a, x.data[1][1])[1] = x.from /\ x.data[1][1] \in DOMAIN a.pubs
<1>1. Key(a, x.data[1][1]) = <<x.from, x.cid, x.id>>
  BY Zenon DEF PartOK
<1>2. x.data[1][1] \in DOMAIN a.pubs
  BY DEF PartOK, Tokens
<1> QED BY <1>1, <1>2

\* No other message begins as a partial message of the gateway's does.
LEMMA PartialOpens ==
    ASSUME NEW a, OpenersOnce(a), NEW s \in Senders, a.partial[s] # NoPartial
    PROVE  /\ \A t \in Senders : t # s /\ a.partial[t] # NoPartial => a.partial[t].data[1] # a.partial[s].data[1]
           /\ \A k \in DOMAIN a.delivered : a.delivered[k][1] # a.partial[s].data[1]
  BY DEF OpenersOnce

\* The publications that a partial message has fragments of.
LEMMA WithinIs ==
    ASSUME NEW x \in Part_
    PROVE  \A p : p \in Within(x) <=> \E j \in DOMAIN x.data : x.data[j][1] = p
<1>1. x # NoPartial
  BY DEF Part_, NoPartial
<1> QED BY <1>1 DEF Within

\* A frame that is left was there before.
LEMMA KeptFrame ==
    ASSUME NEW a, Sound(a), NEW b \in Air, NEW o \in {0, 1}, NEW k \in DOMAIN b.uplink, Kept(a, b, o, k)
    PROVE  /\ FrameOK(a, b.uplink[k])
           /\ b.uplink[k].data[1] # 0 => k + o \in DOMAIN a.uplink /\ b.uplink[k] = a.uplink[k + o]
           /\ b.uplink[k].data[1] \in DOMAIN a.pubs \cup {0}
           /\ b.uplink[k].data[1] = 0 <=> b.uplink[k].total = 0
<1>1. a \in Air /\ FramesOK(a)
  BY DEF Sound
<1>2. FrameOK(a, b.uplink[k])
  BY <1>1 DEF Kept, FramesOK, FrameOK
<1>3. CASE b.uplink[k].total = 0 /\ b.uplink[k].data = <<0, 0>>
  BY <1>2, <1>3
<1>4. ASSUME NEW p \in DOMAIN a.pubs, NEW j \in 1 .. a.pubs[p].total, b.uplink[k] = FragmentIn(a, p, j)
      PROVE  b.uplink[k].data[1] = p /\ p # 0 /\ b.uplink[k].total # 0
  <2>1. p \in Nat \ {0} /\ a.pubs[p].total # 0
    BY <1>1, PubIs
  <2> QED BY <1>4, <2>1 DEF FragmentIn
<1>5. CASE ~(b.uplink[k].total = 0 /\ b.uplink[k].data = <<0, 0>>)
  <2>1. k + o \in DOMAIN a.uplink /\ b.uplink[k] = a.uplink[k + o]
    BY <1>5 DEF Kept
  <2> QED BY <1>2, <1>4, <1>5, <2>1 DEF FrameOK
<1> QED BY <1>3, <1>5

\* A message put together begins with the opener of a publication that has sent it.
LEMMA OpensAt ==
    ASSUME NEW a \in Air, NEW d \in Seq(Nat \X Nat), Tokens(a, d), Opens(a, d)
    PROVE  /\ 1 \in DOMAIN d /\ d[1] = <<d[1][1], 1>> /\ d[1][1] \in DOMAIN a.pubs /\ d[1][1] # 0
           /\ a.pubs[d[1][1]].next > 1
<1>1. 1 \in DOMAIN d /\ d[1] \in Nat \X Nat
  BY DEF Tokens
<1>2. d[1][1] \in DOMAIN a.pubs
  BY <1>1 DEF Tokens
<1> QED BY <1>1, <1>2, PubIs DEF Opens

\* What is only lost, aged or spoiled does no harm to what holds of every state.
LEMMA FadeSound ==
    ASSUME NEW a, Sound(a), NEW b \in Air, Fades(a, b)
    PROVE  Sound(b)
<1>1. /\ a \in Air /\ PubsOK(a) /\ FramesOK(a) /\ InOrder(a)
      /\ SlotsOK(a) /\ PartialsOK(a) /\ DeliveredOK(a)
      /\ OpenersOnce(a) /\ SlotKeys(a) /\ KeysOK(a) /\ OneSending(a)
  BY DEF Sound
<1>2. /\ PubsGrow(a, b) /\ DOMAIN b.pubs = DOMAIN a.pubs
      /\ \A p \in DOMAIN b.pubs : b.pubs[p].next <= b.pubs[p].total + 1
      /\ b.delivered = a.delivered
  BY DEF Fades
<1>3. \A i \in Held(b) : /\ i \in Held(a) /\ Faded(b.slots[i], a.slots[i])
                         /\ a.slots[i] \in Part_ /\ b.slots[i] \in Part_
  BY <1>1, HeldIs DEF Fades
<1>4. \A s \in Senders : b.partial[s] # NoPartial => 
          /\ a.partial[s] # NoPartial /\ Faded(b.partial[s], a.partial[s])
          /\ a.partial[s] \in Part_ /\ b.partial[s] \in Part_
  BY <1>1, HeldIs DEF Fades
<1>5. PICK o \in {0, 1} : \A k \in DOMAIN b.uplink : Kept(a, b, o, k)
  BY DEF Fades
<1>6. \A k \in DOMAIN b.uplink :
          /\ FrameOK(a, b.uplink[k])
          /\ b.uplink[k].data[1] # 0 => k + o \in DOMAIN a.uplink /\ b.uplink[k] = a.uplink[k + o]
          /\ b.uplink[k].data[1] \in DOMAIN a.pubs \cup {0}
          /\ b.uplink[k].data[1] = 0 <=> b.uplink[k].total = 0
          /\ k \in Nat /\ k + o \in Nat
  BY <1>5, KeptFrame, FrameIs
<1>7. PubsOK(b)
  BY <1>1, <1>2 DEF PubsOK, PubsGrow
<1>8. FramesOK(b)
  BY <1>1, <1>2, <1>6, GrowKeepsFrames DEF FramesOK
<1>9. InOrder(b)
  <2> SUFFICES ASSUME NEW k \in DOMAIN b.uplink, NEW l \in DOMAIN b.uplink, k < l,
                      b.uplink[k].data[1] = b.uplink[l].data[1], b.uplink[k].total # 0
               PROVE  b.uplink[k].data[2] < b.uplink[l].data[2]
    BY DEF InOrder
  <2>1. b.uplink[k].data[1] # 0 /\ b.uplink[l].data[1] # 0
    BY <1>6
  <2>2. /\ k + o \in DOMAIN a.uplink /\ b.uplink[k] = a.uplink[k + o]
        /\ l + o \in DOMAIN a.uplink /\ b.uplink[l] = a.uplink[l + o]
        /\ k + o < l + o
    BY <1>6, <2>1
  <2> QED BY <1>1, <2>2 DEF InOrder
<1>10. SlotsOK(b)
  BY <1>1, <1>2, <1>3, FadedPart DEF SlotsOK, Faded
<1>11. PartialsOK(b)
  BY <1>1, <1>2, <1>4, FadedPart DEF PartialsOK, Faded
<1>12. DeliveredOK(b)
  <2>1. \A i \in DOMAIN a.delivered : a.delivered[i] \in Seq(Nat \X Nat)
    BY <1>1 DEF Air
  <2> QED BY <1>1, <1>2, <2>1, GrowKeepsWholes DEF DeliveredOK
<1>13. OpenersOnce(b)
  <2> USE <1>1, <1>2, <1>3, <1>4 DEF OpenersOnce, Faded
  <2>1. \A i, j \in Held(b) : b.slots[i].data[1] = b.slots[j].data[1] => i = j
    OBVIOUS
  <2>2. \A s, t \in Senders :
            b.partial[s] # NoPartial /\ b.partial[t] # NoPartial /\ b.partial[s].data[1] = b.partial[t].data[1] => s = t
    OBVIOUS
  <2>3. \A i, j \in DOMAIN b.delivered : b.delivered[i][1] = b.delivered[j][1] => i = j
    OBVIOUS
  <2>4. \A i \in Held(b) : \A j \in DOMAIN b.delivered : b.slots[i].data[1] # b.delivered[j][1]
    OBVIOUS
  <2>5. \A s \in Senders : \A j \in DOMAIN b.delivered :
            b.partial[s] # NoPartial => b.partial[s].data[1] # b.delivered[j][1]
    OBVIOUS
  <2>6. ASSUME NEW k \in DOMAIN b.uplink
        PROVE  /\ \A i \in Held(b) : b.uplink[k].data # b.slots[i].data[1]
               /\ \A j \in DOMAIN b.delivered : b.uplink[k].data # b.delivered[j][1]
    <3>1. CASE b.uplink[k].data[1] # 0
      BY <1>6, <3>1
    <3>2. CASE b.uplink[k].data[1] = 0
      <4>1. \A i \in Held(b) : b.slots[i].data[1][1] # 0
        <5>1. \A i \in Held(b) : b.slots[i].data \in Seq(Nat \X Nat)
          BY DEF Part_
        <5>2. \A i \in Held(b) : Tokens(b, b.slots[i].data) /\ Opens(b, b.slots[i].data)
          BY <1>10 DEF SlotsOK, PartOK
        <5> QED BY <5>1, <5>2, OpensAt
      <4>2. \A j \in DOMAIN b.delivered : b.delivered[j][1][1] # 0
        <5>1. \A j \in DOMAIN b.delivered : b.delivered[j] \in Seq(Nat \X Nat)
          BY DEF Air
        <5> QED BY <1>12, <5>1, OpensAt DEF DeliveredOK, WholeOK
      <4> QED BY <3>2, <4>1, <4>2
    <3> QED BY <3>1, <3>2
  <2> QED BY <2>1, <2>2, <2>3, <2>4, <2>5, <2>6
<1>14. SlotKeys(b)
  BY <1>1, <1>3 DEF SlotKeys, Faded
<1>15. OneSending(b)
  BY <1>1, <1>2, GrowKeepsKeys DEF OneSending, PubsGrow
<1>16. KeysOK(b)
  <2> SUFFICES ASSUME NEW p \in DOMAIN b.pubs, NEW q \in DOMAIN b.pubs, p < q, Key(b, p) = Key(b, q)
               PROVE  \/ b.pubs[q].reused /\ ~b.pubs[p].fine /\ ~b.pubs[q].fine
                      \/ Dead(b, p)
    BY DEF KeysOK
  <2>1. Key(a, p) = Key(a, q)
    BY <1>1, <1>2, GrowKeepsKeys
  <2>2. \/ a.pubs[q].reused /\ ~a.pubs[p].fine /\ ~a.pubs[q].fine
        \/ Dead(a, p)
    BY <1>1, <1>2, <2>1 DEF KeysOK
  <2>3. CASE a.pubs[q].reused /\ ~a.pubs[p].fine /\ ~a.pubs[q].fine
    BY <1>2, <2>3 DEF PubsGrow
  <2>4. CASE Dead(a, p)
    <3>1. ~InProgress(b, p)
      BY <1>1, <1>2, <2>4, GrowKeepsKeys DEF Dead
    <3>2. ~InUplink(b, p)
      <4>1. p # 0
        BY PubIs
      <4> QED BY <1>6, <2>4, <4>1 DEF Dead, InUplink
    <3>3. \A i \in Held(b) : p \notin Within(b.slots[i])
      BY <1>3, <2>4, WithinIs DEF Dead, Faded
    <3>4. \A s \in Senders : p \in Within(b.partial[s]) => b.partial[s].old
      <4> SUFFICES ASSUME NEW s \in Senders, p \in Within(b.partial[s]) PROVE b.partial[s].old
        OBVIOUS
      <4>1. b.partial[s] # NoPartial
        BY DEF Within
      <4>2. p \in Within(a.partial[s])
        BY <1>4, <4>1, WithinIs DEF Faded
      <4>3. a.partial[s].old
        BY <2>4, <4>2 DEF Dead
      <4> QED BY <1>4, <4>1, <4>3 DEF Faded
    <3> QED BY <3>1, <3>2, <3>3, <3>4 DEF Dead
  <2> QED BY <2>2, <2>3, <2>4
<1> QED BY <1>7, <1>8, <1>9, <1>10, <1>11, <1>12, <1>13, <1>14, <1>15, <1>16 DEF Sound

\* What befell nothing that p is made of.
FadesFor(a, b, p) ==
    /\ b.pubs[p].next = a.pubs[p].next
    /\ a.pubs[p].by = Gateway =>
           (p \in Within(a.partial[a.pubs[p].to]) => b.partial[a.pubs[p].to] = a.partial[a.pubs[p].to])
    /\ a.pubs[p].by # Gateway =>
           /\ b.joined[a.pubs[p].by] = a.joined[a.pubs[p].by]
           /\ a.session[a.pubs[p].by] = a.pubs[p].cid => b.session[a.pubs[p].by] = a.pubs[p].cid
           /\ \A l \in DOMAIN a.uplink : a.uplink[l].data[1] = p =>
                  \E m \in DOMAIN b.uplink : b.uplink[m].data = a.uplink[l].data
           /\ \A i \in Held(a) : p \in Within(a.slots[i]) => b.slots[i] = a.slots[i]

\* The first k fragments of a publication are a partial message of that publication
\* alone.
LEMMA PartIs ==
    ASSUME NEW a \in Air, NEW p \in DOMAIN a.pubs, NEW k \in Nat, k > 0
    PROVE  Part(a, p, k) \in Part_ /\ p \in Within(Part(a, p, k))
<1>1. /\ p \in Nat /\ a.pubs[p].by \in Everyone /\ a.pubs[p].cid \in Nat \ {0} /\ a.pubs[p].id \in Nat
      /\ a.pubs[p].total \in Nat
  BY PubIs
<1>2. Upto(p, k) \in Seq(Nat \X Nat) /\ Len(Upto(p, k)) = k /\ Upto(p, k)[1] = <<p, 1>>
  BY <1>1, UptoGrows
<1>3. Part(a, p, k) \in Part_ /\ Part(a, p, k).data = Upto(p, k)
  BY <1>1, <1>2 DEF Part, Part_
<1>4. 1 \in DOMAIN Upto(p, k) /\ Upto(p, k)[1][1] = p
  BY <1>2
<1> QED BY <1>3, <1>4, WithinIs

\* What fades spares a message to a station that has had no trouble.
LEMMA FadeCarriesDown ==
    ASSUME NEW a, Sound(a), NEW b \in Air, Fades(a, b), NEW p \in DOMAIN a.pubs, FadesFor(a, b, p),
           a.pubs[p].by = Gateway, CarriedDown(a, p)
    PROVE  CarriedDown(b, p)
<1>1. /\ a \in Air /\ PubsGrow(a, b) /\ b.delivered = a.delivered
      /\ b.pubs[p].next = a.pubs[p].next /\ b.pubs[p].total = a.pubs[p].total /\ b.pubs[p].to = a.pubs[p].to
  BY DEF Sound, Fades, PubsGrow, FadesFor
<1>2. a.pubs[p].next \in Nat
  BY <1>1, PubIs
<1>3. ASSUME 1 < b.pubs[p].next, b.pubs[p].next <= b.pubs[p].total
      PROVE  b.partial[b.pubs[p].to] = Part(b, p, b.pubs[p].next - 1)
  <2>1. a.partial[a.pubs[p].to] = Part(a, p, a.pubs[p].next - 1)
    BY <1>1, <1>3 DEF CarriedDown
  <2>2. p \in Within(a.partial[a.pubs[p].to])
    BY <1>1, <1>2, <1>3, <2>1, PartIs
  <2>3. Part(b, p, b.pubs[p].next - 1) = Part(a, p, a.pubs[p].next - 1)
    BY <1>1 DEF Part, PubsGrow
  <2> QED BY <1>1, <2>1, <2>2, <2>3 DEF FadesFor
<1> QED BY <1>1, <1>3 DEF CarriedDown

\* What fades spares what the gateway has taken of a message that has had no trouble.
LEMMA FadeConsumed ==
    ASSUME NEW a, Sound(a), NEW b \in Air, Fades(a, b), NEW p \in DOMAIN a.pubs, FadesFor(a, b, p),
           a.pubs[p].by # Gateway, NEW k \in Nat, Consumed(a, p, k)
    PROVE  Consumed(b, p, k)
<1>1. /\ a \in Air /\ PubsGrow(a, b) /\ b.delivered = a.delivered
      /\ b.pubs[p].next = a.pubs[p].next /\ b.pubs[p].total = a.pubs[p].total
      /\ b.pubs[p].by = a.pubs[p].by /\ b.pubs[p].cid = a.pubs[p].cid
  BY DEF Sound, Fades, PubsGrow, FadesFor
<1>2. PICK o \in {0, 1} : \A l \in DOMAIN b.uplink : Kept(a, b, o, l)
  BY DEF Fades
<1>3. k >= 1 => b.session[b.pubs[p].by] = b.pubs[p].cid
  BY <1>1 DEF FadesFor, Consumed
<1>4. \A l \in DOMAIN b.uplink : b.uplink[l].data[1] = p => b.uplink[l].data[2] > k
  <2>1. p # 0
    BY <1>1, PubIs
  <2> QED BY <1>2, <2>1, KeptFrame DEF Consumed
<1>5. \A j \in k + 1 .. b.pubs[p].next - 1 : \E l \in DOMAIN b.uplink : b.uplink[l].data = <<p, j>>
  <2> TAKE j \in k + 1 .. b.pubs[p].next - 1
  <2>1. PICK l \in DOMAIN a.uplink : a.uplink[l].data = <<p, j>>
    BY <1>1 DEF Consumed
  <2>2. a.uplink[l].data[1] = p
    BY <2>1
  <2> QED BY <2>1, <2>2 DEF FadesFor
<1>6. ASSUME 1 <= k, k < b.pubs[p].total
      PROVE  \E i \in Held(b) : b.slots[i] = Part(b, p, k)
  <2>1. PICK i \in Held(a) : a.slots[i] = Part(a, p, k)
    BY <1>1, <1>6 DEF Consumed
  <2>2. Part(b, p, k) = Part(a, p, k)
    BY <1>1 DEF Part, PubsGrow
  <2>3. p \in Within(a.slots[i])
    BY <1>1, <1>6, <2>1, PartIs
  <2>4. b.slots[i] = a.slots[i]
    BY <2>3 DEF FadesFor
  <2>5. i \in Held(b)
    BY <1>1, <2>4, HeldIs
  <2> QED BY <2>1, <2>2, <2>4, <2>5
<1>7. k = b.pubs[p].total => \E i \in DOMAIN b.delivered : b.delivered[i] = Upto(p, k)
  BY <1>1 DEF Consumed
<1> QED BY <1>3, <1>4, <1>5, <1>6, <1>7 DEF Consumed

\* What fades spares every message that has had no trouble.
LEMMA FadeCarried ==
    ASSUME NEW a, Sound(a), NEW b \in Air, Fades(a, b), NEW p \in DOMAIN a.pubs, Carried(a, p),
           b.pubs[p].fine => FadesFor(a, b, p)
    PROVE  Carried(b, p)
<1> SUFFICES ASSUME b.pubs[p].fine
             PROVE  IF b.pubs[p].by = Gateway THEN CarriedDown(b, p) ELSE CarriedUp(b, p)
  BY DEF Carried
<1>1. /\ a \in Air /\ PubsGrow(a, b) /\ FadesFor(a, b, p) /\ a.pubs[p].fine
      /\ b.pubs[p].by = a.pubs[p].by /\ b.pubs[p].cid = a.pubs[p].cid /\ b.pubs[p].next = a.pubs[p].next
  BY DEF Sound, Fades, PubsGrow, FadesFor
<1>2. CASE a.pubs[p].by = Gateway
  BY <1>1, <1>2, FadeCarriesDown DEF Carried
<1>3. CASE a.pubs[p].by # Gateway
  <2>1. PICK k \in 0 .. a.pubs[p].next - 1 : Consumed(a, p, k)
    BY <1>1, <1>3 DEF Carried, CarriedUp
  <2>2. k \in Nat
    BY <1>1, PubIs
  <2>3. Consumed(b, p, k)
    BY <1>1, <1>3, <2>1, <2>2, FadeConsumed
  <2>4. b.joined[b.pubs[p].by] = b.pubs[p].cid
    BY <1>1, <1>3 DEF Carried, CarriedUp, FadesFor
  <2> QED BY <1>1, <1>3, <2>1, <2>3, <2>4 DEF CarriedUp
<1> QED BY <1>2, <1>3

-------------------------------------------------------------------------------
(* What befalls messages.                                                       *)

\* The publications of ps are no longer fine, and none has gone back.
Spoils(a, b, ps) ==
    /\ DOMAIN b.pubs = DOMAIN a.pubs
    /\ \A p \in DOMAIN a.pubs :
          /\ b.pubs[p].by = a.pubs[p].by /\ b.pubs[p].to = a.pubs[p].to
          /\ b.pubs[p].cid = a.pubs[p].cid /\ b.pubs[p].id = a.pubs[p].id
          /\ b.pubs[p].total = a.pubs[p].total /\ b.pubs[p].reused = a.pubs[p].reused
          /\ a.pubs[p].next <= b.pubs[p].next /\ b.pubs[p].next <= b.pubs[p].total + 1
          /\ b.pubs[p].fine => a.pubs[p].fine /\ p \notin ps /\ b.pubs[p].next = a.pubs[p].next

\* All but the publications and the budget.
SameElse(a, b) ==
    /\ b.here = a.here /\ b.counts = a.counts /\ b.session = a.session /\ b.joined = a.joined
    /\ b.cids = a.cids /\ b.ids = a.ids /\ b.uplink = a.uplink /\ b.delivered = a.delivered
    /\ b.slots = a.slots /\ b.partial = a.partial

\* Another table of publications leaves the rest of the air as it was.
LEMMA AnyPubs ==
    ASSUME NEW a \in Air, NEW F, DOMAIN F = DOMAIN a.pubs, \A p \in DOMAIN a.pubs : F[p] \in Pubs,
           F = [p \in DOMAIN a.pubs |-> F[p]]
    PROVE  /\ [a EXCEPT !.pubs = F] \in Air /\ SameElse(a, [a EXCEPT !.pubs = F])
           /\ [a EXCEPT !.pubs = F].pubs = F /\ [a EXCEPT !.pubs = F].left = a.left
<1>1. a.pubs \in Seq(Pubs)
  BY DEF Air
<1>2. DOMAIN a.pubs = 1 .. Len(a.pubs) /\ Len(a.pubs) \in Nat
  BY <1>1
<1>3. F \in [1 .. Len(a.pubs) -> Pubs]
  BY <1>2
<1>4. F \in Seq(Pubs)
  BY <1>2, <1>3, IsASeq
<1>5. [a EXCEPT !.pubs = F] \in Air
  BY <1>4 DEF Air
<1>6. SameElse(a, [a EXCEPT !.pubs = F])
  BY DEF Air, SameElse
<1> QED BY <1>5, <1>6 DEF Air

\* Spoil marks the publications it is given and changes nothing else.
LEMMA SpoilIs ==
    ASSUME NEW a \in Air, PubsOK(a), NEW ps
    PROVE  /\ Spoil(a, ps) \in Air /\ SameElse(a, Spoil(a, ps)) /\ Spoil(a, ps).left = a.left
           /\ Spoils(a, Spoil(a, ps), ps)
           /\ PubsOK(Spoil(a, ps))
<1> DEFINE F == [p \in DOMAIN a.pubs |-> [a.pubs[p] EXCEPT !.fine = a.pubs[p].fine /\ p \notin ps]]
<1>1. \A p \in DOMAIN a.pubs :
        /\ a.pubs[p] \in Pubs /\ (a.pubs[p].fine /\ p \notin ps) \in BOOLEAN
  BY PubIs
<1>2. \A p \in DOMAIN a.pubs :
        /\ F[p] \in Pubs /\ F[p].by = a.pubs[p].by /\ F[p].to = a.pubs[p].to
        /\ F[p].cid = a.pubs[p].cid /\ F[p].id = a.pubs[p].id /\ F[p].total = a.pubs[p].total
        /\ F[p].next = a.pubs[p].next /\ F[p].reused = a.pubs[p].reused
        /\ F[p].fine = (a.pubs[p].fine /\ p \notin ps)
  BY <1>1, Zenon DEF Pubs
<1>3. DOMAIN F = DOMAIN a.pubs /\ F = [p \in DOMAIN a.pubs |-> F[p]]
  OBVIOUS
<1>4. Spoil(a, ps) = [a EXCEPT !.pubs = F]
  BY DEF Spoil
<1> HIDE DEF F
<1>5. /\ Spoil(a, ps) \in Air /\ SameElse(a, Spoil(a, ps)) /\ Spoil(a, ps).pubs = F /\ Spoil(a, ps).left = a.left
  BY <1>2, <1>3, <1>4, AnyPubs
<1>6. \A p \in DOMAIN a.pubs : a.pubs[p].next \in Nat /\ a.pubs[p].next <= a.pubs[p].total + 1
  BY PubIs DEF PubsOK
<1>7. Spoils(a, Spoil(a, ps), ps)
  <2> SUFFICES ASSUME NEW p \in DOMAIN a.pubs
               PROVE  /\ F[p].by = a.pubs[p].by /\ F[p].to = a.pubs[p].to
                      /\ F[p].cid = a.pubs[p].cid /\ F[p].id = a.pubs[p].id
                      /\ F[p].total = a.pubs[p].total /\ F[p].reused = a.pubs[p].reused
                      /\ a.pubs[p].next <= F[p].next /\ F[p].next <= F[p].total + 1
                      /\ (F[p].fine => a.pubs[p].fine /\ p \notin ps /\ F[p].next = a.pubs[p].next)
    BY <1>3, <1>5 DEF Spoils
  <2>1. F[p].fine => a.pubs[p].fine /\ p \notin ps
    BY <1>2
  <2>2. a.pubs[p].next <= F[p].next /\ F[p].next <= F[p].total + 1 /\ F[p].next = a.pubs[p].next
    BY <1>2, <1>6
  <2> QED BY <1>2, <2>1, <2>2
<1>8. PubsOK(Spoil(a, ps))
  BY <1>2, <1>3, <1>5 DEF PubsOK
<1> QED BY <1>5, <1>7, <1>8

\* Trouble only counts.
LEMMA TroubleIs ==
    ASSUME NEW a \in Air
    PROVE  /\ Trouble(a) \in Air /\ SameElse(a, Trouble(a)) /\ Trouble(a).pubs = a.pubs
<1>1. a.left - 1 \in Int
  BY DEF Air
<1>2. Trouble(a) \in Air
  BY <1>1, Zenon DEF Trouble, Air
<1> QED BY <1>2, Zenon DEF Trouble, Air, SameElse

\* Spoiling twice is spoiling both sets.
LEMMA SpoilsTwice ==
    ASSUME NEW a \in Air, NEW b \in Air, NEW c \in Air, NEW ps, NEW qs, Spoils(a, b, ps), Spoils(b, c, qs)
    PROVE  Spoils(a, c, ps \cup qs)
<1>1. \A p \in DOMAIN a.pubs : a.pubs[p].next \in Nat /\ b.pubs[p].next \in Nat /\ c.pubs[p].next \in Nat
  BY PubIs, Zenon DEF Spoils
<1> QED BY <1>1 DEF Spoils

\* The queue as it was, emptied, without its first frame, or with a DISCONNECT more.
UplinkFades(a, b) ==
    \/ b.uplink = a.uplink
    \/ b.uplink = <<>>
    \/ a.uplink # <<>> /\ b.uplink = Tail(a.uplink)
    \/ \E f \in Frames : f.total = 0 /\ f.data = <<0, 0>> /\ b.uplink = Append(a.uplink, f)

\* Of the queue, what is left is the queue, or all of it but its head.
LEMMA UplinkKept ==
    ASSUME NEW a \in Air, NEW b \in Air, UplinkFades(a, b)
    PROVE  \E o \in {0, 1} : \A k \in DOMAIN b.uplink : Kept(a, b, o, k)
<1>1. a.uplink \in Seq(Frames) /\ b.uplink \in Seq(Frames)
  BY DEF Air
<1>2. CASE b.uplink = a.uplink
  <2>1. \A k \in DOMAIN b.uplink : k + 0 = k
    BY <1>1
  <2>2. \A k \in DOMAIN b.uplink : Kept(a, b, 0, k)
    BY <1>2, <2>1 DEF Kept
  <2> QED BY <2>2
<1>3. CASE b.uplink = <<>>
  <2>1. DOMAIN b.uplink = {}
    BY <1>3
  <2> QED BY <2>1
<1>4. CASE a.uplink # <<>> /\ b.uplink = Tail(a.uplink)
  <2>1. /\ Len(a.uplink) \in Nat /\ Len(b.uplink) = Len(a.uplink) - 1
        /\ DOMAIN a.uplink = 1 .. Len(a.uplink) /\ DOMAIN b.uplink = 1 .. Len(b.uplink)
        /\ \A k \in 1 .. Len(b.uplink) : b.uplink[k] = a.uplink[k + 1]
    BY <1>1, <1>4, HeadTailProperties
  <2>2. \A k \in DOMAIN b.uplink : k + 1 \in DOMAIN a.uplink /\ b.uplink[k] = a.uplink[k + 1]
    BY <2>1
  <2>3. \A k \in DOMAIN b.uplink : Kept(a, b, 1, k)
    BY <2>2 DEF Kept
  <2> QED BY <2>3
<1>5. ASSUME NEW f \in Frames, f.total = 0, f.data = <<0, 0>>, b.uplink = Append(a.uplink, f)
      PROVE  \E o \in {0, 1} : \A k \in DOMAIN b.uplink : Kept(a, b, o, k)
  <2>1. /\ Len(b.uplink) = Len(a.uplink) + 1 /\ Len(a.uplink) \in Nat
        /\ DOMAIN a.uplink = 1 .. Len(a.uplink) /\ DOMAIN b.uplink = 1 .. Len(b.uplink)
        /\ \A k \in 1 .. Len(a.uplink) : b.uplink[k] = a.uplink[k]
        /\ b.uplink[Len(a.uplink) + 1] = f
    BY <1>1, <1>5, AppendProperties
  <2>2. \A k \in DOMAIN b.uplink : \/ k + 0 \in DOMAIN a.uplink /\ b.uplink[k] = a.uplink[k + 0]
                                   \/ b.uplink[k] = f
    BY <2>1
  <2>3. \A k \in DOMAIN b.uplink : Kept(a, b, 0, k)
    BY <1>5, <2>2 DEF Kept
  <2> QED BY <2>3
<1> QED BY <1>2, <1>3, <1>4, <1>5 DEF UplinkFades

\* Parts of messages stay, grow old, or are dropped.
PartsFade(a, b) ==
    /\ \A i \in Held(b) : i \in Held(a) /\ Faded(b.slots[i], a.slots[i])
    /\ \A s \in Senders : b.partial[s] # NoPartial => a.partial[s] # NoPartial /\ Faded(b.partial[s], a.partial[s])

\* A step that spoils, and empties or ages the rest, is one that fades.
LEMMA SpoiledFades ==
    ASSUME NEW a \in Air, NEW b \in Air, NEW ps, Spoils(a, b, ps), b.delivered = a.delivered,
           PartsFade(a, b), UplinkFades(a, b)
    PROVE  Fades(a, b)
<1>1. PubsGrow(a, b) /\ DOMAIN b.pubs = DOMAIN a.pubs
  BY DEF Spoils, PubsGrow
<1>2. \A p \in DOMAIN b.pubs : b.pubs[p].next <= b.pubs[p].total + 1
  BY DEF Spoils
<1>3. \E o \in {0, 1} : \A k \in DOMAIN b.uplink : Kept(a, b, o, k)
  BY UplinkKept
<1> QED BY <1>1, <1>2, <1>3 DEF Fades, PartsFade

\* The inductive invariant: what holds whatever befalls a message, and, for one that
\* has had no trouble, where each of its fragments is.
FragmentsInv == Sound(air) /\ \A p \in DOMAIN air.pubs : Carried(air, p)

\* A step that fades, and spoils what it may harm, preserves the invariant.
LEMMA FadingStep ==
    ASSUME FragmentsInv, air' \in Air, Fades(air, air'),
           \A p \in DOMAIN air.pubs : air'.pubs[p].fine => FadesFor(air, air', p)
    PROVE  FragmentsInv'
<1>1. Sound(air')
  BY FadeSound DEF FragmentsInv
<1>2. DOMAIN air'.pubs = DOMAIN air.pubs
  BY DEF Fades
<1>3. \A p \in DOMAIN air.pubs : Carried(air', p)
  BY FadeCarried DEF FragmentsInv
<1> QED BY <1>1, <1>2, <1>3 DEF FragmentsInv

Advance(a, p, n) == [a EXCEPT !.pubs[p].next = n]

\* A publication that goes on to a later fragment, spoiled or not.
LEMMA AdvanceIs ==
    ASSUME NEW a \in Air, PubsOK(a), NEW p \in DOMAIN a.pubs, NEW n \in Nat,
           a.pubs[p].next <= n, n <= a.pubs[p].total + 1, NEW b, b = Advance(a, p, n)
    PROVE  /\ b \in Air /\ SameElse(a, b) /\ b.left = a.left /\ PubsOK(b)
           /\ b.pubs = [a.pubs EXCEPT ![p] = [a.pubs[p] EXCEPT !.next = n]]
           /\ Spoil(b, {p}) \in Air /\ PubsOK(Spoil(b, {p})) /\ Spoils(a, Spoil(b, {p}), {p})
           /\ SameElse(a, Spoil(b, {p})) /\ Spoil(b, {p}).left = a.left
<1> DEFINE F == [a.pubs EXCEPT ![p] = [a.pubs[p] EXCEPT !.next = n]]
<1>1. /\ \A q \in DOMAIN a.pubs : a.pubs[q] \in Pubs /\ a.pubs[q].next \in Nat /\ a.pubs[q].total \in Nat
      /\ a.pubs[p].next \in Nat \ {0} /\ n \in Nat \ {0}
  BY PubIs
<1>2. \A q \in DOMAIN a.pubs :
        /\ F[q] \in Pubs /\ F[q].by = a.pubs[q].by /\ F[q].to = a.pubs[q].to
        /\ F[q].cid = a.pubs[q].cid /\ F[q].id = a.pubs[q].id /\ F[q].total = a.pubs[q].total
        /\ F[q].next = (IF q = p THEN n ELSE a.pubs[q].next) /\ F[q].reused = a.pubs[q].reused
        /\ F[q].fine = a.pubs[q].fine
  BY <1>1 DEF Pubs
<1>3. DOMAIN F = DOMAIN a.pubs /\ F = [q \in DOMAIN a.pubs |-> F[q]]
  OBVIOUS
<1>4. b = [a EXCEPT !.pubs = F] /\ b.pubs = F
  BY DEF Air, Advance
<1> HIDE DEF F
<1>5. b \in Air /\ SameElse(a, b) /\ b.left = a.left
  BY <1>2, <1>3, <1>4, AnyPubs
<1>6. PubsOK(b)
  <2>1. \A q \in DOMAIN a.pubs : F[q].next <= F[q].total + 1
    BY <1>1, <1>2 DEF PubsOK
  <2>2. \A q \in DOMAIN a.pubs : IF F[q].by = Gateway THEN F[q].to \in Senders ELSE F[q].to = Gateway
    BY <1>2 DEF PubsOK
  <2> QED BY <1>3, <1>4, <2>1, <2>2 DEF PubsOK
<1>7. /\ Spoil(b, {p}) \in Air /\ SameElse(b, Spoil(b, {p})) /\ Spoil(b, {p}).left = b.left
      /\ Spoils(b, Spoil(b, {p}), {p}) /\ PubsOK(Spoil(b, {p}))
  BY <1>5, <1>6, SpoilIs
<1>8. Spoils(a, Spoil(b, {p}), {p})
  <2>1. \A q \in DOMAIN a.pubs : a.pubs[q].next <= b.pubs[q].next /\ (q # p => b.pubs[q].next = a.pubs[q].next)
    BY <1>1, <1>2, <1>4
  <2>2. \A q \in DOMAIN a.pubs : Spoil(b, {p}).pubs[q].next \in Nat /\ b.pubs[q].next \in Nat
    BY <1>3, <1>4, <1>5, <1>7, PubIs, Zenon DEF Spoils
  <2>3. \A q \in DOMAIN a.pubs : Spoil(b, {p}).pubs[q].fine => q # p /\ a.pubs[q].fine
    BY <1>2, <1>3, <1>4, <1>7, Zenon DEF Spoils
  <2>4. DOMAIN Spoil(b, {p}).pubs = DOMAIN a.pubs
    BY <1>3, <1>4, <1>7 DEF Spoils
  <2>5. ASSUME NEW q \in DOMAIN a.pubs
        PROVE  LET x == Spoil(b, {p}).pubs[q]
               IN  /\ x.by = a.pubs[q].by /\ x.to = a.pubs[q].to /\ x.cid = a.pubs[q].cid /\ x.id = a.pubs[q].id
                   /\ x.total = a.pubs[q].total /\ x.reused = a.pubs[q].reused
                   /\ b.pubs[q].next <= x.next /\ x.next <= x.total + 1
                   /\ (x.fine => x.next = b.pubs[q].next)
    <3>1. /\ b.pubs[q].by = a.pubs[q].by /\ b.pubs[q].to = a.pubs[q].to /\ b.pubs[q].cid = a.pubs[q].cid
          /\ b.pubs[q].id = a.pubs[q].id /\ b.pubs[q].total = a.pubs[q].total
          /\ b.pubs[q].reused = a.pubs[q].reused /\ q \in DOMAIN b.pubs
      BY <1>2, <1>3, <1>4
    <3>2. LET x == Spoil(b, {p}).pubs[q]
          IN  /\ x.by = b.pubs[q].by /\ x.to = b.pubs[q].to /\ x.cid = b.pubs[q].cid /\ x.id = b.pubs[q].id
              /\ x.total = b.pubs[q].total /\ x.reused = b.pubs[q].reused
              /\ b.pubs[q].next <= x.next /\ x.next <= x.total + 1
              /\ (x.fine => x.next = b.pubs[q].next)
      BY <1>7, <3>1, Zenon DEF Spoils
    <3> QED BY <3>1, <3>2
  <2>6. \A q \in DOMAIN a.pubs : a.pubs[q].next <= Spoil(b, {p}).pubs[q].next
    <3> TAKE q \in DOMAIN a.pubs
    <3>1. a.pubs[q].next \in Nat /\ b.pubs[q].next \in Nat /\ Spoil(b, {p}).pubs[q].next \in Nat
      BY <1>1, <2>2
    <3>2. a.pubs[q].next <= b.pubs[q].next /\ b.pubs[q].next <= Spoil(b, {p}).pubs[q].next
      BY <2>1, <2>5, Zenon
    <3> QED BY <3>1, <3>2
  <2>7. \A q \in DOMAIN a.pubs :
            Spoil(b, {p}).pubs[q].fine => a.pubs[q].fine /\ q \notin {p} /\ Spoil(b, {p}).pubs[q].next = a.pubs[q].next
    BY <2>1, <2>3, <2>5, Zenon
  <2> QED BY <2>4, <2>5, <2>6, <2>7, Zenon DEF Spoils
<1>9. SameElse(a, Spoil(b, {p}))
  BY <1>5, <1>7 DEF SameElse
<1> QED BY <1>4, <1>5, <1>6, <1>7, <1>8, <1>9 DEF F

\* A session that ends (EspNowClient::endSession) spoils what was on its way between
\* the two.
LEMMA EndedIs ==
    ASSUME NEW a \in Air, PubsOK(a), NEW s \in Senders
    PROVE  /\ Ended(a, s) \in Air /\ PubsOK(Ended(a, s)) /\ Spoils(a, Ended(a, s), Between(a, s))
           /\ Ended(a, s).here = a.here /\ Ended(a, s).counts = a.counts
           /\ Ended(a, s).session = a.session /\ Ended(a, s).cids = a.cids /\ Ended(a, s).ids = a.ids
           /\ Ended(a, s).uplink = a.uplink /\ Ended(a, s).delivered = a.delivered
           /\ Ended(a, s).slots = a.slots
           /\ Ended(a, s).joined = [a.joined EXCEPT ![s] = 0]
           /\ Ended(a, s).partial = [a.partial EXCEPT ![s] = NoPartial]
<1> DEFINE b == Spoil(a, Between(a, s))
           c == Trouble(b)
<1>1. b \in Air /\ SameElse(a, b) /\ Spoils(a, b, Between(a, s)) /\ PubsOK(b)
  BY SpoilIs
<1>2. c \in Air /\ SameElse(b, c) /\ c.pubs = b.pubs
  BY <1>1, TroubleIs
<1>3. Ended(a, s) = [c EXCEPT !.joined[s] = 0, !.partial[s] = NoPartial]
  BY DEF Ended
<1> HIDE DEF b, c
<1> DEFINE J == [c.joined EXCEPT ![s] = 0]
           P == [c.partial EXCEPT ![s] = NoPartial]
<1>31. J \in [Senders -> Nat] /\ P \in [Senders -> Partials]
  BY <1>2 DEF Air, Partials
<1>32. Ended(a, s) = [c EXCEPT !.joined = J, !.partial = P]
  BY <1>2, <1>3 DEF Air
<1>4. /\ Ended(a, s) \in Air
      /\ Ended(a, s).pubs = c.pubs /\ Ended(a, s).here = c.here /\ Ended(a, s).counts = c.counts
      /\ Ended(a, s).session = c.session /\ Ended(a, s).cids = c.cids /\ Ended(a, s).ids = c.ids
      /\ Ended(a, s).uplink = c.uplink /\ Ended(a, s).delivered = c.delivered
      /\ Ended(a, s).slots = c.slots
      /\ Ended(a, s).joined = [c.joined EXCEPT ![s] = 0]
      /\ Ended(a, s).partial = [c.partial EXCEPT ![s] = NoPartial]
  <2> HIDE DEF J, P
  <2>1. /\ Ended(a, s) \in Air
        /\ Ended(a, s).pubs = c.pubs /\ Ended(a, s).here = c.here /\ Ended(a, s).counts = c.counts
        /\ Ended(a, s).session = c.session /\ Ended(a, s).cids = c.cids /\ Ended(a, s).ids = c.ids
        /\ Ended(a, s).uplink = c.uplink /\ Ended(a, s).delivered = c.delivered
        /\ Ended(a, s).slots = c.slots /\ Ended(a, s).joined = J /\ Ended(a, s).partial = P
    BY <1>2, <1>31, <1>32, Zenon DEF Air
  <2> QED BY <2>1 DEF J, P
<1>5. Spoils(a, Ended(a, s), Between(a, s)) /\ PubsOK(Ended(a, s))
  BY <1>1, <1>2, <1>4 DEF Spoils, PubsOK
<1> QED BY <1>1, <1>2, <1>4, <1>5 DEF SameElse

\* What stays as it is has faded by nothing.
LEMMA FadedSelf ==
    ASSUME NEW x
    PROVE  Faded(x, x)
  BY DEF Faded

\* A publication outside Between is of and to other stations.
LEMMA BetweenIs ==
    ASSUME NEW a, NEW s, NEW p \in DOMAIN a.pubs, p \notin Between(a, s)
    PROVE  a.pubs[p].by # s /\ a.pubs[p].to # s
  BY DEF Between

\* A step that only spoils.
LEMMA SpoilingStep ==
    ASSUME FragmentsInv, air' \in Air, NEW ps, Spoils(air, air', ps), air'.delivered = air.delivered,
           PartsFade(air, air'), UplinkFades(air, air'),
           \A p \in DOMAIN air.pubs :
              p \notin ps /\ air.pubs[p].fine /\ air'.pubs[p].next = air.pubs[p].next => FadesFor(air, air', p)
    PROVE  FragmentsInv'
<1>1. air \in Air
  BY DEF FragmentsInv, Sound
<1>2. Fades(air, air')
  BY <1>1, SpoiledFades
<1>3. \A p \in DOMAIN air.pubs : air'.pubs[p].fine => FadesFor(air, air', p)
  BY DEF Spoils
<1> QED BY <1>2, <1>3, FadingStep

\* A station that loses its session preserves the invariant.
LEMMA LosesStep ==
    ASSUME FragmentsInv, NEW s \in Senders, Loses(s)
    PROVE  FragmentsInv'
<1>1. air \in Air /\ PubsOK(air)
  BY DEF FragmentsInv, Sound
<1>2. air' = Ended(air, s)
  BY DEF Loses
<1>3. /\ air' \in Air /\ Spoils(air, air', Between(air, s))
      /\ air'.session = air.session /\ air'.uplink = air.uplink /\ air'.delivered = air.delivered
      /\ air'.slots = air.slots /\ air'.joined = [air.joined EXCEPT ![s] = 0]
      /\ air'.partial = [air.partial EXCEPT ![s] = NoPartial]
  BY <1>1, <1>2, EndedIs
<1>4. PartsFade(air, air')
  BY <1>1, <1>3, FadedSelf DEF PartsFade, Held, Air
<1>5. UplinkFades(air, air')
  BY <1>3 DEF UplinkFades
<1>6. ASSUME NEW p \in DOMAIN air.pubs, p \notin Between(air, s), air'.pubs[p].next = air.pubs[p].next
      PROVE  FadesFor(air, air', p)
  <2>1. air.pubs[p].by # s /\ air.pubs[p].to # s
    BY <1>6, BetweenIs
  <2>2. air'.joined[air.pubs[p].by] = air.joined[air.pubs[p].by]
    BY <1>1, <1>3, <2>1 DEF Air
  <2>3. air'.partial[air.pubs[p].to] = air.partial[air.pubs[p].to]
    BY <1>1, <1>3, <2>1 DEF Air
  <2> QED BY <1>3, <1>6, <2>2, <2>3 DEF FadesFor
<1> QED BY <1>3, <1>4, <1>5, <1>6, SpoilingStep

\* A station that says goodbye, its frame queued or not, preserves the invariant.
LEMMA LeavesStep ==
    ASSUME FragmentsInv, NEW s \in Senders, Leaves(s)
    PROVE  FragmentsInv'
<1> DEFINE a == Ended(air, s)
<1>1. air \in Air /\ PubsOK(air)
  BY DEF FragmentsInv, Sound
<1>2. air' = [a EXCEPT !.uplink = Append(a.uplink, Goodbye(s))]
  BY DEF Leaves
<1>3. /\ a \in Air /\ Spoils(air, a, Between(air, s))
      /\ a.session = air.session /\ a.uplink = air.uplink /\ a.delivered = air.delivered
      /\ a.slots = air.slots /\ a.joined = [air.joined EXCEPT ![s] = 0]
      /\ a.partial = [air.partial EXCEPT ![s] = NoPartial]
  BY <1>1, EndedIs, Zenon
<1> HIDE DEF a
<1>4. Goodbye(s) \in Frames /\ Goodbye(s).total = 0 /\ Goodbye(s).data = <<0, 0>>
  BY <1>1 DEF Goodbye, Frames, Air
<1>5. Append(a.uplink, Goodbye(s)) \in Seq(Frames)
  <2>1. a.uplink \in Seq(Frames)
    BY <1>3 DEF Air
  <2> QED BY <1>4, <2>1
<1>6. /\ air' \in Air /\ air'.pubs = a.pubs /\ air'.uplink = Append(air.uplink, Goodbye(s))
      /\ air'.session = air.session /\ air'.delivered = air.delivered
      /\ air'.slots = air.slots /\ air'.joined = a.joined /\ air'.partial = a.partial
  BY <1>2, <1>3, <1>5 DEF Air
<1>7. Spoils(air, air', Between(air, s))
  BY <1>3, <1>6 DEF Spoils
<1>8. PartsFade(air, air')
  <2>1. \A i \in Held(air') : i \in Held(air) /\ Faded(air'.slots[i], air.slots[i])
    BY <1>3, <1>6, FadedSelf, Zenon DEF Held
  <2>2. ASSUME NEW t \in Senders, air'.partial[t] # NoPartial
        PROVE  air.partial[t] # NoPartial /\ Faded(air'.partial[t], air.partial[t])
    <3>1. DOMAIN air.partial = Senders
      BY <1>1, Zenon DEF Air
    <3>2. air'.partial[t] = air.partial[t]
      BY <1>3, <1>6, <2>2, <3>1
    <3> QED BY <2>2, <3>2, FadedSelf, Zenon
  <2> QED BY <2>1, <2>2, Zenon DEF PartsFade
<1>9. UplinkFades(air, air')
  BY <1>4, <1>6 DEF UplinkFades
<1>10. ASSUME NEW p \in DOMAIN air.pubs, p \notin Between(air, s), air'.pubs[p].next = air.pubs[p].next
       PROVE  FadesFor(air, air', p)
  <2>1. air.pubs[p].by # s /\ air.pubs[p].to # s
    BY <1>10, BetweenIs
  <2>2. air'.joined[air.pubs[p].by] = air.joined[air.pubs[p].by]
    BY <1>1, <1>3, <1>6, <2>1 DEF Air
  <2>3. air'.partial[air.pubs[p].to] = air.partial[air.pubs[p].to]
    BY <1>1, <1>3, <1>6, <2>1 DEF Air
  <2>4. \A l \in DOMAIN air.uplink : l \in DOMAIN air'.uplink /\ air'.uplink[l] = air.uplink[l]
    <3>1. air.uplink \in Seq(Frames)
      BY <1>1 DEF Air
    <3> QED BY <1>4, <1>6, <3>1, AppendProperties
  <2> QED BY <1>6, <1>10, <2>2, <2>3, <2>4 DEF FadesFor
<1> QED BY <1>6, <1>7, <1>8, <1>9, <1>10, SpoilingStep

\* A station that is given a new connection id preserves the invariant.
LEMMA JoinsStep ==
    ASSUME FragmentsInv, NEW s \in Senders, Joins(s)
    PROVE  FragmentsInv'
<1> DEFINE a == Spoil(air, Between(air, s))
           J == [a.joined EXCEPT ![s] = air.cids + 1]
           S == [a.session EXCEPT ![s] = air.cids + 1]
<1>1. air \in Air /\ PubsOK(air)
  BY DEF FragmentsInv, Sound
<1>2. air' = [a EXCEPT !.cids = a.cids + 1, !.joined = J, !.session = S]
  BY DEF Joins
<1>3. a \in Air /\ SameElse(air, a) /\ Spoils(air, a, Between(air, s))
  BY <1>1, SpoilIs
<1> HIDE DEF a
<1>4. a.cids + 1 \in Nat /\ J \in [Senders -> Nat] /\ S \in [Senders -> Nat]
  <2>1. air.cids \in Nat /\ a.cids \in Nat /\ a.joined \in [Senders -> Nat] /\ a.session \in [Senders -> Nat]
    BY <1>1, <1>3 DEF Air
  <2> QED BY <2>1
<1>5. \A t \in Senders : t # s => J[t] = air.joined[t] /\ S[t] = air.session[t]
  BY <1>1, <1>3 DEF Air, SameElse
<1> HIDE DEF J, S
<1>6. /\ air' \in Air /\ air'.pubs = a.pubs /\ air'.uplink = a.uplink /\ air'.delivered = a.delivered
      /\ air'.slots = a.slots /\ air'.partial = a.partial /\ air'.joined = J /\ air'.session = S
  BY <1>2, <1>3, <1>4 DEF Air
<1>7. /\ air'.uplink = air.uplink /\ air'.delivered = air.delivered /\ air'.slots = air.slots
      /\ air'.partial = air.partial /\ Spoils(air, air', Between(air, s))
  BY <1>3, <1>6 DEF SameElse, Spoils
<1>8. PartsFade(air, air') /\ UplinkFades(air, air')
  BY <1>7, FadedSelf DEF PartsFade, Held, UplinkFades
<1>9. ASSUME NEW p \in DOMAIN air.pubs, p \notin Between(air, s), air'.pubs[p].next = air.pubs[p].next
      PROVE  FadesFor(air, air', p)
  <2>1. air.pubs[p].by # s /\ (air.pubs[p].by # Gateway => air.pubs[p].by \in Senders)
    BY <1>1, <1>9, BetweenIs, PubIs DEF Everyone
  <2> QED BY <1>5, <1>6, <1>7, <1>9, <2>1 DEF FadesFor
<1> QED BY <1>6, <1>7, <1>8, <1>9, SpoilingStep

\* Publications given up by the task they were of.
WithoutTask(a, t) ==
    [p \in DOMAIN a.pubs |-> IF a.pubs[p].by = t THEN Abandoned(a.pubs[p]) ELSE a.pubs[p]]

\* A station whose task is gone sends no more of its messages, and nothing else
\* changes.
LEMMA AbandonedIs ==
    ASSUME NEW a \in Air, PubsOK(a), NEW t, NEW F, F = WithoutTask(a, t)
    PROVE  /\ DOMAIN F = DOMAIN a.pubs /\ F \in Seq(Pubs)
           /\ \A p \in DOMAIN a.pubs :
                 /\ F[p].by = a.pubs[p].by /\ F[p].to = a.pubs[p].to
                 /\ F[p].cid = a.pubs[p].cid /\ F[p].id = a.pubs[p].id
                 /\ F[p].total = a.pubs[p].total /\ F[p].reused = a.pubs[p].reused
                 /\ a.pubs[p].next <= F[p].next /\ F[p].next <= F[p].total + 1
                 /\ (a.pubs[p].by # t => F[p].next = a.pubs[p].next)
                 /\ (F[p].fine => a.pubs[p].fine)
<1>1. \A p \in DOMAIN a.pubs :
          /\ a.pubs[p] \in Pubs /\ a.pubs[p].next \in Nat /\ a.pubs[p].total \in Nat \ {0}
          /\ a.pubs[p].next <= a.pubs[p].total + 1
  BY PubIs DEF PubsOK
<1>2. \A x \in Pubs : /\ Abandoned(x) \in Pubs /\ Abandoned(x).by = x.by /\ Abandoned(x).to = x.to
                      /\ Abandoned(x).cid = x.cid /\ Abandoned(x).id = x.id /\ Abandoned(x).total = x.total
                      /\ Abandoned(x).reused = x.reused /\ Abandoned(x).next = x.total + 1
                      /\ Abandoned(x).fine = x.fine
  BY DEF Abandoned, Pubs
<1>3. DOMAIN F = DOMAIN a.pubs /\ \A p \in DOMAIN a.pubs : F[p] \in Pubs
  BY <1>1, <1>2 DEF WithoutTask
<1>4. F \in Seq(Pubs)
  <2>1. a.pubs \in Seq(Pubs)
    BY DEF Air
  <2>2. DOMAIN a.pubs = 1 .. Len(a.pubs) /\ Len(a.pubs) \in Nat
    BY <2>1
  <2>3. F \in [1 .. Len(a.pubs) -> Pubs]
    BY <1>3, <2>2 DEF WithoutTask
  <2> QED BY <2>2, <2>3, IsASeq
<1>5. ASSUME NEW p \in DOMAIN a.pubs
      PROVE  /\ F[p].by = a.pubs[p].by /\ F[p].to = a.pubs[p].to
             /\ F[p].cid = a.pubs[p].cid /\ F[p].id = a.pubs[p].id
             /\ F[p].total = a.pubs[p].total /\ F[p].reused = a.pubs[p].reused
             /\ F[p].next = (IF a.pubs[p].by = t THEN a.pubs[p].total + 1 ELSE a.pubs[p].next)
             /\ (F[p].fine => a.pubs[p].fine)
  <2>1. CASE a.pubs[p].by = t
    BY <1>1, <1>2, <2>1 DEF WithoutTask
  <2>2. CASE a.pubs[p].by # t
    BY <2>2 DEF WithoutTask
  <2> QED BY <2>1, <2>2
<1>6. \A p \in DOMAIN a.pubs : /\ a.pubs[p].next <= F[p].next /\ F[p].next <= F[p].total + 1
                               /\ (a.pubs[p].by # t => F[p].next = a.pubs[p].next)
  BY <1>1, <1>5
<1> QED BY <1>3, <1>4, <1>5, <1>6

\* A station that starts again with a message half sent preserves the invariant.
LEMMA RebootsStep ==
    ASSUME FragmentsInv, NEW s \in Senders, Reboots(s)
    PROVE  FragmentsInv'
<1> DEFINE a == Ended(air, s)
           F == WithoutTask(a, s)
           D == [a.ids EXCEPT ![s] = 1]
<1>1. air \in Air /\ PubsOK(air)
  BY DEF FragmentsInv, Sound
<1>2. air' = [a EXCEPT !.ids = D, !.pubs = F]
  BY DEF Reboots, WithoutTask
<1>3. /\ a \in Air /\ PubsOK(a) /\ Spoils(air, a, Between(air, s))
      /\ a.session = air.session /\ a.uplink = air.uplink /\ a.delivered = air.delivered
      /\ a.slots = air.slots /\ a.joined = [air.joined EXCEPT ![s] = 0]
      /\ a.partial = [air.partial EXCEPT ![s] = NoPartial]
  BY <1>1, EndedIs
<1> HIDE DEF a
<1>4. D \in [Everyone -> Nat]
  BY <1>3 DEF Air
<1>5. /\ DOMAIN F = DOMAIN a.pubs /\ F \in Seq(Pubs)
      /\ \A p \in DOMAIN a.pubs :
            /\ F[p].by = a.pubs[p].by /\ F[p].to = a.pubs[p].to
            /\ F[p].cid = a.pubs[p].cid /\ F[p].id = a.pubs[p].id
            /\ F[p].total = a.pubs[p].total /\ F[p].reused = a.pubs[p].reused
            /\ a.pubs[p].next <= F[p].next /\ F[p].next <= F[p].total + 1
            /\ (a.pubs[p].by # s => F[p].next = a.pubs[p].next)
            /\ (F[p].fine => a.pubs[p].fine)
  <2> HIDE DEF F
  <2>1. F = WithoutTask(a, s)
    BY DEF F
  <2> QED BY <1>3, <2>1, AbandonedIs
<1> HIDE DEF D, F
<1>6. /\ air' \in Air /\ air'.pubs = F /\ air'.uplink = a.uplink /\ air'.delivered = a.delivered
      /\ air'.slots = a.slots /\ air'.partial = a.partial /\ air'.joined = a.joined /\ air'.session = a.session
  BY <1>2, <1>3, <1>4, <1>5 DEF Air
<1>7. Spoils(air, air', Between(air, s))
  <2>1. DOMAIN air'.pubs = DOMAIN air.pubs
    BY <1>3, <1>5, <1>6 DEF Spoils
  <2>2. ASSUME NEW p \in DOMAIN air.pubs
        PROVE  /\ a.pubs[p].by = air.pubs[p].by /\ a.pubs[p].to = air.pubs[p].to
               /\ a.pubs[p].cid = air.pubs[p].cid /\ a.pubs[p].id = air.pubs[p].id
               /\ a.pubs[p].total = air.pubs[p].total /\ a.pubs[p].reused = air.pubs[p].reused
               /\ air.pubs[p].next <= a.pubs[p].next /\ p \in DOMAIN a.pubs
               /\ (a.pubs[p].fine => air.pubs[p].fine /\ p \notin Between(air, s)
                                     /\ a.pubs[p].next = air.pubs[p].next)
    BY <1>3 DEF Spoils
  <2>3. ASSUME NEW p \in DOMAIN air.pubs
        PROVE  air.pubs[p].next <= F[p].next
    <3>1. p \in DOMAIN a.pubs /\ p \in DOMAIN air'.pubs
      BY <2>1, <2>2
    <3>2. air.pubs[p].next \in Nat /\ a.pubs[p].next \in Nat /\ F[p].next \in Nat
      BY <1>1, <1>3, <1>6, <3>1, PubIs
    <3>3. air.pubs[p].next <= a.pubs[p].next /\ a.pubs[p].next <= F[p].next
      BY <1>5, <2>2
    <3> QED BY <3>2, <3>3
  <2>4. ASSUME NEW p \in DOMAIN air.pubs, F[p].fine
        PROVE  air.pubs[p].fine /\ p \notin Between(air, s) /\ F[p].next = air.pubs[p].next
    <3>1. a.pubs[p].fine /\ p \in DOMAIN a.pubs
      BY <1>5, <2>2, <2>4
    <3>2. air.pubs[p].fine /\ p \notin Between(air, s) /\ a.pubs[p].next = air.pubs[p].next
      BY <2>2, <3>1
    <3>3. a.pubs[p].by # s
      BY <2>2, <3>2, BetweenIs
    <3> QED BY <1>5, <3>1, <3>2, <3>3
  <2>5. \A p \in DOMAIN air.pubs :
            /\ F[p].by = air.pubs[p].by /\ F[p].to = air.pubs[p].to
            /\ F[p].cid = air.pubs[p].cid /\ F[p].id = air.pubs[p].id
            /\ F[p].total = air.pubs[p].total /\ F[p].reused = air.pubs[p].reused
            /\ F[p].next <= F[p].total + 1
    BY <1>5, <2>2
  <2> QED BY <1>6, <2>1, <2>3, <2>4, <2>5 DEF Spoils
<1>8. PartsFade(air, air')
  <2>1. \A i \in Held(air') : i \in Held(air) /\ Faded(air'.slots[i], air.slots[i])
    BY <1>3, <1>6, FadedSelf, Zenon DEF Held
  <2>2. ASSUME NEW t \in Senders, air'.partial[t] # NoPartial
        PROVE  air.partial[t] # NoPartial /\ Faded(air'.partial[t], air.partial[t])
    <3>1. DOMAIN air.partial = Senders
      BY <1>1, Zenon DEF Air
    <3>2. air'.partial[t] = air.partial[t]
      BY <1>3, <1>6, <2>2, <3>1
    <3> QED BY <2>2, <3>2, FadedSelf, Zenon
  <2> QED BY <2>1, <2>2, Zenon DEF PartsFade
<1>9. UplinkFades(air, air')
  BY <1>3, <1>6 DEF UplinkFades
<1>10. ASSUME NEW p \in DOMAIN air.pubs, p \notin Between(air, s), air'.pubs[p].next = air.pubs[p].next
       PROVE  FadesFor(air, air', p)
  <2>1. air.pubs[p].by # s /\ air.pubs[p].to # s
    BY <1>10, BetweenIs
  <2>2. air'.joined[air.pubs[p].by] = air.joined[air.pubs[p].by]
    BY <1>1, <1>3, <1>6, <2>1 DEF Air
  <2>3. air'.partial[air.pubs[p].to] = air.partial[air.pubs[p].to]
    BY <1>1, <1>3, <1>6, <2>1 DEF Air
  <2> QED BY <1>3, <1>6, <1>10, <2>2, <2>3 DEF FadesFor
<1> QED BY <1>3, <1>6, <1>7, <1>8, <1>9, <1>10, SpoilingStep

\* A session that the gateway gives up preserves the invariant.
LEMMA ExpiresStep ==
    ASSUME FragmentsInv, NEW s \in Senders, Expires(s)
    PROVE  FragmentsInv'
<1> DEFINE live == air.session[s] = air.joined[s]
           ps == IF live THEN Between(air, s) ELSE {}
           a == IF live THEN Trouble(Spoil(air, ps)) ELSE air
           S == [a.session EXCEPT ![s] = 0]
<1>1. air \in Air /\ PubsOK(air) /\ \A p \in DOMAIN air.pubs : Carried(air, p)
  BY DEF FragmentsInv, Sound
<1>2. air' = [a EXCEPT !.session = S]
  BY DEF Expires
<1>3. a \in Air /\ SameElse(air, a) /\ Spoils(air, a, ps)
  <2>1. CASE live
    <3>1. /\ Spoil(air, ps) \in Air /\ SameElse(air, Spoil(air, ps)) /\ Spoils(air, Spoil(air, ps), ps)
      BY <1>1, SpoilIs
    <3>2. /\ Trouble(Spoil(air, ps)) \in Air /\ SameElse(Spoil(air, ps), Trouble(Spoil(air, ps)))
          /\ Trouble(Spoil(air, ps)).pubs = Spoil(air, ps).pubs
      BY <3>1, TroubleIs
    <3>3. a = Trouble(Spoil(air, ps))
      BY <2>1
    <3> HIDE DEF a, ps
    <3> QED BY <3>1, <3>2, <3>3 DEF SameElse, Spoils
  <2>2. CASE ~live
    <3>1. a = air /\ ps = {}
      BY <2>2
    <3>2. \A p \in DOMAIN air.pubs : air.pubs[p].next \in Nat /\ air.pubs[p].next <= air.pubs[p].total + 1
      BY <1>1, PubIs DEF PubsOK
    <3>3. SameElse(air, air) /\ Spoils(air, air, {})
      BY <3>2 DEF SameElse, Spoils
    <3> QED BY <1>1, <3>1, <3>3
  <2> QED BY <2>1, <2>2
<1> HIDE DEF a
<1>4. S \in [Senders -> Nat] /\ \A t \in Senders : t # s => S[t] = air.session[t]
  BY <1>1, <1>3 DEF Air, SameElse
<1> HIDE DEF S
<1>5. /\ air' \in Air /\ air'.pubs = a.pubs /\ air'.uplink = a.uplink /\ air'.delivered = a.delivered
      /\ air'.slots = a.slots /\ air'.partial = a.partial /\ air'.joined = a.joined /\ air'.session = S
  BY <1>2, <1>3, <1>4, Zenon DEF Air
<1>6. /\ air'.uplink = air.uplink /\ air'.delivered = air.delivered /\ air'.slots = air.slots
      /\ air'.partial = air.partial /\ air'.joined = air.joined /\ Spoils(air, air', ps)
  BY <1>3, <1>5 DEF SameElse, Spoils
<1>7. PartsFade(air, air') /\ UplinkFades(air, air')
  BY <1>6, FadedSelf DEF PartsFade, Held, UplinkFades
<1>8. ASSUME NEW p \in DOMAIN air.pubs, p \notin ps, air.pubs[p].fine, air'.pubs[p].next = air.pubs[p].next
      PROVE  FadesFor(air, air', p)
  <2>1. air.pubs[p].by # Gateway => air.pubs[p].by \in Senders
    BY <1>1, PubIs DEF Everyone
  <2>2. CASE live
    <3>1. air.pubs[p].by # s
      BY <1>8, <2>2, BetweenIs
    <3> QED BY <1>4, <1>5, <1>6, <1>8, <2>1, <3>1 DEF FadesFor
  <2>3. CASE ~live
    <3>1. air.pubs[p].by # Gateway => air.joined[air.pubs[p].by] = air.pubs[p].cid
      BY <1>1, <1>8 DEF Carried, CarriedUp
    <3>2. air.pubs[p].by # Gateway /\ air.session[air.pubs[p].by] = air.pubs[p].cid => air.pubs[p].by # s
      BY <2>3, <3>1
    <3> QED BY <1>4, <1>5, <1>6, <1>8, <2>1, <3>2 DEF FadesFor
  <2> QED BY <2>2, <2>3
<1> HIDE DEF ps
<1> QED BY <1>5, <1>6, <1>7, <1>8, SpoilingStep

\* A step that spoils everything.
LEMMA SpoiledAll ==
    ASSUME FragmentsInv, air' \in Air, Spoils(air, air', DOMAIN air.pubs), air'.delivered = air.delivered,
           PartsFade(air, air'), UplinkFades(air, air')
    PROVE  FragmentsInv'
<1> QED BY SpoilingStep

\* Spoiling under a trouble that counts.
LEMMA SpoilTroubleIs ==
    ASSUME NEW a \in Air, PubsOK(a), NEW ps
    PROVE  LET b == Trouble(Spoil(a, ps))
           IN  b \in Air /\ SameElse(a, b) /\ Spoils(a, b, ps) /\ PubsOK(b)
<1> DEFINE c == Spoil(a, ps)
           b == Trouble(c)
<1>1. c \in Air /\ SameElse(a, c) /\ Spoils(a, c, ps) /\ PubsOK(c)
  BY SpoilIs
<1>2. b \in Air /\ SameElse(c, b) /\ b.pubs = c.pubs
  BY <1>1, TroubleIs
<1> HIDE DEF b, c
<1>3. b \in Air /\ SameElse(a, b) /\ Spoils(a, b, ps) /\ PubsOK(b)
  BY <1>1, <1>2 DEF SameElse, Spoils, PubsOK
<1> QED BY <1>3 DEF b, c

\* A gateway that stops (its slots of live stations emptied) preserves the invariant.
LEMMA GatewayStopsStep ==
    ASSUME FragmentsInv, GatewayStops
    PROVE  FragmentsInv'
<1> DEFINE live == {s \in Senders : air.session[s] # 0}
           a == Trouble(Spoil(air, DOMAIN air.pubs))
           L == [i \in DOMAIN air.slots |-> IF i \in Held(air) /\ air.slots[i].from \in live
                                            THEN NoPartial ELSE air.slots[i]]
           S == [s \in Senders |-> 0]
           U == <<>>
<1>1. air \in Air /\ PubsOK(air)
  BY DEF FragmentsInv, Sound
<1>2. air' = [a EXCEPT !.uplink = U, !.session = S, !.slots = L]
  BY DEF GatewayStops
<1>3. a \in Air /\ SameElse(air, a) /\ Spoils(air, a, DOMAIN air.pubs)
  BY <1>1, SpoilTroubleIs
<1>20. U \in Seq(Frames) /\ U = <<>>
  OBVIOUS
<1>4. /\ S \in [Senders -> Nat] /\ L \in [1 .. PartialSlots -> Partials]
      /\ \A i \in 1 .. PartialSlots : L[i] = NoPartial \/ L[i] = air.slots[i]
  BY <1>1, ZenonT(60) DEF Air, Partials
<1> HIDE DEF a, L, S, U
<1>5. /\ air' \in Air /\ air'.pubs = a.pubs /\ air'.uplink = U /\ air'.delivered = a.delivered
      /\ air'.slots = L /\ air'.partial = a.partial
  BY <1>2, <1>3, <1>4, <1>20, Zenon DEF Air
<1>6. Spoils(air, air', DOMAIN air.pubs) /\ air'.delivered = air.delivered
  BY <1>3, <1>5 DEF SameElse, Spoils
<1>7. \A i \in Held(air') : i \in Held(air) /\ air'.slots[i] = air.slots[i]
  BY <1>1, <1>4, <1>5, HeldIs
<1>8. PartsFade(air, air') /\ UplinkFades(air, air')
  BY <1>3, <1>5, <1>7, <1>20, FadedSelf DEF PartsFade, UplinkFades, SameElse
<1> QED BY <1>5, <1>6, <1>8, SpoiledAll

\* A gateway that starts again, its queue and slots empty, preserves the invariant.
LEMMA GatewayRebootsStep ==
    ASSUME FragmentsInv, GatewayReboots
    PROVE  FragmentsInv'
<1> DEFINE a == Trouble(Spoil(air, DOMAIN air.pubs))
           F == WithoutTask(a, Gateway)
           L == [i \in DOMAIN a.slots |-> NoPartial]
           S == [s \in Senders |-> 0]
           U == <<>>
           D == [a.ids EXCEPT ![Gateway] = 1]
<1>1. air \in Air /\ PubsOK(air)
  BY DEF FragmentsInv, Sound
<1>2. air' = [a EXCEPT !.uplink = U, !.session = S, !.cids = 0, !.ids = D, !.slots = L, !.pubs = F]
  BY DEF GatewayReboots, WithoutTask
<1>3. a \in Air /\ SameElse(air, a) /\ Spoils(air, a, DOMAIN air.pubs) /\ PubsOK(a)
  BY <1>1, SpoilTroubleIs
<1> HIDE DEF a
<1>20. U \in Seq(Frames) /\ U = <<>>
  OBVIOUS
<1>4. /\ S \in [Senders -> Nat] /\ L \in [1 .. PartialSlots -> Partials] /\ D \in [Everyone -> Nat]
      /\ \A i \in 1 .. PartialSlots : L[i] = NoPartial
  BY <1>3 DEF Air, Partials
<1> HIDE DEF F, L, S, D, U
<1>5. /\ DOMAIN F = DOMAIN a.pubs /\ F \in Seq(Pubs)
      /\ \A p \in DOMAIN a.pubs :
            /\ F[p].by = a.pubs[p].by /\ F[p].to = a.pubs[p].to
            /\ F[p].cid = a.pubs[p].cid /\ F[p].id = a.pubs[p].id
            /\ F[p].total = a.pubs[p].total /\ F[p].reused = a.pubs[p].reused
            /\ a.pubs[p].next <= F[p].next /\ F[p].next <= F[p].total + 1
            /\ (a.pubs[p].by # Gateway => F[p].next = a.pubs[p].next)
            /\ (F[p].fine => a.pubs[p].fine)
  <2>1. F = WithoutTask(a, Gateway)
    BY DEF F
  <2> QED BY <1>3, <2>1, AbandonedIs
<1>6. /\ air' \in Air /\ air'.pubs = F /\ air'.uplink = U /\ air'.delivered = a.delivered
      /\ air'.slots = L /\ air'.partial = a.partial
  BY <1>2, <1>3, <1>4, <1>5, <1>20, Zenon DEF Air
<1>7. Spoils(air, air', DOMAIN air.pubs)
  <2>1. ASSUME NEW p \in DOMAIN air.pubs
        PROVE  air.pubs[p].next <= F[p].next
    <3>1. p \in DOMAIN a.pubs /\ p \in DOMAIN air'.pubs
      BY <1>3, <1>5, <1>6 DEF Spoils
    <3>2. air.pubs[p].next \in Nat /\ a.pubs[p].next \in Nat /\ F[p].next \in Nat
      BY <1>1, <1>3, <1>6, <3>1, PubIs
    <3>3. air.pubs[p].next <= a.pubs[p].next /\ a.pubs[p].next <= F[p].next
      BY <1>3, <1>5, <3>1 DEF Spoils
    <3> QED BY <3>2, <3>3
  <2>2. \A p \in DOMAIN air.pubs : ~F[p].fine
    BY <1>3, <1>5 DEF Spoils
  <2>3. \A p \in DOMAIN air.pubs :
            /\ F[p].by = air.pubs[p].by /\ F[p].to = air.pubs[p].to
            /\ F[p].cid = air.pubs[p].cid /\ F[p].id = air.pubs[p].id
            /\ F[p].total = air.pubs[p].total /\ F[p].reused = air.pubs[p].reused
            /\ F[p].next <= F[p].total + 1
    BY <1>3, <1>5 DEF Spoils
  <2>4. DOMAIN F = DOMAIN air.pubs
    BY <1>3, <1>5 DEF Spoils
  <2> QED BY <1>6, <2>1, <2>2, <2>3, <2>4 DEF Spoils
<1>8. Held(air') = {}
  BY <1>4, <1>6, HeldIs
<1>9. PartsFade(air, air') /\ UplinkFades(air, air')
  BY <1>3, <1>6, <1>8, <1>20, FadedSelf DEF PartsFade, UplinkFades, SameElse
<1>10. air'.delivered = air.delivered
  BY <1>3, <1>6 DEF SameElse
<1> QED BY <1>6, <1>7, <1>9, <1>10, SpoiledAll

\* Spoiling depends only on the publications.
LEMMA SpoilsFrom ==
    ASSUME NEW a, NEW b, NEW c, NEW ps, b.pubs = a.pubs, Spoils(b, c, ps)
    PROVE  Spoils(a, c, ps)
BY DEF Spoils

\* A slot that has waited too long preserves the invariant.
LEMMA OlderSlotStep ==
    ASSUME FragmentsInv, NEW i \in Held(air),
           air' = Spoil([Trouble(air) EXCEPT !.slots[i].old = TRUE], Within(air.slots[i]))
    PROVE  FragmentsInv'
<1> DEFINE a == Trouble(air)
           x == [air.slots[i] EXCEPT !.old = TRUE]
           L == [a.slots EXCEPT ![i] = x]
           b == [a EXCEPT !.slots = L]
           ps == Within(air.slots[i])
<1>1. air \in Air /\ PubsOK(air)
  BY DEF FragmentsInv, Sound
<1>2. a \in Air /\ SameElse(air, a) /\ a.pubs = air.pubs
  BY <1>1, TroubleIs
<1>3. i \in 1 .. PartialSlots /\ air.slots[i] \in Part_
  BY <1>1, HeldIs
<1>4. x \in Part_ /\ Faded(x, air.slots[i])
  BY <1>3 DEF Part_, Faded
<1>5. air' = Spoil(b, ps)
  <2>1. [Trouble(air) EXCEPT !.slots[i].old = TRUE] = b
    BY <1>2 DEF SameElse
  <2> QED BY <2>1
<1> HIDE DEF a, x, ps
<1>6. L \in [1 .. PartialSlots -> Partials] /\ \A j \in 1 .. PartialSlots : L[j] = (IF j = i THEN x ELSE air.slots[j])
  BY <1>2, <1>3, <1>4 DEF Air, SameElse, Partials, Part_
<1> HIDE DEF L
<1>7. /\ b \in Air /\ b.pubs = air.pubs /\ b.slots = L /\ b.uplink = air.uplink /\ b.delivered = air.delivered
      /\ b.partial = air.partial /\ b.joined = air.joined /\ b.session = air.session
  BY <1>2, <1>6 DEF Air, SameElse
<1>8. PubsOK(b)
  BY <1>1, <1>7 DEF PubsOK
<1> HIDE DEF b
<1>9. air' \in Air /\ SameElse(b, air') /\ Spoils(b, air', ps)
  BY <1>5, <1>7, <1>8, SpoilIs
<1>10. /\ Spoils(air, air', ps) /\ air'.delivered = air.delivered /\ air'.slots = L /\ air'.uplink = air.uplink
       /\ air'.partial = air.partial /\ air'.joined = air.joined /\ air'.session = air.session
  <2>1. Spoils(air, air', ps)
    BY <1>7, <1>9, SpoilsFrom
  <2> QED BY <1>7, <1>9, <2>1 DEF SameElse
<1>11. \A j \in Held(air') : j \in Held(air) /\ Faded(air'.slots[j], air.slots[j])
  <2>1. \A j \in Held(air') : j \in 1 .. PartialSlots /\ L[j] # NoPartial
    BY <1>9, <1>10, HeldIs
  <2>2. ASSUME NEW j \in 1 .. PartialSlots, L[j] # NoPartial PROVE j \in Held(air) /\ Faded(L[j], air.slots[j])
    <3>1. CASE j = i
      BY <1>4, <1>6, <2>2, <3>1
    <3>2. CASE j # i
      <4>1. L[j] = air.slots[j]
        BY <1>6, <3>2, Zenon
      <4> QED BY <1>1, <2>2, <4>1, FadedSelf, HeldIs
    <3> QED BY <3>1, <3>2
  <2> QED BY <1>10, <2>1, <2>2
<1>12. PartsFade(air, air') /\ UplinkFades(air, air')
  BY <1>10, <1>11, FadedSelf, Zenon DEF PartsFade, UplinkFades
<1>13. ASSUME NEW p \in DOMAIN air.pubs, p \notin ps, air'.pubs[p].next = air.pubs[p].next
       PROVE  FadesFor(air, air', p)
  <2>1. \A j \in Held(air) : p \in Within(air.slots[j]) => air'.slots[j] = air.slots[j]
    <3> TAKE j \in Held(air)
    <3>1. j \in 1 .. PartialSlots
      BY <1>1, HeldIs
    <3> QED BY <1>6, <1>10, <1>13, <3>1 DEF ps
  <2> QED BY <1>10, <1>13, <2>1, Zenon DEF FadesFor
<1> QED BY <1>9, <1>10, <1>12, <1>13, SpoilingStep, Zenon

\* A station's partial message that has waited too long preserves the invariant.
LEMMA OlderPartialStep ==
    ASSUME FragmentsInv, NEW s \in Senders, air.partial[s] # NoPartial,
           air' = Spoil([Trouble(air) EXCEPT !.partial[s].old = TRUE], Within(air.partial[s]))
    PROVE  FragmentsInv'
<1> DEFINE a == Trouble(air)
           x == [air.partial[s] EXCEPT !.old = TRUE]
           L == [a.partial EXCEPT ![s] = x]
           b == [a EXCEPT !.partial = L]
           ps == Within(air.partial[s])
<1>1. air \in Air /\ PubsOK(air)
  BY DEF FragmentsInv, Sound
<1>2. a \in Air /\ SameElse(air, a) /\ a.pubs = air.pubs
  BY <1>1, TroubleIs
<1>3. air.partial[s] \in Part_
  BY <1>1, HeldIs
<1>4. x \in Part_ /\ Faded(x, air.partial[s])
  BY <1>3 DEF Part_, Faded
<1>5. air' = Spoil(b, ps)
  <2>1. [Trouble(air) EXCEPT !.partial[s].old = TRUE] = b
    BY <1>2 DEF SameElse
  <2> QED BY <2>1
<1> HIDE DEF a, x, ps
<1>6. L \in [Senders -> Partials] /\ \A t \in Senders : L[t] = (IF t = s THEN x ELSE air.partial[t])
  BY <1>2, <1>4 DEF Air, SameElse, Partials, Part_
<1> HIDE DEF L
<1>7. /\ b \in Air /\ b.pubs = air.pubs /\ b.slots = air.slots /\ b.uplink = air.uplink /\ b.delivered = air.delivered
      /\ b.partial = L /\ b.joined = air.joined /\ b.session = air.session
  BY <1>2, <1>6 DEF Air, SameElse
<1>8. PubsOK(b)
  BY <1>1, <1>7 DEF PubsOK
<1> HIDE DEF b
<1>9. air' \in Air /\ SameElse(b, air') /\ Spoils(b, air', ps)
  BY <1>5, <1>7, <1>8, SpoilIs
<1>10. /\ Spoils(air, air', ps) /\ air'.delivered = air.delivered /\ air'.slots = air.slots
       /\ air'.uplink = air.uplink
       /\ air'.partial = L /\ air'.joined = air.joined /\ air'.session = air.session
  <2>1. Spoils(air, air', ps)
    BY <1>7, <1>9, SpoilsFrom
  <2> QED BY <1>7, <1>9, <2>1 DEF SameElse
<1>11. \A t \in Senders : L[t] # NoPartial => air.partial[t] # NoPartial /\ Faded(L[t], air.partial[t])
  BY <1>4, <1>6, FadedSelf, Zenon
<1>12. PartsFade(air, air') /\ UplinkFades(air, air')
  BY <1>10, <1>11, FadedSelf, Zenon DEF PartsFade, UplinkFades, Held
<1>13. ASSUME NEW p \in DOMAIN air.pubs, p \notin ps, air'.pubs[p].next = air.pubs[p].next
       PROVE  FadesFor(air, air', p)
  <2>1. air.pubs[p].by = Gateway => air.pubs[p].to \in Senders
    BY <1>1 DEF PubsOK
  <2>2. \A t \in Senders : p \in Within(air.partial[t]) => L[t] = air.partial[t]
    BY <1>6, <1>13 DEF ps
  <2> QED BY <1>10, <1>13, <2>1, <2>2, Zenon DEF FadesFor
<1> QED BY <1>9, <1>10, <1>12, <1>13, SpoilingStep, Zenon

\* Time that passes for a partial message preserves the invariant.
LEMMA AgesStep ==
    ASSUME FragmentsInv, Ages
    PROVE  FragmentsInv'
BY OlderSlotStep, OlderPartialStep DEF Ages

\* A frame lost on its way spoils its publication and nothing else.
LEMMA LostStep ==
    ASSUME FragmentsInv, NEW p \in DOMAIN air.pubs, air' \in Air, Spoils(air, air', {p}), SameElse(air, air')
    PROVE  FragmentsInv'
<1>1. PartsFade(air, air') /\ UplinkFades(air, air') /\ air'.delivered = air.delivered
  BY FadedSelf DEF PartsFade, UplinkFades, Held, SameElse
<1>2. \A q \in DOMAIN air.pubs : air'.pubs[q].next = air.pubs[q].next => FadesFor(air, air', q)
  BY DEF SameElse, FadesFor
<1> QED BY <1>1, <1>2, SpoilingStep

\* A fragment handed to the radio: it arrives and is taken, or its publication is
\* spoiled.
LEMMA AiredIs ==
    ASSUME FragmentsInv, NEW p \in DOMAIN air.pubs, InProgress(air, p), NEW arrives \in BOOLEAN, NEW taken \in BOOLEAN
    PROVE  /\ Aired(p, arrives, taken) \in Air /\ SameElse(air, Aired(p, arrives, taken))
           /\ PubsOK(Aired(p, arrives, taken))
           /\ ~(arrives /\ taken) => Spoils(air, Aired(p, arrives, taken), {p})
           /\ arrives /\ taken => /\ Aired(p, arrives, taken).left = air.left
                                  /\ Aired(p, arrives, taken).pubs =
                                       [air.pubs EXCEPT ![p] = [air.pubs[p] EXCEPT !.next = air.pubs[p].next + 1]]
           /\ Spoils(air, Spoil(Aired(p, arrives, taken), {p}), {p})
           /\ Spoil(Aired(p, arrives, taken), {p}) \in Air
           /\ SameElse(air, Spoil(Aired(p, arrives, taken), {p}))
<1> DEFINE n == IF taken THEN air.pubs[p].next + 1 ELSE air.pubs[p].total + 1
           a == [air EXCEPT !.pubs[p].next = n]
           b == Spoil(a, {p})
           c == Trouble(b)
<1>1. air \in Air /\ PubsOK(air)
  BY DEF FragmentsInv, Sound
<1>2. n \in Nat /\ air.pubs[p].next <= n /\ n <= air.pubs[p].total + 1
  BY <1>1, PubIs DEF InProgress
<1>3. Aired(p, arrives, taken) = IF arrives /\ taken THEN a ELSE c
  BY DEF Aired
<1>9. a = Advance(air, p, n) /\ b = Spoil(a, {p})
  BY DEF Advance
<1> HIDE DEF n, a, b
<1>4. /\ a \in Air /\ SameElse(air, a) /\ a.left = air.left /\ PubsOK(a)
      /\ a.pubs = [air.pubs EXCEPT ![p] = [air.pubs[p] EXCEPT !.next = n]]
      /\ b \in Air /\ PubsOK(b) /\ Spoils(air, b, {p}) /\ SameElse(air, b)
  BY <1>1, <1>2, <1>9, AdvanceIs
<1>5. c \in Air /\ SameElse(b, c) /\ c.pubs = b.pubs
  BY <1>4, TroubleIs
<1> HIDE DEF c
<1>6. SameElse(air, c) /\ Spoils(air, c, {p}) /\ PubsOK(c)
  BY <1>4, <1>5 DEF SameElse, Spoils, PubsOK
<1>7. CASE arrives /\ taken
  BY <1>3, <1>4, <1>7 DEF n, b
<1>8. CASE ~(arrives /\ taken)
  <2>1. Aired(p, arrives, taken) = c
    BY <1>3, <1>8
  <2>2. /\ Spoil(c, {p}) \in Air /\ SameElse(c, Spoil(c, {p})) /\ Spoils(c, Spoil(c, {p}), {p})
    BY <1>5, <1>6, SpoilIs
  <2>3. Spoils(air, Spoil(c, {p}), {p} \cup {p})
    BY <1>1, <1>5, <1>6, <2>2, SpoilsTwice
  <2>4. Spoils(air, Spoil(c, {p}), {p})
    BY <2>3 DEF Spoils
  <2>5. SameElse(air, Spoil(c, {p}))
    BY <1>6, <2>2 DEF SameElse
  <2> QED BY <1>5, <1>6, <1>8, <2>1, <2>2, <2>4, <2>5
<1> QED BY <1>7, <1>8

\* A fragment that the gateway does not get preserves the invariant.
LEMMA LostUpStep ==
    ASSUME FragmentsInv, NEW p \in DOMAIN air.pubs, NEW taken \in BOOLEAN, SendFragment(p, FALSE, taken)
    PROVE  FragmentsInv'
<1> DEFINE a == Aired(p, FALSE, taken)
<1>1. InProgress(air, p)
  BY DEF SendFragment
<1>2. a \in Air /\ SameElse(air, a) /\ Spoils(air, a, {p})
  BY <1>1, AiredIs
<1>3. air' = [a EXCEPT !.uplink = a.uplink]
  BY DEF SendFragment
<1> HIDE DEF a
<1>4. air' = a
  BY <1>2, <1>3 DEF Air
<1> QED BY <1>2, <1>4, LostStep

\* The client has no such session.
LEMMA UndeliveredStep ==
    ASSUME FragmentsInv, NEW p \in DOMAIN air.pubs, InProgress(air, p), NEW arrives \in BOOLEAN, NEW taken \in BOOLEAN,
           air' = Spoil(Aired(p, arrives, taken), {p})
    PROVE  FragmentsInv'
BY AiredIs, LostStep

-------------------------------------------------------------------------------
(* The gateway's queue.                                                         *)

Popped(a) == [a EXCEPT !.uplink = Tail(a.uplink)]

\* The queue without its head.
LEMMA PoppedIs ==
    ASSUME NEW a \in Air, a.uplink # <<>>
    PROVE  /\ Popped(a) \in Air /\ Popped(a).uplink = Tail(a.uplink) /\ 1 \in DOMAIN a.uplink
           /\ Popped(a).pubs = a.pubs /\ Popped(a).session = a.session /\ Popped(a).joined = a.joined
           /\ Popped(a).delivered = a.delivered /\ Popped(a).slots = a.slots /\ Popped(a).partial = a.partial
           /\ Head(a.uplink) = a.uplink[1] /\ Head(a.uplink) \in Frames
           /\ \A l \in DOMAIN a.uplink : l # 1 =>
                 \E m \in DOMAIN Popped(a).uplink : l = m + 1 /\ Popped(a).uplink[m] = a.uplink[l]
           /\ \A m \in DOMAIN Popped(a).uplink :
                 m \in Nat \ {0} /\ m + 1 \in DOMAIN a.uplink /\ Popped(a).uplink[m] = a.uplink[m + 1]
<1> DEFINE U == Tail(a.uplink)
<1>1. a.uplink \in Seq(Frames)
  BY DEF Air
<1>2. /\ Len(a.uplink) \in Nat /\ Len(U) = Len(a.uplink) - 1
      /\ DOMAIN a.uplink = 1 .. Len(a.uplink) /\ DOMAIN U = 1 .. Len(U)
      /\ \A k \in 1 .. Len(U) : U[k] = a.uplink[k + 1]
      /\ U \in Seq(Frames) /\ Head(a.uplink) = a.uplink[1] /\ Head(a.uplink) \in Frames /\ Len(a.uplink) > 0
  BY <1>1, HeadTailProperties
<1> HIDE DEF U
<1>3. Popped(a) = [a EXCEPT !.uplink = U]
  BY DEF Popped, U
<1>4. /\ Popped(a) \in Air /\ Popped(a).uplink = U
      /\ Popped(a).pubs = a.pubs /\ Popped(a).session = a.session /\ Popped(a).joined = a.joined
      /\ Popped(a).delivered = a.delivered /\ Popped(a).slots = a.slots /\ Popped(a).partial = a.partial
  BY <1>2, <1>3, Zenon DEF Air
<1>5. ASSUME NEW l \in DOMAIN a.uplink, l # 1
      PROVE  \E m \in DOMAIN U : l = m + 1 /\ U[m] = a.uplink[l]
  <2>1. l - 1 \in DOMAIN U /\ l = (l - 1) + 1
    BY <1>2, <1>5
  <2>2. U[l - 1] = a.uplink[l]
    BY <1>2, <2>1
  <2> QED BY <2>1, <2>2
<1>6. \A m \in DOMAIN U : m \in Nat \ {0} /\ m + 1 \in DOMAIN a.uplink /\ U[m] = a.uplink[m + 1]
  BY <1>2
<1>7. 1 \in DOMAIN a.uplink
  BY <1>2
<1> QED BY <1>2, <1>4, <1>5, <1>6, <1>7 DEF U

\* Spoiling nothing changes nothing.
LEMMA SpoilsNone ==
    ASSUME NEW a \in Air, PubsOK(a)
    PROVE  Spoils(a, a, {})
<1>1. \A p \in DOMAIN a.pubs : a.pubs[p].next \in Nat /\ a.pubs[p].next <= a.pubs[p].total + 1
  BY PubIs DEF PubsOK
<1> QED BY <1>1 DEF Spoils

\* Without its first frame, all is still sound.
LEMMA PoppedSound ==
    ASSUME NEW a, Sound(a), a.uplink # <<>>
    PROVE  Sound(Popped(a))
<1> DEFINE b == Popped(a)
<1>1. a \in Air /\ PubsOK(a)
  BY DEF Sound
<1>2. /\ b \in Air /\ b.uplink = Tail(a.uplink) /\ b.pubs = a.pubs
      /\ b.delivered = a.delivered /\ b.slots = a.slots /\ b.partial = a.partial
  BY <1>1, PoppedIs
<1> HIDE DEF b
<1>3. Spoils(a, b, {})
  <2>1. Spoils(a, a, {})
    BY <1>1, SpoilsNone
  <2> QED BY <1>2, <2>1 DEF Spoils
<1>4. PartsFade(a, b) /\ UplinkFades(a, b)
  BY <1>2, FadedSelf DEF PartsFade, UplinkFades, Held
<1>5. Fades(a, b)
  BY <1>1, <1>2, <1>3, <1>4, SpoiledFades
<1>6. Sound(b)
  BY <1>2, <1>5, FadeSound
<1> QED BY <1>6 DEF b

\* A frame of a session the gateway no longer has.
LEMMA DroppedStep ==
    ASSUME FragmentsInv, air.uplink # <<>>,
           air' = Spoil(Popped(air), {Head(air.uplink).data[1]} \cap DOMAIN Popped(air).pubs)
    PROVE  FragmentsInv'
<1> DEFINE a == Popped(air)
           f == Head(air.uplink)
           ps == {f.data[1]} \cap DOMAIN a.pubs
<1>1. air \in Air /\ PubsOK(air)
  BY DEF FragmentsInv, Sound
<1>2. /\ a \in Air /\ a.uplink = Tail(air.uplink) /\ 1 \in DOMAIN air.uplink
      /\ a.pubs = air.pubs /\ a.session = air.session /\ a.joined = air.joined
      /\ a.delivered = air.delivered /\ a.slots = air.slots /\ a.partial = air.partial
      /\ f = air.uplink[1]
      /\ \A l \in DOMAIN air.uplink : l # 1 => \E m \in DOMAIN a.uplink : l = m + 1 /\ a.uplink[m] = air.uplink[l]
  BY <1>1, PoppedIs
<1> HIDE DEF a, f
<1>3. PubsOK(a)
  BY <1>1, <1>2 DEF PubsOK
<1>4. air' \in Air /\ SameElse(a, air') /\ Spoils(a, air', ps)
  <2>1. air' = Spoil(a, ps)
    BY DEF a, f
  <2> HIDE DEF ps
  <2> QED BY <1>2, <1>3, <2>1, SpoilIs
<1>5. Spoils(air, air', ps)
  BY <1>2, <1>4, SpoilsFrom
<1>6. /\ air'.uplink = Tail(air.uplink) /\ air'.session = air.session /\ air'.joined = air.joined
      /\ air'.delivered = air.delivered /\ air'.slots = air.slots /\ air'.partial = air.partial
      /\ air'.uplink = a.uplink
  BY <1>2, <1>4 DEF SameElse
<1>7. PartsFade(air, air') /\ UplinkFades(air, air')
  BY <1>6, FadedSelf, Zenon DEF PartsFade, UplinkFades, Held
<1>8. ASSUME NEW p \in DOMAIN air.pubs, p \notin ps, air'.pubs[p].next = air.pubs[p].next
      PROVE  FadesFor(air, air', p)
  <2>1. f.data[1] # p
    BY <1>2, <1>8
  <2>2. \A l \in DOMAIN air.uplink : air.uplink[l].data[1] = p =>
            \E m \in DOMAIN air'.uplink : air'.uplink[m].data = air.uplink[l].data
    <3> SUFFICES ASSUME NEW l \in DOMAIN air.uplink, air.uplink[l].data[1] = p
                 PROVE  \E m \in DOMAIN air'.uplink : air'.uplink[m].data = air.uplink[l].data
      OBVIOUS
    <3>1. l # 1
      BY <1>2, <2>1
    <3>2. PICK m \in DOMAIN a.uplink : l = m + 1 /\ a.uplink[m] = air.uplink[l]
      BY <1>2, <3>1, Zenon
    <3>3. m \in DOMAIN air'.uplink /\ air'.uplink[m] = air.uplink[l]
      BY <1>6, <3>2, Zenon
    <3> QED BY <3>3, Zenon
  <2> QED BY <1>6, <1>8, <2>2, Zenon DEF FadesFor
<1> HIDE DEF ps
<1> QED BY <1>4, <1>5, <1>6, <1>7, <1>8, SpoilingStep, Zenon

\* A DISCONNECT.
Disconnected(a, s) == DropPartials([Spoil(a, Between(a, s)) EXCEPT !.session[s] = 0], s)

\* A goodbye that the gateway handles after what was queued before it preserves the
\* invariant.
LEMMA DisconnectStep ==
    ASSUME FragmentsInv, air.uplink # <<>>, NEW f, f = Head(air.uplink), f.total = 0,
           air' = Disconnected(Popped(air), f.from)
    PROVE  FragmentsInv'
<1> DEFINE a == Popped(air)
           ps == Between(a, f.from)
           b == Spoil(a, ps)
           S == [b.session EXCEPT ![f.from] = 0]
           c == [b EXCEPT !.session = S]
           L == [i \in DOMAIN c.slots |-> IF i \in Held(c) /\ c.slots[i].from = f.from THEN NoPartial ELSE c.slots[i]]
<1>1. air \in Air /\ PubsOK(air) /\ Sound(air)
  BY DEF FragmentsInv, Sound
<1>2. /\ a \in Air /\ a.uplink = Tail(air.uplink) /\ 1 \in DOMAIN air.uplink
      /\ a.pubs = air.pubs /\ a.session = air.session /\ a.joined = air.joined
      /\ a.delivered = air.delivered /\ a.slots = air.slots /\ a.partial = air.partial
      /\ f = air.uplink[1] /\ f \in Frames
      /\ \A l \in DOMAIN air.uplink : l # 1 => \E m \in DOMAIN a.uplink : l = m + 1 /\ a.uplink[m] = air.uplink[l]
  BY <1>1, PoppedIs
<1>3. f.from \in Senders
  BY <1>2 DEF Frames
<1>4. f.data[1] = 0
  <2>1. FrameOK(air, f)
    BY <1>1, <1>2 DEF Sound, FramesOK
  <2>2. \A p \in DOMAIN air.pubs, j \in Nat : FragmentIn(air, p, j).total # 0
    BY <1>1, PubIs DEF FragmentIn
  <2> QED BY <2>1, <2>2 DEF FrameOK
<1>5. air' = [c EXCEPT !.slots = L]
  BY DEF DropPartials, Disconnected
<1> HIDE DEF a, ps
<1>6. PubsOK(a)
  BY <1>1, <1>2 DEF PubsOK
<1>7. b \in Air /\ SameElse(a, b) /\ Spoils(a, b, ps)
  BY <1>2, <1>6, SpoilIs
<1> HIDE DEF b
<1>8. S \in [Senders -> Nat] /\ \A t \in Senders : t # f.from => S[t] = air.session[t]
  BY <1>2, <1>3, <1>7, ZenonT(60) DEF Air, SameElse
<1> HIDE DEF S
<1>9. c \in Air /\ c.slots = b.slots /\ c.pubs = b.pubs /\ c.session = S /\ c.joined = b.joined
      /\ c.uplink = b.uplink /\ c.delivered = b.delivered /\ c.partial = b.partial
  BY <1>7, <1>8, Zenon DEF Air
<1> HIDE DEF c
<1>10. /\ L \in [1 .. PartialSlots -> Partials]
       /\ \A i \in 1 .. PartialSlots : L[i] = NoPartial \/ L[i] = c.slots[i]
       /\ \A i \in Held(c) : c.slots[i].from # f.from => L[i] = c.slots[i]
  <2>1. DOMAIN c.slots = 1 .. PartialSlots /\ \A i \in 1 .. PartialSlots : c.slots[i] \in Partials
    BY <1>9 DEF Air
  <2>2. NoPartial \in Partials
    BY DEF Partials
  <2>3. L \in [1 .. PartialSlots -> Partials]
    BY <2>1, <2>2
  <2>4. \A i \in 1 .. PartialSlots : L[i] = NoPartial \/ L[i] = c.slots[i]
    BY <2>1
  <2>5. \A i \in Held(c) : i \in DOMAIN c.slots
    BY <1>9, <2>1, HeldIs
  <2>6. \A i \in Held(c) : c.slots[i].from # f.from => L[i] = c.slots[i]
    BY <2>5
  <2> QED BY <2>3, <2>4, <2>6
<1> HIDE DEF L
<1>11. /\ air' \in Air /\ air'.slots = L /\ air'.pubs = c.pubs /\ air'.session = c.session /\ air'.joined = c.joined
       /\ air'.uplink = c.uplink /\ air'.delivered = c.delivered /\ air'.partial = c.partial
  BY <1>5, <1>9, <1>10, ZenonT(60) DEF Air
<1>12. /\ air'.uplink = Tail(air.uplink) /\ air'.uplink = a.uplink /\ air'.joined = air.joined
       /\ air'.delivered = air.delivered /\ air'.partial = air.partial /\ c.slots = air.slots
       /\ air'.session = S
  BY <1>2, <1>7, <1>9, <1>11 DEF SameElse
<1>13. Spoils(air, air', ps)
  <2>1. Spoils(air, b, ps)
    BY <1>2, <1>7, SpoilsFrom
  <2>2. air'.pubs = b.pubs
    BY <1>9, <1>11
  <2> QED BY <2>1, <2>2 DEF Spoils
<1>14. \A i \in Held(air') : i \in Held(air) /\ air'.slots[i] = air.slots[i]
  <2> TAKE i \in Held(air')
  <2>1. i \in 1 .. PartialSlots /\ air'.slots[i] # NoPartial
    BY <1>11, HeldIs
  <2>2. air'.slots[i] = air.slots[i]
    BY <1>10, <1>11, <1>12, <2>1
  <2>3. i \in Held(air)
    BY <1>1, <2>1, <2>2, HeldIs
  <2> QED BY <2>2, <2>3
<1>15. PartsFade(air, air') /\ UplinkFades(air, air')
  BY <1>12, <1>14, FadedSelf, Zenon DEF PartsFade, UplinkFades
<1>16. ASSUME NEW p \in DOMAIN air.pubs, p \notin ps, air'.pubs[p].next = air.pubs[p].next
       PROVE  FadesFor(air, air', p)
  <2>1. air.pubs[p].by # f.from /\ (air.pubs[p].by # Gateway => air.pubs[p].by \in Senders) /\ p # 0
    BY <1>1, <1>2, <1>16, BetweenIs, PubIs DEF ps, Everyone
  <2>2. \A l \in DOMAIN air.uplink : air.uplink[l].data[1] = p =>
            \E m \in DOMAIN air'.uplink : air'.uplink[m].data = air.uplink[l].data
    <3> SUFFICES ASSUME NEW l \in DOMAIN air.uplink, air.uplink[l].data[1] = p
                 PROVE  \E m \in DOMAIN air'.uplink : air'.uplink[m].data = air.uplink[l].data
      OBVIOUS
    <3>1. l # 1
      BY <1>2, <1>4, <2>1
    <3>2. PICK m \in DOMAIN a.uplink : l = m + 1 /\ a.uplink[m] = air.uplink[l]
      BY <1>2, <3>1
    <3>3. air'.uplink = a.uplink
      BY <1>12
    <3> QED BY <3>2, <3>3
  <2>3. \A i \in Held(air) : p \in Within(air.slots[i]) => air'.slots[i] = air.slots[i]
    <3> SUFFICES ASSUME NEW i \in Held(air), p \in Within(air.slots[i])
                 PROVE  air'.slots[i] = air.slots[i]
      OBVIOUS
    <3>1. air.slots[i] \in Part_ /\ PartOK(air, air.slots[i])
      BY <1>1, HeldIs DEF Sound, SlotsOK
    <3>2. PICK j \in DOMAIN air.slots[i].data : air.slots[i].data[j][1] = p
      BY <3>1, WithinIs
    <3>3. air.pubs[p].by = air.slots[i].from
      BY <3>1, <3>2, Zenon DEF PartOK, Key
    <3>4. i \in Held(c)
      BY <1>1, <1>9, <1>12, HeldIs
    <3> QED BY <1>10, <1>11, <1>12, <2>1, <3>3, <3>4, Zenon
  <2> QED BY <1>8, <1>12, <1>16, <2>1, <2>2, <2>3, Zenon DEF FadesFor
<1> QED BY <1>11, <1>12, <1>13, <1>15, <1>16, SpoilingStep, Zenon

-------------------------------------------------------------------------------
(* A new publication.                                                           *)

\* All that is not about publications.
SameRest(a, b) ==
    /\ b.session = a.session /\ b.joined = a.joined /\ b.uplink = a.uplink
    /\ b.delivered = a.delivered /\ b.slots = a.slots /\ b.partial = a.partial

\* Spoiling alone harms nothing.
LEMMA SpoilKeeps ==
    ASSUME NEW a, Sound(a), NEW b \in Air, NEW ps, Spoils(a, b, ps), SameRest(a, b)
    PROVE  /\ Sound(b)
           /\ \A p \in DOMAIN a.pubs : Carried(a, p) => Carried(b, p)
<1>1. a \in Air
  BY DEF Sound
<1>2. PartsFade(a, b) /\ UplinkFades(a, b) /\ b.delivered = a.delivered
  BY FadedSelf DEF PartsFade, UplinkFades, Held, SameRest
<1>3. Fades(a, b)
  BY <1>1, <1>2, SpoiledFades
<1>4. \A p \in DOMAIN a.pubs : b.pubs[p].fine => FadesFor(a, b, p)
  BY DEF SameRest, FadesFor, Spoils
<1>5. Sound(b)
  BY <1>3, FadeSound
<1> QED BY <1>3, <1>4, <1>5, FadeCarried

\* c is b and one publication x more, its n-th.
OneMore(b, c, n, x) ==
    /\ SameRest(b, c) /\ n = Len(b.pubs) + 1 /\ DOMAIN c.pubs = DOMAIN b.pubs \cup {n} /\ c.pubs[n] = x
    /\ \A p \in DOMAIN b.pubs : c.pubs[p] = b.pubs[p]

\* A publication that has just begun leaves what is known of the others.
LEMMA OneMoreIs ==
    ASSUME NEW b \in Air, NEW c \in Air, NEW n, NEW x \in Pubs, OneMore(b, c, n, x), x.next = 1
    PROVE  /\ PubsGrow(b, c) /\ n \notin DOMAIN b.pubs /\ \A p \in DOMAIN b.pubs : p < n
           /\ \A p \in DOMAIN b.pubs : Key(c, p) = Key(b, p) /\ (InProgress(c, p) <=> InProgress(b, p))
           /\ \A p \in DOMAIN b.pubs : (Dead(c, p) <=> Dead(b, p)) /\ (Carried(c, p) <=> Carried(b, p))
<1>1. b.pubs \in Seq(Pubs)
  BY DEF Air
<1>2. n \notin DOMAIN b.pubs /\ \A p \in DOMAIN b.pubs : p < n
  BY <1>1 DEF OneMore
<1>3. \A p \in DOMAIN b.pubs : b.pubs[p].next \in Nat
  BY PubIs
<1>4. PubsGrow(b, c)
  BY <1>3 DEF PubsGrow, OneMore
<1>5. \A p \in DOMAIN b.pubs : Key(c, p) = Key(b, p) /\ (InProgress(c, p) <=> InProgress(b, p))
  BY DEF OneMore, Key, InProgress
<1>6. Held(c) = Held(b)
  BY DEF Held, OneMore, SameRest
<1>7. \A p \in DOMAIN b.pubs : Dead(c, p) <=> Dead(b, p)
  BY <1>5, <1>6 DEF Dead, InUplink, OneMore, SameRest
<1>8. ASSUME NEW p \in DOMAIN b.pubs
      PROVE  Carried(c, p) <=> Carried(b, p)
  <2>1. c.pubs[p] = b.pubs[p] /\ SameRest(b, c)
    BY DEF OneMore
  <2>2. \A k : Part(c, p, k) = Part(b, p, k)
    BY <2>1 DEF Part
  <2>3. \A k : Consumed(c, p, k) <=> Consumed(b, p, k)
    BY <1>6, <2>1, <2>2, Zenon DEF Consumed, SameRest
  <2>4. CarriedUp(c, p) <=> CarriedUp(b, p)
    BY <2>1, <2>3 DEF CarriedUp, SameRest
  <2>5. CarriedDown(c, p) <=> CarriedDown(b, p)
    BY <2>1, <2>2 DEF CarriedDown, SameRest
  <2> QED BY <2>1, <2>4, <2>5 DEF Carried
<1> QED BY <1>2, <1>4, <1>5, <1>7, <1>8

\* A new publication may share its key only with dead ones or with spoiled ones, if it
\* is marked reused.
LEMMA OneMoreSound ==
    ASSUME NEW b, Sound(b), NEW c \in Air, NEW n, NEW x \in Pubs, OneMore(b, c, n, x), x.next = 1,
           IF x.by = Gateway THEN x.to \in Senders ELSE x.to = Gateway,
           \A p \in DOMAIN b.pubs :
              Key(b, p) = <<x.by, x.cid, x.id>> => (x.reused /\ ~b.pubs[p].fine /\ ~x.fine) \/ Dead(b, p),
           x.by = Gateway => \A p \in DOMAIN b.pubs : b.pubs[p].by = Gateway => ~InProgress(b, p)
    PROVE  Sound(c)
<1>1. /\ b \in Air /\ PubsOK(b) /\ FramesOK(b) /\ InOrder(b)
      /\ SlotsOK(b) /\ PartialsOK(b) /\ DeliveredOK(b)
      /\ OpenersOnce(b) /\ SlotKeys(b) /\ KeysOK(b) /\ OneSending(b)
  BY DEF Sound
<1>2. /\ PubsGrow(b, c) /\ n \notin DOMAIN b.pubs /\ \A p \in DOMAIN b.pubs : p < n
      /\ \A p \in DOMAIN b.pubs : Key(c, p) = Key(b, p) /\ (InProgress(c, p) <=> InProgress(b, p))
      /\ \A p \in DOMAIN b.pubs : Dead(c, p) <=> Dead(b, p)
  BY <1>1, OneMoreIs
<1>3. /\ c.uplink = b.uplink /\ c.delivered = b.delivered /\ c.slots = b.slots /\ c.partial = b.partial
      /\ Held(c) = Held(b)
  BY DEF OneMore, SameRest, Held
<1>4. /\ DOMAIN c.pubs = DOMAIN b.pubs \cup {n} /\ c.pubs[n] = x
      /\ \A p \in DOMAIN b.pubs : c.pubs[p] = b.pubs[p]
  BY DEF OneMore
<1>5. PubsOK(c)
  <2>1. x.next <= x.total + 1
    BY DEF Pubs
  <2>2. \A p \in DOMAIN b.pubs : c.pubs[p].next <= c.pubs[p].total + 1
    BY <1>1, <1>4 DEF PubsOK
  <2>3. \A p \in DOMAIN b.pubs : IF c.pubs[p].by = Gateway THEN c.pubs[p].to \in Senders ELSE c.pubs[p].to = Gateway
    BY <1>1, <1>4 DEF PubsOK
  <2> QED BY <1>4, <2>1, <2>2, <2>3 DEF PubsOK
<1>6. FramesOK(c) /\ InOrder(c)
  BY <1>1, <1>2, <1>3, GrowKeepsFrames DEF FramesOK, InOrder
<1>7. SlotsOK(c)
  BY <1>1, <1>2, <1>3, GrowKeepsParts, HeldIs DEF SlotsOK
<1>8. PartialsOK(c)
  BY <1>1, <1>2, <1>3, GrowKeepsParts, HeldIs DEF PartialsOK
<1>9. DeliveredOK(c)
  <2>1. \A i \in DOMAIN b.delivered : b.delivered[i] \in Seq(Nat \X Nat)
    BY <1>1 DEF Air
  <2> QED BY <1>1, <1>2, <1>3, <2>1, GrowKeepsWholes DEF DeliveredOK
<1>10. OpenersOnce(c)
  BY <1>1, <1>3 DEF OpenersOnce
<1>11. SlotKeys(c)
  BY <1>1, <1>3 DEF SlotKeys
<1>12. KeysOK(c)
  <2> SUFFICES ASSUME NEW p \in DOMAIN c.pubs, NEW q \in DOMAIN c.pubs, p < q, Key(c, p) = Key(c, q)
               PROVE  \/ c.pubs[q].reused /\ ~c.pubs[p].fine /\ ~c.pubs[q].fine
                      \/ Dead(c, p)
    BY DEF KeysOK
  <2>1. p \in DOMAIN b.pubs
    <3>1. \A r \in DOMAIN c.pubs : r \in Nat /\ n \in Nat
      BY <1>4, PubIs
    <3>2. ~(n < q)
      <4>1. CASE q = n
        BY <3>1, <4>1
      <4>2. CASE q \in DOMAIN b.pubs
        BY <1>2, <3>1, <4>2
      <4> QED BY <1>4, <4>1, <4>2
    <3> QED BY <1>4, <3>2
  <2>2. CASE q \in DOMAIN b.pubs
    <3>1. \/ b.pubs[q].reused /\ ~b.pubs[p].fine /\ ~b.pubs[q].fine
          \/ Dead(b, p)
      BY <1>1, <1>2, <2>1, <2>2 DEF KeysOK
    <3> QED BY <1>2, <1>4, <2>1, <2>2, <3>1
  <2>3. CASE q = n
    <3>1. Key(b, p) = <<x.by, x.cid, x.id>>
      BY <1>2, <1>4, <2>1, <2>3 DEF Key
    <3>2. (x.reused /\ ~b.pubs[p].fine /\ ~x.fine) \/ Dead(b, p)
      BY <2>1, <3>1
    <3> QED BY <1>2, <1>4, <2>1, <2>3, <3>2
  <2> QED BY <1>4, <2>2, <2>3
<1>13. OneSending(c)
  <2> SUFFICES ASSUME NEW p \in DOMAIN c.pubs, NEW q \in DOMAIN c.pubs, c.pubs[p].by = Gateway, c.pubs[q].by = Gateway,
                      InProgress(c, p), InProgress(c, q)
               PROVE  p = q
    BY DEF OneSending
  <2>1. CASE p \in DOMAIN b.pubs /\ q \in DOMAIN b.pubs
    BY <1>1, <1>2, <1>4, <2>1 DEF OneSending
  <2>2. CASE p = n \/ q = n
    BY <1>2, <1>4, <2>2
  <2> QED BY <1>4, <2>1, <2>2
<1> QED BY <1>5, <1>6, <1>7, <1>8, <1>9, <1>10, <1>11, <1>12, <1>13 DEF Sound

\* It has not been heard of.
LEMMA OneMoreCarried ==
    ASSUME NEW b, Sound(b), NEW c \in Air, NEW n, NEW x \in Pubs, OneMore(b, c, n, x), x.next = 1,
           x.by # Gateway => c.joined[x.by] = x.cid
    PROVE  Carried(c, n)
<1>1. b \in Air /\ FramesOK(b) /\ x.total \in Nat \ {0}
  BY DEF Sound, Pubs
<1>2. c.pubs[n] = x /\ c.uplink = b.uplink /\ n \notin DOMAIN b.pubs /\ n # 0
  <2>1. n \in DOMAIN c.pubs
    BY DEF OneMore
  <2> QED BY <1>1, <2>1, OneMoreIs, PubIs DEF OneMore, SameRest
<1>3. CarriedDown(c, n)
  BY <1>1, <1>2 DEF CarriedDown
<1>4. \A l \in DOMAIN c.uplink : c.uplink[l].data[1] # n
  <2> SUFFICES ASSUME NEW l \in DOMAIN b.uplink PROVE b.uplink[l].data[1] # n
    BY <1>2
  <2>1. FrameOK(b, b.uplink[l])
    BY <1>1 DEF FramesOK
  <2>2. \A p, j : FragmentIn(b, p, j).data[1] = p
    BY DEF FragmentIn
  <2>3. CASE b.uplink[l].data = <<0, 0>>
    BY <1>2, <2>3
  <2>4. CASE \E p \in DOMAIN b.pubs : \E j \in 1 .. b.pubs[p].total : b.uplink[l] = FragmentIn(b, p, j)
    BY <1>2, <2>2, <2>4
  <2> QED BY <2>1, <2>3, <2>4 DEF FrameOK
<1>5. x.by # Gateway => CarriedUp(c, n)
  <2>1. Consumed(c, n, 0)
    BY <1>1, <1>2, <1>4 DEF Consumed
  <2> QED BY <1>2, <2>1 DEF CarriedUp
<1> QED BY <1>2, <1>3, <1>5 DEF Carried

\* The next message id is a number (EspNowFragments' counter wraps past zero).
LEMMA NextIdIs ==
    ASSUME NEW id \in Nat
    PROVE  NextId(id) \in Nat
BY DEF NextId

\* That nothing of this session has the id.
LEMMA FreshIsDead ==
    ASSUME FragmentsInv, NEW by, NEW cid, NEW id, ~Reused(by, cid, id),
           NEW p \in DOMAIN air.pubs, air.pubs[p].by = by, air.pubs[p].cid = cid, air.pubs[p].id = id
    PROVE  Dead(air, p)
<1>1. air \in Air /\ SlotsOK(air) /\ PartialsOK(air)
  BY DEF FragmentsInv, Sound
<1>2. ~InProgress(air, p) /\ ~InUplink(air, p)
  BY DEF Reused, InUplink
<1>3. ASSUME NEW x \in Part_, PartOK(air, x), p \in Within(x)
      PROVE  x.from = by /\ x.cid = cid /\ x.id = id
  <2>1. PICK j \in DOMAIN x.data : x.data[j][1] = p
    BY <1>3, WithinIs
  <2>2. Key(air, p) = <<x.from, x.cid, x.id>>
    BY <1>3, <2>1 DEF PartOK
  <2> QED BY <2>2 DEF Key
<1>4. \A i \in Held(air) : p \notin Within(air.slots[i])
  <2> SUFFICES ASSUME NEW i \in Held(air), p \in Within(air.slots[i]) PROVE FALSE
    OBVIOUS
  <2>1. air.slots[i] \in Part_ /\ PartOK(air, air.slots[i])
    BY <1>1, HeldIs DEF SlotsOK
  <2>2. air.slots[i].from = by /\ air.slots[i].cid = cid /\ air.slots[i].id = id
    BY <1>3, <2>1
  <2> QED BY <2>2 DEF Reused
<1>5. ASSUME NEW s \in Senders, p \in Within(air.partial[s])
      PROVE  air.partial[s].old
  <2>1. air.partial[s] # NoPartial
    BY <1>5 DEF Within
  <2>2. air.partial[s] \in Part_ /\ PartOK(air, air.partial[s]) /\ air.partial[s].from = Gateway
    BY <1>1, <2>1, HeldIs DEF PartialsOK
  <2>3. by = Gateway /\ air.partial[s].cid = cid /\ air.partial[s].id = id
    BY <1>3, <1>5, <2>2
  <2> QED BY <2>3 DEF Reused
<1> QED BY <1>2, <1>4, <1>5 DEF Dead

\* A publication that begins preserves the invariant: its id is fresh, or what shares
\* it is spoiled.
LEMMA BeginStep ==
    ASSUME FragmentsInv, NEW by \in Everyone, NEW to \in Everyone, NEW cid \in Nat \ {0}, NEW total \in Nat \ {0},
           Begin(by, to, cid, total),
           by = Gateway => to \in Senders /\ ~GatewayBusy,
           by # Gateway => to = Gateway /\ air.joined[by] = cid
    PROVE  FragmentsInv'
<1> DEFINE id == air.ids[by]
           reused == Reused(by, cid, id)
           same == {p \in DOMAIN air.pubs : /\ reused /\ air.pubs[p].by = by
                                            /\ air.pubs[p].cid = cid /\ air.pubs[p].id = id}
           b == Spoil(air, same)
           x == [by |-> by, to |-> to, cid |-> cid, id |-> id, total |-> total,
                 next |-> 1, fine |-> ~reused, reused |-> reused]
           D == [b.ids EXCEPT ![by] = NextId(b.ids[by])]
           F == Append(b.pubs, x)
           n == Len(b.pubs) + 1
<1>1. air \in Air /\ PubsOK(air) /\ Sound(air) /\ \A p \in DOMAIN air.pubs : Carried(air, p)
  BY Zenon DEF FragmentsInv, Sound
<1>2. air' = [b EXCEPT !.ids = D, !.pubs = F]
  BY Zenon DEF Begin
<1>3. reused \in BOOLEAN /\ id \in Nat
  BY <1>1 DEF Air, Reused
<1>4. x \in Pubs /\ x.next = 1 /\ x.by = by /\ x.to = to /\ x.cid = cid /\ x.id = id /\ x.fine = ~reused /\ x.reused = reused
  <2> HIDE DEF reused, id
  <2> QED BY <1>3 DEF Pubs
<1> HIDE DEF x
<1>5. b \in Air /\ SameElse(air, b) /\ Spoils(air, b, same)
  <2> HIDE DEF same
  <2> QED BY <1>1, SpoilIs
<1> HIDE DEF b
<1>6. Sound(b) /\ \A p \in DOMAIN b.pubs : Carried(b, p)
  <2>1. SameRest(air, b)
    BY <1>5 DEF SameElse, SameRest
  <2>2. DOMAIN b.pubs = DOMAIN air.pubs
    BY <1>5 DEF Spoils
  <2> HIDE DEF same
  <2> QED BY <1>1, <1>5, <2>1, <2>2, SpoilKeeps
<1>7. /\ F \in Seq(Pubs) /\ DOMAIN F = DOMAIN b.pubs \cup {n} /\ F[n] = x
      /\ \A p \in DOMAIN b.pubs : F[p] = b.pubs[p]
  <2>1. b.pubs \in Seq(Pubs)
    BY <1>5 DEF Air
  <2> QED BY <1>4, <2>1, AppendProperties
<1>8. D \in [Everyone -> Nat]
  <2>1. b.ids \in [Everyone -> Nat]
    BY <1>5 DEF Air
  <2>2. NextId(b.ids[by]) \in Nat
    BY <2>1, NextIdIs
  <2> QED BY <2>1, <2>2
<1> HIDE DEF D, F
<1>9. air' \in Air /\ air'.pubs = F /\ SameRest(b, air')
  BY <1>2, <1>5, <1>7, <1>8 DEF Air, SameRest
<1>10. OneMore(b, air', n, x)
  BY <1>7, <1>9 DEF OneMore
<1>11. ASSUME NEW p \in DOMAIN b.pubs, Key(b, p) = <<x.by, x.cid, x.id>>
       PROVE  (x.reused /\ ~b.pubs[p].fine /\ ~x.fine) \/ Dead(b, p)
  <2>1. p \in DOMAIN air.pubs /\ b.pubs[p].by = air.pubs[p].by /\ b.pubs[p].cid = air.pubs[p].cid /\ b.pubs[p].id = air.pubs[p].id
    BY <1>5 DEF Spoils
  <2>2. air.pubs[p].by = by /\ air.pubs[p].cid = cid /\ air.pubs[p].id = id
    BY <1>4, <1>11, <2>1 DEF Key
  <2>3. CASE reused
    <3>1. p \in same
      BY <2>1, <2>2, <2>3
    <3>2. ~b.pubs[p].fine
      BY <1>5, <2>1, <3>1 DEF Spoils
    <3> QED BY <1>4, <2>3, <3>2
  <2>4. CASE ~reused
    <3>1. Dead(air, p)
      BY <2>1, <2>2, <2>4, FreshIsDead
    <3>2. SameElse(air, b) /\ Held(b) = Held(air)
      BY <1>5 DEF SameElse, Held
    <3>3. ~InProgress(b, p)
      <4>1. air.pubs[p].next \in Nat /\ b.pubs[p].next \in Nat /\ air.pubs[p].total \in Nat
        BY <1>1, <1>5, <2>1, PubIs
      <4>2. air.pubs[p].next <= b.pubs[p].next /\ b.pubs[p].total = air.pubs[p].total
        BY <1>5, <2>1 DEF Spoils
      <4> QED BY <3>1, <4>1, <4>2 DEF Dead, InProgress
    <3>4. Dead(b, p)
      BY <3>1, <3>2, <3>3 DEF Dead, InUplink, SameElse
    <3> QED BY <3>4
  <2> QED BY <2>3, <2>4
<1>12. x.by = Gateway => \A p \in DOMAIN b.pubs : b.pubs[p].by = Gateway => ~InProgress(b, p)
  <2> SUFFICES ASSUME by = Gateway, NEW p \in DOMAIN b.pubs, b.pubs[p].by = Gateway PROVE ~InProgress(b, p)
    BY <1>4
  <2>1. p \in DOMAIN air.pubs /\ air.pubs[p].by = Gateway /\ b.pubs[p].total = air.pubs[p].total /\ air.pubs[p].next <= b.pubs[p].next
    BY <1>5 DEF Spoils
  <2>2. ~InProgress(air, p)
    BY <2>1 DEF GatewayBusy
  <2>3. air.pubs[p].next \in Nat /\ b.pubs[p].next \in Nat /\ air.pubs[p].total \in Nat
    BY <1>1, <1>5, <2>1, PubIs
  <2> QED BY <2>1, <2>2, <2>3 DEF InProgress
<1>13. x.by # Gateway => air'.joined[x.by] = x.cid
  BY <1>4, <1>5, <1>9 DEF SameElse, SameRest
<1> HIDE DEF n, same
<1>14. Sound(air')
  BY <1>4, <1>6, <1>9, <1>10, <1>11, <1>12, OneMoreSound
<1>15. Carried(air', n)
  BY <1>4, <1>6, <1>9, <1>10, <1>13, OneMoreCarried
<1>16. \A p \in DOMAIN b.pubs : Carried(air', p)
  BY <1>4, <1>5, <1>6, <1>9, <1>10, OneMoreIs
<1>17. DOMAIN air'.pubs = DOMAIN b.pubs \cup {n}
  BY <1>10 DEF OneMore
<1> QED BY <1>14, <1>15, <1>16, <1>17 DEF FragmentsInv

\* A station's publication that begins preserves the invariant.
LEMMA BeginPublishStep ==
    ASSUME FragmentsInv, NEW s \in Senders, NEW total \in air.counts, BeginPublish(s, total)
    PROVE  FragmentsInv'
<1>1. air \in Air
  BY DEF FragmentsInv, Sound
<1>2. total \in Nat \ {0} /\ air.joined[s] \in Nat \ {0}
  BY <1>1 DEF Air, BeginPublish
<1>3. s # Gateway
  BY FragmentsAssumption
<1> QED BY <1>2, <1>3, BeginStep DEF BeginPublish, Everyone

\* A gateway's message that begins, no other being sent, preserves the invariant.
LEMMA BeginSendStep ==
    ASSUME FragmentsInv, NEW s \in Senders, NEW total \in air.counts, BeginSend(s, total)
    PROVE  FragmentsInv'
<1>1. air \in Air
  BY DEF FragmentsInv, Sound
<1>2. total \in Nat \ {0} /\ air.session[s] \in Nat \ {0}
  BY <1>1 DEF Air, BeginSend
<1> QED BY <1>2, BeginStep DEF BeginSend, Everyone

-------------------------------------------------------------------------------
(* A frame that arrives.                                                        *)

\* The next frame of p was sent, and perhaps the last there will be.
Moves(a, b, p) ==
    /\ PubsGrow(a, b) /\ DOMAIN b.pubs = DOMAIN a.pubs
    /\ \A q \in DOMAIN a.pubs :
          /\ b.pubs[q].next <= b.pubs[q].total + 1
          /\ q # p /\ b.pubs[q].fine => b.pubs[q].next = a.pubs[q].next
    /\ a.pubs[p].next < b.pubs[p].next
    /\ b.pubs[p].fine => b.pubs[p].next = a.pubs[p].next + 1

\* A publication that has gone on and been spoiled, and perhaps others with it, has
\* moved.
LEMMA SpoilsMoves ==
    ASSUME NEW a \in Air, NEW b \in Air, NEW c \in Air, NEW p \in DOMAIN a.pubs, NEW ps, Spoils(b, c, ps),
           PubsGrow(a, b), DOMAIN b.pubs = DOMAIN a.pubs, a.pubs[p].next < b.pubs[p].next, p \in ps,
           \A q \in DOMAIN a.pubs : q # p => b.pubs[q].next = a.pubs[q].next
    PROVE  Moves(a, c, p)
<1>1. \A q \in DOMAIN a.pubs : a.pubs[q].next \in Nat /\ b.pubs[q].next \in Nat /\ c.pubs[q].next \in Nat
  BY PubIs DEF Spoils
<1>2. DOMAIN c.pubs = DOMAIN a.pubs
  BY DEF Spoils
<1>3. \A q \in DOMAIN a.pubs : /\ a.pubs[q].next <= b.pubs[q].next /\ b.pubs[q].next <= c.pubs[q].next
                               /\ c.pubs[q].next <= c.pubs[q].total + 1
  BY DEF Spoils, PubsGrow
<1>4. \A q \in DOMAIN a.pubs : a.pubs[q].next <= c.pubs[q].next
  BY <1>1, <1>3
<1>5. ASSUME NEW q \in DOMAIN a.pubs
      PROVE  /\ c.pubs[q].by = a.pubs[q].by /\ c.pubs[q].to = a.pubs[q].to
             /\ c.pubs[q].cid = a.pubs[q].cid /\ c.pubs[q].id = a.pubs[q].id
             /\ c.pubs[q].total = a.pubs[q].total /\ c.pubs[q].reused = a.pubs[q].reused
             /\ c.pubs[q].fine => a.pubs[q].fine /\ q \notin ps /\ c.pubs[q].next = b.pubs[q].next
  <2>1. /\ b.pubs[q].by = a.pubs[q].by /\ b.pubs[q].to = a.pubs[q].to
        /\ b.pubs[q].cid = a.pubs[q].cid /\ b.pubs[q].id = a.pubs[q].id
        /\ b.pubs[q].total = a.pubs[q].total /\ b.pubs[q].reused = a.pubs[q].reused
        /\ b.pubs[q].fine => a.pubs[q].fine
    BY DEF PubsGrow
  <2>2. /\ c.pubs[q].by = b.pubs[q].by /\ c.pubs[q].to = b.pubs[q].to
        /\ c.pubs[q].cid = b.pubs[q].cid /\ c.pubs[q].id = b.pubs[q].id
        /\ c.pubs[q].total = b.pubs[q].total /\ c.pubs[q].reused = b.pubs[q].reused
        /\ c.pubs[q].fine => b.pubs[q].fine /\ q \notin ps /\ c.pubs[q].next = b.pubs[q].next
    BY DEF Spoils
  <2> QED BY <2>1, <2>2
<1>6. PubsGrow(a, c)
  BY <1>2, <1>4, <1>5 DEF PubsGrow
<1>7. a.pubs[p].next < c.pubs[p].next
  BY <1>1, <1>3
<1>8. ~c.pubs[p].fine
  BY <1>5
<1> QED BY <1>2, <1>3, <1>5, <1>6, <1>7, <1>8 DEF Moves

\* A fragment that reaches its receiver moves its publication and no other.
LEMMA AiredMoves ==
    ASSUME FragmentsInv, NEW p \in DOMAIN air.pubs, InProgress(air, p), NEW taken \in BOOLEAN
    PROVE  /\ Aired(p, TRUE, taken) \in Air /\ SameElse(air, Aired(p, TRUE, taken))
           /\ PubsOK(Aired(p, TRUE, taken)) /\ Moves(air, Aired(p, TRUE, taken), p)
<1> DEFINE n == IF taken THEN air.pubs[p].next + 1 ELSE air.pubs[p].total + 1
           a == Advance(air, p, n)
           b == Spoil(a, {p})
           c == Trouble(b)
<1>1. air \in Air /\ PubsOK(air)
  BY DEF FragmentsInv, Sound
<1>2. n \in Nat /\ air.pubs[p].next < n /\ n <= air.pubs[p].total + 1 /\ air.pubs[p].next <= n
  BY <1>1, PubIs DEF InProgress
<1>3. Aired(p, TRUE, taken) = IF taken THEN a ELSE c
  BY DEF Aired, Advance
<1>4. taken => n = air.pubs[p].next + 1
  OBVIOUS
<1>5. a = Advance(air, p, n) /\ b = Spoil(a, {p})
  OBVIOUS
<1> HIDE DEF n, a, b
<1>6. /\ a \in Air /\ SameElse(air, a) /\ PubsOK(a)
      /\ a.pubs = [air.pubs EXCEPT ![p] = [air.pubs[p] EXCEPT !.next = n]]
      /\ b \in Air /\ PubsOK(b) /\ SameElse(air, b)
  BY <1>1, <1>2, <1>5, AdvanceIs
<1>7. c \in Air /\ SameElse(b, c) /\ c.pubs = b.pubs
  BY <1>6, TroubleIs
<1> HIDE DEF c
<1>8. /\ DOMAIN a.pubs = DOMAIN air.pubs /\ \A q \in DOMAIN air.pubs : q # p => a.pubs[q] = air.pubs[q]
      /\ a.pubs[p] = [air.pubs[p] EXCEPT !.next = n]
  BY <1>6
<1>9. /\ a.pubs[p].next = n /\ a.pubs[p].fine = air.pubs[p].fine
      /\ a.pubs[p].by = air.pubs[p].by /\ a.pubs[p].to = air.pubs[p].to
      /\ a.pubs[p].cid = air.pubs[p].cid /\ a.pubs[p].id = air.pubs[p].id
      /\ a.pubs[p].total = air.pubs[p].total /\ a.pubs[p].reused = air.pubs[p].reused
  <2>1. air.pubs[p] \in Pubs
    BY <1>1, PubIs
  <2> QED BY <1>8, <2>1 DEF Pubs
<1>10. PubsGrow(air, a)
  <2>1. \A q \in DOMAIN air.pubs : air.pubs[q].next \in Nat
    BY <1>1, PubIs
  <2>2. \A q \in DOMAIN air.pubs : air.pubs[q].next <= a.pubs[q].next
    <3> TAKE q \in DOMAIN air.pubs
    <3>1. CASE q = p
      BY <1>2, <1>9, <3>1
    <3>2. CASE q # p
      <4>1. a.pubs[q] = air.pubs[q] /\ air.pubs[q].next \in Nat
        BY <1>8, <2>1, <3>2
      <4> QED BY <4>1
    <3> QED BY <3>1, <3>2
  <2>3. \A q \in DOMAIN air.pubs :
           /\ a.pubs[q].by = air.pubs[q].by /\ a.pubs[q].to = air.pubs[q].to
           /\ a.pubs[q].cid = air.pubs[q].cid /\ a.pubs[q].id = air.pubs[q].id
           /\ a.pubs[q].total = air.pubs[q].total /\ a.pubs[q].reused = air.pubs[q].reused
           /\ a.pubs[q].fine => air.pubs[q].fine
    BY <1>8, <1>9
  <2> QED BY <1>8, <2>2, <2>3 DEF PubsGrow
<1>11. CASE taken
  <2>1. Moves(air, a, p)
    BY <1>2, <1>4, <1>6, <1>8, <1>9, <1>10, <1>11 DEF Moves, PubsOK
  <2> QED BY <1>3, <1>6, <1>11, <2>1
<1>12. CASE ~taken
  <2>1. Spoils(a, b, {p})
    BY <1>5, <1>6, SpoilIs
  <2>2. Spoils(a, c, {p})
    BY <1>7, <2>1 DEF Spoils
  <2>3. air.pubs[p].next < a.pubs[p].next /\ \A q \in DOMAIN air.pubs : q # p => a.pubs[q].next = air.pubs[q].next
    BY <1>2, <1>8, <1>9
  <2>4. Moves(air, c, p)
    BY <1>1, <1>6, <1>7, <1>8, <1>10, <2>2, <2>3, SpoilsMoves
  <2>5. SameElse(air, c) /\ PubsOK(c)
    BY <1>6, <1>7 DEF SameElse, PubsOK
  <2> QED BY <1>3, <1>7, <1>12, <2>4, <2>5
<1> QED BY <1>11, <1>12

\* What a publication that moves leaves as it was.
LEMMA MovesIs ==
    ASSUME NEW a \in Air, NEW b \in Air, NEW p \in DOMAIN a.pubs, Moves(a, b, p), PubsOK(a)
    PROVE  /\ PubsGrow(a, b) /\ DOMAIN b.pubs = DOMAIN a.pubs /\ PubsOK(b)
           /\ \A q \in DOMAIN a.pubs : /\ b.pubs[q].fine => a.pubs[q].fine
                                       /\ Key(b, q) = Key(a, q) /\ (InProgress(b, q) => InProgress(a, q))
                                       /\ \A k : Part(b, q, k) = Part(a, q, k)
                                       /\ \A j : FragmentIn(b, q, j) = FragmentIn(a, q, j)
<1>1. PubsGrow(a, b) /\ DOMAIN b.pubs = DOMAIN a.pubs
  BY DEF Moves
<1>2. PubsOK(b)
  BY <1>1 DEF Moves, PubsOK, PubsGrow
<1>3. \A q \in DOMAIN a.pubs : Key(b, q) = Key(a, q) /\ (InProgress(b, q) => InProgress(a, q))
  BY <1>1, GrowKeepsKeys
<1>4. \A q \in DOMAIN a.pubs : /\ b.pubs[q].fine => a.pubs[q].fine
                               /\ \A k : Part(b, q, k) = Part(a, q, k)
                               /\ \A j : FragmentIn(b, q, j) = FragmentIn(a, q, j)
  BY <1>1 DEF PubsGrow, Part, FragmentIn
<1> QED BY <1>1, <1>2, <1>3, <1>4

\* The queue has its frame.
SentUp(a, b, p) ==
    /\ Moves(a, b, p) /\ a.pubs[p].by # Gateway /\ InProgress(a, p)
    /\ b.uplink = Append(a.uplink, FragmentIn(a, p, a.pubs[p].next))
    /\ b.session = a.session /\ b.joined = a.joined /\ b.delivered = a.delivered
    /\ b.slots = a.slots /\ b.partial = a.partial

\* A frame that is queued comes after all the others.
LEMMA SentUpIs ==
    ASSUME NEW a \in Air, NEW b \in Air, NEW p \in DOMAIN a.pubs, SentUp(a, b, p)
    PROVE  \E m \in Nat :
              /\ DOMAIN b.uplink = DOMAIN a.uplink \cup {m} /\ b.uplink[m] = FragmentIn(a, p, a.pubs[p].next)
              /\ \A l \in DOMAIN a.uplink : l < m /\ b.uplink[l] = a.uplink[l]
<1> DEFINE f == FragmentIn(a, p, a.pubs[p].next)
           m == Len(a.uplink) + 1
<1>1. a.uplink \in Seq(Frames) /\ b.uplink \in Seq(Frames) /\ b.uplink = Append(a.uplink, f)
  BY DEF Air, SentUp
<1>2. b.uplink[m] = f
  <2> HIDE DEF f
  <2> QED BY <1>1, AppendProperties
<1>3. f \in Frames
  <2>1. m \in DOMAIN b.uplink
    BY <1>1
  <2> QED BY <1>1, <1>2, <2>1
<1> HIDE DEF f
<1>4. /\ DOMAIN b.uplink = DOMAIN a.uplink \cup {m} /\ b.uplink[m] = f /\ m \in Nat
      /\ \A l \in DOMAIN a.uplink : l < m /\ b.uplink[l] = a.uplink[l]
  BY <1>1, <1>3, AppendProperties
<1> HIDE DEF m
<1> QED BY <1>4 DEF f

\* A frame that is queued does no harm to what holds of every state.
LEMMA SentUpSound ==
    ASSUME NEW a, Sound(a), NEW b \in Air, NEW p \in DOMAIN a.pubs, SentUp(a, b, p)
    PROVE  Sound(b)
<1> DEFINE j == a.pubs[p].next
           f == FragmentIn(a, p, j)
<1>1. /\ a \in Air /\ PubsOK(a) /\ FramesOK(a) /\ InOrder(a)
      /\ SlotsOK(a) /\ PartialsOK(a) /\ DeliveredOK(a)
      /\ OpenersOnce(a) /\ SlotKeys(a) /\ KeysOK(a) /\ OneSending(a)
  BY DEF Sound
<1>2. Moves(a, b, p)
  BY DEF SentUp
<1>3. /\ PubsGrow(a, b) /\ DOMAIN b.pubs = DOMAIN a.pubs /\ PubsOK(b)
      /\ \A q \in DOMAIN a.pubs : /\ b.pubs[q].fine => a.pubs[q].fine
                                  /\ Key(b, q) = Key(a, q) /\ (InProgress(b, q) => InProgress(a, q))
                                  /\ \A k : FragmentIn(b, q, k) = FragmentIn(a, q, k)
  BY <1>1, <1>2, MovesIs
<1>4. PICK m \in Nat : /\ DOMAIN b.uplink = DOMAIN a.uplink \cup {m} /\ b.uplink[m] = f
                       /\ \A l \in DOMAIN a.uplink : l < m /\ b.uplink[l] = a.uplink[l]
  BY <1>1, SentUpIs
<1>5. f.data = <<p, j>> /\ f.data[1] = p /\ f.data[2] = j /\ p # 0 /\ j \in Nat \ {0} /\ j <= a.pubs[p].total /\ f.total # 0
  BY <1>1, PubIs DEF FragmentIn, SentUp, InProgress
<1>6. /\ b.delivered = a.delivered /\ b.slots = a.slots /\ b.partial = a.partial /\ Held(b) = Held(a)
  BY DEF SentUp, Held
<1>7. FramesOK(b)
  <2>1. \A l \in DOMAIN a.uplink : FrameOK(b, b.uplink[l])
    BY <1>1, <1>3, <1>4, GrowKeepsFrames DEF FramesOK
  <2>2. FrameOK(b, f)
    <3>1. p \in DOMAIN b.pubs /\ j \in 1 .. b.pubs[p].total /\ b.pubs[p].by # Gateway /\ j < b.pubs[p].next
      BY <1>1, <1>2, <1>3, <1>5, PubIs DEF PubsGrow, Moves, SentUp
    <3>2. f = FragmentIn(b, p, j)
      BY <1>3
    <3> HIDE DEF f, j
    <3> QED BY <3>1, <3>2, Zenon DEF FrameOK
  <2> QED BY <1>4, <2>1, <2>2 DEF FramesOK
<1>8. InOrder(b)
  <2> SUFFICES ASSUME NEW k \in DOMAIN b.uplink, NEW l \in DOMAIN b.uplink, k < l,
                      b.uplink[k].data[1] = b.uplink[l].data[1], b.uplink[k].total # 0
               PROVE  b.uplink[k].data[2] < b.uplink[l].data[2]
    BY DEF InOrder
  <2>1. k \in Nat /\ l \in Nat
    BY FrameIs
  <2>2. k \in DOMAIN a.uplink
    <3>1. CASE k = m
      <4>1. l <= m
        BY <1>4, <2>1
      <4> QED BY <2>1, <3>1, <4>1
    <3> QED BY <1>4, <3>1
  <2>3. CASE l \in DOMAIN a.uplink
    BY <1>1, <1>4, <2>2, <2>3 DEF InOrder
  <2>4. CASE l = m
    <3>1. FrameOK(a, a.uplink[k]) /\ a.uplink[k].total # 0 /\ a.uplink[k].data[1] = p
      BY <1>1, <1>4, <1>5, <2>2, <2>4 DEF FramesOK
    <3>2. PICK q \in DOMAIN a.pubs : \E i \in 1 .. a.pubs[q].total : i < a.pubs[q].next /\ a.uplink[k] = FragmentIn(a, q, i)
      BY <3>1 DEF FrameOK
    <3>3. PICK i \in 1 .. a.pubs[q].total : i < a.pubs[q].next /\ a.uplink[k] = FragmentIn(a, q, i)
      BY <3>2
    <3>4. q = p /\ a.uplink[k].data[2] = i
      BY <3>1, <3>3 DEF FragmentIn
    <3>5. a.uplink[k].data[2] < j
      BY <3>3, <3>4
    <3> QED BY <1>4, <1>5, <2>2, <2>4, <3>5
  <2> QED BY <1>4, <2>3, <2>4
<1>9. SlotsOK(b)
  BY <1>1, <1>3, <1>6, GrowKeepsParts, HeldIs DEF SlotsOK
<1>10. PartialsOK(b)
  BY <1>1, <1>3, <1>6, GrowKeepsParts, HeldIs DEF PartialsOK
<1>11. DeliveredOK(b)
  <2>1. \A i \in DOMAIN a.delivered : a.delivered[i] \in Seq(Nat \X Nat)
    BY <1>1 DEF Air
  <2> QED BY <1>1, <1>3, <1>6, <2>1, GrowKeepsWholes DEF DeliveredOK
<1>12. OpenersOnce(b)
  <2>1. \A d \in Seq(Nat \X Nat) : Tokens(a, d) /\ Opens(a, d) => f.data # d[1]
    <3> TAKE d \in Seq(Nat \X Nat)
    <3> HAVE Tokens(a, d) /\ Opens(a, d)
    <3>1. d[1] = <<d[1][1], 1>> /\ a.pubs[d[1][1]].next > 1
      BY <1>1, OpensAt
    <3>2. CASE f.data = d[1]
      <4>1. d[1][1] = p /\ j = 1
        BY <1>5, <3>1, <3>2
      <4> QED BY <3>1, <4>1
    <3> QED BY <3>2
  <2>2. \A i \in Held(a) : f.data # a.slots[i].data[1]
    BY <1>1, <2>1, HeldIs DEF SlotsOK, PartOK, Part_
  <2>3. \A i \in DOMAIN a.delivered : f.data # a.delivered[i][1]
    BY <1>1, <2>1 DEF DeliveredOK, WholeOK, Air
  <2>4. \A k \in DOMAIN b.uplink : /\ \A i \in Held(b) : b.uplink[k].data # b.slots[i].data[1]
                                   /\ \A i \in DOMAIN b.delivered : b.uplink[k].data # b.delivered[i][1]
    BY <1>1, <1>4, <1>6, <2>2, <2>3 DEF OpenersOnce
  <2> HIDE DEF f, j
  <2> QED BY <1>1, <1>6, <2>4 DEF OpenersOnce
<1>13. SlotKeys(b)
  BY <1>1, <1>6 DEF SlotKeys
<1>14. KeysOK(b)
  <2> SUFFICES ASSUME NEW q \in DOMAIN b.pubs, NEW r \in DOMAIN b.pubs, q < r, Key(b, q) = Key(b, r)
               PROVE  \/ b.pubs[r].reused /\ ~b.pubs[q].fine /\ ~b.pubs[r].fine
                      \/ Dead(b, q)
    BY DEF KeysOK
  <2>1. \/ a.pubs[r].reused /\ ~a.pubs[q].fine /\ ~a.pubs[r].fine
        \/ Dead(a, q)
    BY <1>1, <1>3 DEF KeysOK
  <2>2. CASE a.pubs[r].reused /\ ~a.pubs[q].fine /\ ~a.pubs[r].fine
    BY <1>3, <2>2 DEF PubsGrow
  <2>3. CASE Dead(a, q)
    <3>1. q # p
      BY <2>3 DEF Dead, SentUp
    <3>2. ~InProgress(b, q)
      BY <1>3, <2>3 DEF Dead
    <3>3. ~InUplink(b, q)
      BY <1>4, <1>5, <2>3, <3>1 DEF Dead, InUplink
    <3> QED BY <1>6, <2>3, <3>2, <3>3 DEF Dead
  <2> QED BY <2>1, <2>2, <2>3
<1>15. OneSending(b)
  BY <1>1, <1>3 DEF OneSending, PubsGrow
<1> QED BY <1>3, <1>7, <1>8, <1>9, <1>10, <1>11, <1>12, <1>13, <1>14, <1>15 DEF Sound

\* A frame that is queued carries its message on and leaves the others.
LEMMA SentUpCarried ==
    ASSUME NEW a, Sound(a), NEW b \in Air, NEW p \in DOMAIN a.pubs, SentUp(a, b, p),
           NEW q \in DOMAIN a.pubs, Carried(a, q)
    PROVE  Carried(b, q)
<1> DEFINE j == a.pubs[p].next
           f == FragmentIn(a, p, j)
<1>1. a \in Air /\ PubsOK(a)
  BY DEF Sound
<1>2. Moves(a, b, p)
  BY DEF SentUp
<1>3. /\ b.pubs[q].by = a.pubs[q].by /\ b.pubs[q].to = a.pubs[q].to /\ b.pubs[q].cid = a.pubs[q].cid
      /\ b.pubs[q].total = a.pubs[q].total /\ (b.pubs[q].fine => a.pubs[q].fine)
      /\ \A k : Part(b, q, k) = Part(a, q, k)
  BY <1>1, <1>2, MovesIs DEF PubsGrow
<1>4. PICK m \in Nat : /\ DOMAIN b.uplink = DOMAIN a.uplink \cup {m} /\ b.uplink[m] = f
                       /\ \A l \in DOMAIN a.uplink : l < m /\ b.uplink[l] = a.uplink[l]
  BY <1>1, SentUpIs
<1>5. f.data = <<p, j>> /\ f.data[1] = p /\ f.data[2] = j /\ j \in Nat \ {0} /\ j <= a.pubs[p].total
  BY <1>1, PubIs DEF FragmentIn, SentUp, InProgress
<1>6. /\ b.delivered = a.delivered /\ b.slots = a.slots /\ b.partial = a.partial /\ Held(b) = Held(a)
      /\ b.session = a.session /\ b.joined = a.joined
  BY DEF SentUp, Held
<1> HIDE DEF f
<1> SUFFICES ASSUME b.pubs[q].fine
             PROVE  IF b.pubs[q].by = Gateway THEN CarriedDown(b, q) ELSE CarriedUp(b, q)
  BY DEF Carried
<1>7. b.pubs[q].next = (IF q = p THEN j + 1 ELSE a.pubs[q].next) /\ j + 1 \in Nat /\ a.pubs[q].next \in Nat
  BY <1>1, <1>2, PubIs DEF Moves
<1>8. CASE a.pubs[q].by = Gateway
  <2>1. q # p /\ b.pubs[q].next = a.pubs[q].next
    BY <1>7, <1>8 DEF SentUp
  <2>2. CarriedDown(a, q)
    BY <1>3, <1>8 DEF Carried
  <2>3. CarriedDown(b, q)
    BY <1>3, <1>6, <2>1, <2>2 DEF CarriedDown
  <2> QED BY <1>3, <1>8, <2>3
<1>9. CASE a.pubs[q].by # Gateway
  <2>1. CarriedUp(a, q)
    BY <1>3, <1>9 DEF Carried
  <2>2. PICK k \in 0 .. a.pubs[q].next - 1 : Consumed(a, q, k)
    BY <2>1 DEF CarriedUp
  <2>3. k \in Nat /\ k \in 0 .. b.pubs[q].next - 1 /\ k < a.pubs[q].next
    BY <1>7, <2>2
  <2>4. \A l \in DOMAIN b.uplink : b.uplink[l].data[1] = q => b.uplink[l].data[2] > k
    <3>1. \A l \in DOMAIN a.uplink : b.uplink[l].data[1] = q => b.uplink[l].data[2] > k
      BY <1>4, <2>2 DEF Consumed
    <3>2. b.uplink[m].data[1] = q => b.uplink[m].data[2] > k
      BY <1>4, <1>5, <2>3
    <3> QED BY <1>4, <3>1, <3>2
  <2>5. \A i \in k + 1 .. b.pubs[q].next - 1 : \E l \in DOMAIN b.uplink : b.uplink[l].data = <<q, i>>
    <3> TAKE i \in k + 1 .. b.pubs[q].next - 1
    <3>1. CASE i \in k + 1 .. a.pubs[q].next - 1
      <4>1. PICK l \in DOMAIN a.uplink : a.uplink[l].data = <<q, i>>
        BY <2>2, <3>1 DEF Consumed
      <4> QED BY <1>4, <4>1
    <3>2. CASE i \notin k + 1 .. a.pubs[q].next - 1
      <4>1. q = p /\ i = j
        BY <1>5, <1>7, <2>3, <3>2
      <4> QED BY <1>4, <1>5, <4>1
    <3> QED BY <3>1, <3>2
  <2>6. Consumed(b, q, k)
    BY <1>3, <1>6, <2>2, <2>4, <2>5, Zenon DEF Consumed
  <2>7. b.joined[b.pubs[q].by] = b.pubs[q].cid
    BY <1>3, <1>6, <2>1 DEF CarriedUp
  <2> QED BY <1>3, <1>9, <2>3, <2>6, <2>7 DEF CarriedUp
<1> QED BY <1>8, <1>9

\* A station's fragment that the gateway's queue takes preserves the invariant.
LEMMA SendFragmentStep ==
    ASSUME FragmentsInv, NEW p \in DOMAIN air.pubs, NEW taken \in BOOLEAN, SendFragment(p, TRUE, taken)
    PROVE  FragmentsInv'
<1> DEFINE a == Aired(p, TRUE, taken)
           f == FragmentOf(p, air.pubs[p].next)
           U == Append(a.uplink, f)
<1>1. InProgress(air, p) /\ air.pubs[p].by # Gateway /\ air \in Air /\ Sound(air) /\ \A q \in DOMAIN air.pubs : Carried(air, q)
  BY DEF SendFragment, FragmentsInv, Sound
<1>2. a \in Air /\ SameElse(air, a) /\ Moves(air, a, p)
  BY <1>1, AiredMoves
<1>3. air' = [a EXCEPT !.uplink = U]
  BY DEF SendFragment
<1> HIDE DEF a
<1>4. f = FragmentIn(air, p, air.pubs[p].next)
  BY DEF FragmentOf, FragmentIn
<1>5. f \in Frames
  <2>1. /\ air.pubs[p].by \in Everyone /\ air.pubs[p].cid \in Nat /\ air.pubs[p].id \in Nat
        /\ air.pubs[p].total \in Nat /\ air.pubs[p].next \in Nat \ {0} /\ p \in Nat
    BY <1>1, PubIs
  <2>2. air.pubs[p].by \in Senders /\ air.pubs[p].next - 1 \in Nat /\ <<p, air.pubs[p].next>> \in Nat \X Nat
    BY <1>1, <2>1 DEF Everyone
  <2> QED BY <2>1, <2>2 DEF FragmentOf, Frames
<1> HIDE DEF f
<1>6. U \in Seq(Frames)
  <2>1. a.uplink \in Seq(Frames)
    BY <1>2 DEF Air
  <2> QED BY <1>5, <2>1
<1>7. U = Append(air.uplink, f)
  BY <1>2 DEF SameElse
<1> HIDE DEF U
<1>8. /\ air' \in Air /\ air'.pubs = a.pubs /\ air'.uplink = U /\ air'.session = a.session /\ air'.joined = a.joined
      /\ air'.delivered = a.delivered /\ air'.slots = a.slots /\ air'.partial = a.partial
  BY <1>2, <1>3, <1>6 DEF Air
<1>9. Moves(air, air', p)
  BY <1>2, <1>8 DEF Moves, PubsGrow
<1>10. SentUp(air, air', p)
  BY <1>1, <1>2, <1>4, <1>7, <1>8, <1>9 DEF SentUp, SameElse
<1>11. Sound(air')
  BY <1>1, <1>8, <1>10, SentUpSound
<1>12. \A q \in DOMAIN air.pubs : Carried(air', q)
  BY <1>1, <1>8, <1>10, SentUpCarried
<1>13. DOMAIN air'.pubs = DOMAIN air.pubs
  BY <1>9 DEF Moves
<1> QED BY <1>11, <1>12, <1>13 DEF FragmentsInv

-------------------------------------------------------------------------------
(* What a frame of p does to the tables.                                        *)

\* p was of late in the queue, or in the hands of its task.
Fresh(a, p) ==
    \A q \in DOMAIN a.pubs :
        p < q /\ Key(a, p) = Key(a, q) => a.pubs[q].reused /\ ~a.pubs[p].fine /\ ~a.pubs[q].fine

\* The tables have been changed for a frame of p.
LEMMA ChangedSound ==
    ASSUME NEW a, Sound(a), NEW b \in Air, NEW p, Fresh(a, p), b.pubs = a.pubs, b.uplink = a.uplink,
           SlotsOK(b), PartialsOK(b), DeliveredOK(b), OpenersOnce(b), SlotKeys(b),
           \A i \in Held(b) : \A q \in Within(b.slots[i]) : q = p \/ (i \in Held(a) /\ q \in Within(a.slots[i])),
           \A s \in Senders : \A q \in Within(b.partial[s]) :
              b.partial[s] = a.partial[s] \/ q = p \/ (q \in Within(a.partial[s]) /\ ~a.partial[s].old)
    PROVE  Sound(b)
<1>1. a \in Air /\ PubsOK(a) /\ FramesOK(a) /\ InOrder(a) /\ KeysOK(a) /\ OneSending(a)
  BY DEF Sound
<1>2. PubsOK(b) /\ OneSending(b)
  BY <1>1 DEF PubsOK, OneSending, InProgress
<1>3. FramesOK(b) /\ InOrder(b)
  BY <1>1 DEF FramesOK, FrameOK, FragmentIn, InOrder
<1>4. KeysOK(b)
  <2> SUFFICES ASSUME NEW q \in DOMAIN a.pubs, NEW r \in DOMAIN a.pubs, q < r, Key(a, q) = Key(a, r)
               PROVE  \/ a.pubs[r].reused /\ ~a.pubs[q].fine /\ ~a.pubs[r].fine
                      \/ Dead(b, q)
    BY DEF KeysOK, Key
  <2>1. CASE q = p
    BY <2>1 DEF Fresh
  <2>2. CASE Dead(a, q) /\ q # p
    <3>1. ~InProgress(b, q) /\ ~InUplink(b, q)
      BY <2>2 DEF Dead, InProgress, InUplink
    <3>2. \A i \in Held(b) : q \notin Within(b.slots[i])
      BY <2>2 DEF Dead
    <3>3. \A s \in Senders : q \in Within(b.partial[s]) => b.partial[s].old
      BY <2>2 DEF Dead
    <3> QED BY <3>1, <3>2, <3>3 DEF Dead
  <2> QED BY <1>1, <2>1, <2>2 DEF KeysOK
<1> QED BY <1>2, <1>3, <1>4 DEF Sound

\* A message none of whose slots was touched is carried as before.
LEMMA CarriedKept ==
    ASSUME NEW a \in Air, NEW b \in Air, NEW q \in DOMAIN a.pubs, Carried(a, q), b.pubs = a.pubs,
           b.uplink = a.uplink, b.session = a.session, b.joined = a.joined,
           \A x \in DOMAIN a.delivered : x \in DOMAIN b.delivered /\ b.delivered[x] = a.delivered[x],
           a.pubs[q].fine /\ a.pubs[q].by # Gateway =>
              \A i \in Held(a), k \in Nat \ {0} :
                 a.session[a.pubs[q].by] = a.pubs[q].cid /\ a.slots[i] = Part(a, q, k) => b.slots[i] = a.slots[i],
           a.pubs[q].fine /\ a.pubs[q].by = Gateway /\ 1 < a.pubs[q].next /\ a.pubs[q].next <= a.pubs[q].total
              /\ a.partial[a.pubs[q].to] = Part(a, q, a.pubs[q].next - 1)
              => b.partial[a.pubs[q].to] = a.partial[a.pubs[q].to]
    PROVE  Carried(b, q)
<1> SUFFICES ASSUME a.pubs[q].fine
             PROVE  IF a.pubs[q].by = Gateway THEN CarriedDown(b, q) ELSE CarriedUp(b, q)
  BY DEF Carried
<1>1. \A k : Part(b, q, k) = Part(a, q, k)
  BY DEF Part
<1>2. CASE a.pubs[q].by = Gateway
  <2>1. CarriedDown(a, q)
    BY <1>2 DEF Carried
  <2>2. CarriedDown(b, q)
    BY <1>1, <1>2, <2>1 DEF CarriedDown
  <2> QED BY <1>2, <2>2
<1>3. CASE a.pubs[q].by # Gateway
  <2>1. CarriedUp(a, q) /\ a.pubs[q].next \in Nat
    BY <1>3, PubIs DEF Carried
  <2>2. PICK k \in 0 .. a.pubs[q].next - 1 : Consumed(a, q, k)
    BY <2>1 DEF CarriedUp
  <2>3. ASSUME 1 <= k, k < a.pubs[q].total
        PROVE  \E i \in Held(b) : b.slots[i] = Part(b, q, k)
    <3>1. k \in Nat \ {0} /\ a.session[a.pubs[q].by] = a.pubs[q].cid
      BY <2>1, <2>2, <2>3 DEF Consumed
    <3>2. PICK i \in Held(a) : a.slots[i] = Part(a, q, k)
      BY <2>2, <2>3 DEF Consumed
    <3>3. b.slots[i] = a.slots[i]
      BY <1>3, <3>1, <3>2
    <3>4. i \in Held(b)
      BY <3>3, HeldIs
    <3> QED BY <1>1, <3>2, <3>3, <3>4
  <2>6. /\ k >= 1 => b.session[b.pubs[q].by] = b.pubs[q].cid
        /\ \A l \in DOMAIN b.uplink : b.uplink[l].data[1] = q => b.uplink[l].data[2] > k
        /\ \A j \in k + 1 .. b.pubs[q].next - 1 : \E l \in DOMAIN b.uplink : b.uplink[l].data = <<q, j>>
    BY <2>2 DEF Consumed
  <2>7. k = b.pubs[q].total => \E i \in DOMAIN b.delivered : b.delivered[i] = Upto(q, k)
    BY <2>2 DEF Consumed
  <2>8. 1 <= k /\ k < b.pubs[q].total => \E i \in Held(b) : b.slots[i] = Part(b, q, k)
    BY <2>3
  <2>4. Consumed(b, q, k)
    BY <2>6, <2>7, <2>8 DEF Consumed
  <2>5. CarriedUp(b, q)
    BY <2>1, <2>2, <2>4 DEF CarriedUp
  <2> QED BY <1>3, <2>5
<1> QED BY <1>2, <1>3

\* The j-th frame of p has just left the queue, and its session is the one there is.
Arrived(a, p, j) ==
    /\ Sound(a) /\ p \in DOMAIN a.pubs /\ j \in 1 .. a.pubs[p].total
    /\ a.pubs[p].by # Gateway /\ j < a.pubs[p].next
    /\ Fresh(a, p) /\ a.session[a.pubs[p].by] = a.pubs[p].cid
    /\ \A l \in DOMAIN a.uplink : a.uplink[l].data[1] = p => a.uplink[l].data[2] > j
    /\ \A i \in Held(a) : a.slots[i].data[1] # <<p, j>>
    /\ \A i \in DOMAIN a.delivered : a.delivered[i][1] # <<p, j>>
    /\ \A q \in DOMAIN a.pubs : q # p => Carried(a, q)
    /\ a.pubs[p].fine =>
          /\ a.joined[a.pubs[p].by] = a.pubs[p].cid
          /\ \A i \in j + 1 .. a.pubs[p].next - 1 : \E l \in DOMAIN a.uplink : a.uplink[l].data = <<p, i>>
          /\ j > 1 => \E i \in Held(a) : a.slots[i] = Part(a, p, j - 1)

\* A publication that was not dead is fresh: what shares its key is spoiled.
LEMMA FreshIs ==
    ASSUME NEW a, Sound(a), NEW p \in DOMAIN a.pubs, ~Dead(a, p), NEW b, PubsGrow(a, b), DOMAIN b.pubs = DOMAIN a.pubs
    PROVE  Fresh(b, p)
<1>1. a \in Air /\ KeysOK(a)
  BY DEF Sound
<1>2. \A q \in DOMAIN a.pubs : Key(b, q) = Key(a, q)
  BY DEF PubsGrow, Key
<1>3. \A q \in DOMAIN a.pubs : p < q /\ Key(a, p) = Key(a, q) => a.pubs[q].reused /\ ~a.pubs[p].fine /\ ~a.pubs[q].fine
  BY <1>1 DEF KeysOK
<1> QED BY <1>2, <1>3 DEF Fresh, PubsGrow

\* A fine publication is consumed in the order of its frames.
LEMMA HeadIsNext ==
    ASSUME NEW a, Sound(a), a.uplink # <<>>, NEW p \in DOMAIN a.pubs, NEW j \in Nat, a.uplink[1].data = <<p, j>>,
           a.uplink[1].total # 0, j < a.pubs[p].next, NEW k \in Nat, Consumed(a, p, k)
    PROVE  j = k + 1
<1>1. a \in Air /\ InOrder(a) /\ 1 \in DOMAIN a.uplink
  BY PoppedIs DEF Sound
<1>2. j > k
  BY <1>1 DEF Consumed
<1>3. CASE k + 1 < j
  <2>1. k + 1 \in k + 1 .. a.pubs[p].next - 1
    BY <1>1, <1>3, PubIs
  <2>2. PICK l \in DOMAIN a.uplink : a.uplink[l].data = <<p, k + 1>>
    BY <2>1 DEF Consumed
  <2>3. l # 1 /\ l \in Nat \ {0}
    BY <1>1, <1>3, <2>2, FrameIs
  <2>4. a.uplink[1].data[2] < a.uplink[l].data[2]
    BY <1>1, <2>2, <2>3 DEF InOrder
  <2> QED BY <1>3, <2>2, <2>4
<1> QED BY <1>2, <1>3

\* The frame at the head of the queue is the next fragment of a publication, and it is
\* not dead.
LEMMA ArrivedIs ==
    ASSUME FragmentsInv, air.uplink # <<>>, NEW f, f = Head(air.uplink), f.total # 0, air.session[f.from] = f.cid
    PROVE  \E p \in DOMAIN air.pubs : \E j \in 1 .. air.pubs[p].total :
              f = FragmentIn(Popped(air), p, j) /\ Arrived(Popped(air), p, j)
<1> DEFINE a == Popped(air)
<1>1. air \in Air /\ PubsOK(air) /\ Sound(air) /\ FramesOK(air) /\ InOrder(air) /\ OpenersOnce(air)
  BY DEF FragmentsInv, Sound
<1>2. /\ a \in Air /\ a.uplink = Tail(air.uplink) /\ 1 \in DOMAIN air.uplink
      /\ a.pubs = air.pubs /\ a.session = air.session /\ a.joined = air.joined
      /\ a.delivered = air.delivered /\ a.slots = air.slots /\ a.partial = air.partial
      /\ f = air.uplink[1] /\ f \in Frames
  BY <1>1, PoppedIs
<1>3. /\ \A l \in DOMAIN air.uplink : l # 1 => \E m \in DOMAIN a.uplink : l = m + 1 /\ a.uplink[m] = air.uplink[l]
      /\ \A m \in DOMAIN a.uplink : m \in Nat \ {0} /\ m + 1 \in DOMAIN air.uplink /\ a.uplink[m] = air.uplink[m + 1]
  BY <1>1, PoppedIs
<1>4. Sound(a)
  BY <1>1, PoppedSound
<1> HIDE DEF a
<1>5. PICK p \in DOMAIN air.pubs : \E j \in 1 .. air.pubs[p].total :
          air.pubs[p].by # Gateway /\ j < air.pubs[p].next /\ f = FragmentIn(air, p, j)
  BY <1>1, <1>2 DEF FramesOK, FrameOK
<1>6. PICK j \in 1 .. air.pubs[p].total :
          air.pubs[p].by # Gateway /\ j < air.pubs[p].next /\ f = FragmentIn(air, p, j)
  BY <1>5
<1>7. f = FragmentIn(a, p, j)
  BY <1>2, <1>6 DEF FragmentIn
<1>8. f.data = <<p, j>> /\ f.data[1] = p /\ f.data[2] = j /\ f.from = air.pubs[p].by /\ f.cid = air.pubs[p].cid /\ j \in Nat
  BY <1>6 DEF FragmentIn
<1>9. Fresh(a, p)
  <2>1. ~Dead(air, p)
    BY <1>2, <1>8 DEF Dead, InUplink
  <2>2. PubsGrow(air, a) /\ DOMAIN a.pubs = DOMAIN air.pubs
    <3>1. \A q \in DOMAIN air.pubs : air.pubs[q].next \in Nat
      BY <1>1, PubIs
    <3> QED BY <1>2, <3>1 DEF PubsGrow
  <2> QED BY <1>1, <2>1, <2>2, FreshIs
<1>10. \A l \in DOMAIN a.uplink : a.uplink[l].data[1] = p => a.uplink[l].data[2] > j
  <2> SUFFICES ASSUME NEW l \in DOMAIN a.uplink, a.uplink[l].data[1] = p PROVE a.uplink[l].data[2] > j
    OBVIOUS
  <2>1. l + 1 \in DOMAIN air.uplink /\ a.uplink[l] = air.uplink[l + 1] /\ 1 < l + 1
    BY <1>3
  <2>2. air.uplink[1].data[2] < air.uplink[l + 1].data[2]
    BY <1>1, <1>2, <1>8, <2>1 DEF InOrder
  <2>3. air.uplink[l + 1].data[2] \in Nat
    BY <1>1, <2>1, FrameIs
  <2> QED BY <1>2, <1>8, <2>1, <2>2, <2>3
<1>11. /\ \A i \in Held(a) : a.slots[i].data[1] # <<p, j>>
       /\ \A i \in DOMAIN a.delivered : a.delivered[i][1] # <<p, j>>
  <2>1. \A i \in Held(air) : air.uplink[1].data # air.slots[i].data[1]
    BY <1>1, <1>2 DEF OpenersOnce
  <2>2. \A i \in DOMAIN air.delivered : air.uplink[1].data # air.delivered[i][1]
    BY <1>1, <1>2 DEF OpenersOnce
  <2> QED BY <1>2, <1>8, <2>1, <2>2 DEF Held
<1>12. \A q \in DOMAIN air.pubs : q # p => Carried(a, q)
  <2> SUFFICES ASSUME NEW q \in DOMAIN air.pubs, q # p PROVE Carried(a, q)
    OBVIOUS
  <2>1. Spoils(air, a, {})
    <3>1. Spoils(air, air, {})
      BY <1>1, SpoilsNone
    <3> QED BY <1>2, <3>1 DEF Spoils
  <2>2. PartsFade(air, a) /\ UplinkFades(air, a)
    BY <1>2, FadedSelf DEF PartsFade, UplinkFades, Held
  <2>3. Fades(air, a)
    BY <1>1, <1>2, <2>1, <2>2, SpoiledFades
  <2>4. \A l \in DOMAIN air.uplink : air.uplink[l].data[1] = q =>
            \E m \in DOMAIN a.uplink : a.uplink[m].data = air.uplink[l].data
    <3> SUFFICES ASSUME NEW l \in DOMAIN air.uplink, air.uplink[l].data[1] = q
                 PROVE  \E m \in DOMAIN a.uplink : a.uplink[m].data = air.uplink[l].data
      OBVIOUS
    <3>1. l # 1
      BY <1>2, <1>8, <2>4
    <3>2. PICK m \in DOMAIN a.uplink : l = m + 1 /\ a.uplink[m] = air.uplink[l]
      BY <1>3, <3>1
    <3> QED BY <3>2
  <2>5. FadesFor(air, a, q)
    BY <1>2, <2>4 DEF FadesFor
  <2>6. Carried(air, q)
    BY DEF FragmentsInv
  <2> QED BY <1>1, <1>2, <2>3, <2>5, <2>6, FadeCarried
<1>13. ASSUME a.pubs[p].fine
       PROVE  /\ a.joined[a.pubs[p].by] = a.pubs[p].cid
              /\ \A i \in j + 1 .. a.pubs[p].next - 1 : \E l \in DOMAIN a.uplink : a.uplink[l].data = <<p, i>>
              /\ j > 1 => \E i \in Held(a) : a.slots[i] = Part(a, p, j - 1)
  <2>1. CarriedUp(air, p)
    BY <1>2, <1>6, <1>13 DEF FragmentsInv, Carried
  <2>2. PICK k \in 0 .. air.pubs[p].next - 1 : Consumed(air, p, k)
    BY <2>1 DEF CarriedUp
  <2>3. k \in Nat
    BY <1>1, <2>2, PubIs
  <2>4. j = k + 1
    BY <1>1, <1>2, <1>6, <1>8, <2>2, <2>3, HeadIsNext
  <2>5. \A i \in j + 1 .. a.pubs[p].next - 1 : \E l \in DOMAIN a.uplink : a.uplink[l].data = <<p, i>>
    <3> TAKE i \in j + 1 .. a.pubs[p].next - 1
    <3>1. i \in k + 1 .. air.pubs[p].next - 1 /\ i # j
      BY <1>1, <1>2, <1>8, <2>3, <2>4, PubIs
    <3>2. PICK l \in DOMAIN air.uplink : air.uplink[l].data = <<p, i>>
      BY <2>2, <3>1 DEF Consumed
    <3>3. l # 1
      BY <1>2, <1>8, <3>1, <3>2
    <3>4. PICK m \in DOMAIN a.uplink : l = m + 1 /\ a.uplink[m] = air.uplink[l]
      BY <1>3, <3>3
    <3> QED BY <3>2, <3>4
  <2>6. ASSUME j > 1 PROVE \E i \in Held(a) : a.slots[i] = Part(a, p, j - 1)
    <3>1. j - 1 = k /\ 1 <= k /\ k < air.pubs[p].total
      <4>1. air.pubs[p].total \in Nat /\ j \in Nat /\ j <= air.pubs[p].total
        BY <1>1, <1>6, PubIs
      <4> QED BY <2>3, <2>4, <2>6, <4>1
    <3>2. PICK i \in Held(air) : air.slots[i] = Part(air, p, k)
      BY <2>2, <3>1 DEF Consumed
    <3>3. Part(a, p, k) = Part(air, p, k) /\ Held(a) = Held(air)
      BY <1>2 DEF Part, Held
    <3> QED BY <1>2, <3>1, <3>2, <3>3
  <2> QED BY <1>2, <2>1, <2>5, <2>6 DEF CarriedUp
<1>14. a.session[a.pubs[p].by] = a.pubs[p].cid
  BY <1>2, <1>8, Zenon
<1>15. Arrived(a, p, j)
  BY <1>2, <1>4, <1>6, <1>9, <1>10, <1>11, <1>12, <1>13, <1>14, Zenon DEF Arrived
<1> QED BY <1>6, <1>7, <1>15 DEF a

\* Two publications of one key, one that waits in part and one whose frame has come.
LEMMA SameKey ==
    ASSUME NEW a, Sound(a), NEW p \in DOMAIN a.pubs, Fresh(a, p), NEW q \in DOMAIN a.pubs, q # p,
           Key(a, q) = Key(a, p), ~Dead(a, q)
    PROVE  ~a.pubs[q].fine /\ ~a.pubs[p].fine /\ (a.pubs[p].reused \/ a.pubs[q].reused)
<1>1. a \in Air /\ KeysOK(a) /\ p \in Nat /\ q \in Nat
  BY PubIs DEF Sound
<1>2. CASE q < p
  BY <1>1, <1>2 DEF KeysOK
<1>3. CASE p < q
  BY <1>3 DEF Fresh
<1> QED BY <1>1, <1>2, <1>3

\* A partial message that a frame goes on with.
Goes(a, x, p, j) ==
    /\ x \in Part_ /\ PartOK(a, x) /\ p \in DOMAIN a.pubs /\ j \in 1 .. a.pubs[p].total
    /\ x.next = j - 1 /\ Key(a, p) = <<x.from, x.cid, x.id>>
    /\ \A q \in Within(x) : q # p => a.pubs[p].reused \/ a.pubs[q].reused

More(x, p, j) == Append(x.data, <<p, j>>)

\* What a partial message becomes with the frame it waited for (Consume's memcpy).
LEMMA GoesOn ==
    ASSUME NEW a \in Air, NEW x \in Part_, NEW p \in DOMAIN a.pubs, NEW j \in Nat, Goes(a, x, p, j)
    PROVE  /\ More(x, p, j) \in Seq(Nat \X Nat) /\ Len(More(x, p, j)) = j
           /\ More(x, p, j)[1] = x.data[1] /\ 1 \in DOMAIN x.data
           /\ Tokens(a, More(x, p, j)) /\ Opens(a, More(x, p, j))
           /\ Tainted(a, More(x, p, j)) \/ (More(x, p, j) = Upto(p, j) /\ x.total = a.pubs[p].total)
           /\ x = Part(a, p, j - 1) => More(x, p, j) = Upto(p, j)
           /\ \A k \in DOMAIN More(x, p, j) : More(x, p, j)[k][1] = p \/ More(x, p, j)[k][1] \in Within(x)
           /\ \A k \in DOMAIN More(x, p, j) : Key(a, More(x, p, j)[k][1]) = <<x.from, x.cid, x.id>>
<1> DEFINE d == More(x, p, j)
<1>0. d = Append(x.data, <<p, j>>)
  BY DEF More
<1> HIDE DEF d
<1>1. /\ x \in Part_ /\ PartOK(a, x) /\ p \in DOMAIN a.pubs /\ j \in Nat \ {0} /\ p \in Nat
      /\ x.data \in Seq(Nat \X Nat) /\ Tokens(a, x.data) /\ Opens(a, x.data) /\ Len(x.data) = j - 1
      /\ x.next = j - 1
  BY PubIs DEF Goes, PartOK, Part_
<1>2. <<p, j>> \in Nat \X Nat
  BY <1>1
<1>3. /\ d \in Seq(Nat \X Nat) /\ Len(d) = j /\ DOMAIN d = 1 .. j /\ d[j] = <<p, j>>
      /\ DOMAIN x.data = 1 .. j - 1 /\ \A k \in 1 .. j - 1 : d[k] = x.data[k]
  BY <1>0, <1>1, <1>2, AppendProperties
<1>4. 1 \in DOMAIN x.data /\ d[1] = x.data[1]
  <2>1. 1 \in DOMAIN x.data
    BY <1>1, GrowKeepsTokens, OpensAt
  <2> QED BY <1>3, <2>1
<1>5. \A k \in DOMAIN d : (k \in DOMAIN x.data /\ d[k] = x.data[k]) \/ d[k] = <<p, j>>
  <2>1. SUFFICES ASSUME NEW k \in 1 .. j
                 PROVE  (k \in DOMAIN x.data /\ d[k] = x.data[k]) \/ d[k] = <<p, j>>
    BY <1>3
  <2>2. CASE k = j
    BY <1>3, <2>2
  <2>3. CASE k # j
    <3>1. j \in Nat
      BY <1>1
    <3>2. k \in 1 .. j - 1
      BY <2>3, <3>1
    <3> QED BY <1>3, <3>2
  <2> QED BY <2>2, <2>3
<1>6. Tokens(a, d)
  <2>1. d # <<>>
    BY <1>1, <1>3
  <2> QED BY <1>1, <1>5, <2>1 DEF Tokens
<1>7. Opens(a, d)
  BY <1>1, <1>4 DEF Opens
<1>8. \A k \in DOMAIN d : d[k][1] = p \/ d[k][1] \in Within(x)
  <2> TAKE k \in DOMAIN d
  <2>1. CASE k \in DOMAIN x.data /\ d[k] = x.data[k]
    <3>1. x.data[k][1] \in Within(x)
      BY <2>1, WithinIs, Zenon
    <3> QED BY <2>1, <3>1, Zenon
  <2>2. CASE d[k] = <<p, j>>
    BY <2>2
  <2> QED BY <1>5, <2>1, <2>2, Zenon
<1>9. \A k \in DOMAIN d : Key(a, d[k][1]) = <<x.from, x.cid, x.id>>
  <2>1. PartOK(a, x) /\ Key(a, p) = <<x.from, x.cid, x.id>>
    BY Zenon DEF Goes
  <2> HIDE DEF d
  <2> TAKE k \in DOMAIN d
  <2>2. CASE k \in DOMAIN x.data /\ d[k] = x.data[k]
    <3>1. Key(a, x.data[k][1]) = <<x.from, x.cid, x.id>>
      BY <2>1, <2>2, Zenon DEF PartOK
    <3> QED BY <2>2, <3>1, Zenon
  <2>3. CASE d[k] = <<p, j>>
    <3>1. d[k][1] = p
      BY <2>3
    <3> QED BY <2>1, <3>1, Zenon
  <2> QED BY <1>5, <2>2, <2>3, Zenon
<1>10. Tainted(a, d) \/ (d = Upto(p, j) /\ x.total = a.pubs[p].total)
  <2>1. CASE Tainted(a, x.data)
    <3>1. 1 .. j - 1 \subseteq 1 .. j
      BY <1>1
    <3>2. DOMAIN x.data \subseteq DOMAIN d /\ \A k \in DOMAIN x.data : d[k] = x.data[k]
      BY <1>3, <3>1
    <3> QED BY <2>1, <3>2 DEF Tainted
  <2>2. ASSUME NEW q \in DOMAIN a.pubs, x.data = Upto(q, j - 1), a.pubs[q].total = x.total
        PROVE  Tainted(a, d) \/ (d = Upto(p, j) /\ x.total = a.pubs[p].total)
    <3>1. x.data[1] = <<q, 1>>
      <4>1. q \in Nat /\ j - 1 \in Nat /\ j - 1 > 0
        BY <1>1, <1>3, <1>4, PubIs
      <4> QED BY <2>2, <4>1, UptoGrows
    <3>2. CASE q = p
      <4>1. j - 1 \in Nat /\ (j - 1) + 1 = j
        BY <1>1
      <4>2. Append(Upto(p, j - 1), <<p, (j - 1) + 1>>) = Upto(p, (j - 1) + 1)
        BY <1>1, <4>1, UptoGrows
      <4> QED BY <1>0, <2>2, <3>2, <4>1, <4>2
    <3>3. CASE q # p
      <4>1. q \in Within(x)
        BY <1>1, <1>4, <3>1, WithinIs
      <4>2. a.pubs[p].reused \/ a.pubs[q].reused
        BY <3>3, <4>1 DEF Goes
      <4>3. d[1][1] = q /\ 1 \in DOMAIN d /\ d[j][1] = p /\ j \in DOMAIN d
        BY <1>1, <1>3, <1>4, <3>1
      <4> QED BY <4>2, <4>3 DEF Tainted
    <3> QED BY <3>2, <3>3
  <2> QED BY <1>1, <2>1, <2>2 DEF PartOK
<1>11. x = Part(a, p, j - 1) => d = Upto(p, j)
  <2>1. j - 1 \in Nat /\ (j - 1) + 1 = j
    BY <1>1
  <2>2. Append(Upto(p, j - 1), <<p, (j - 1) + 1>>) = Upto(p, (j - 1) + 1)
    BY <1>1, <2>1, UptoGrows
  <2>3. Part(a, p, j - 1).data = Upto(p, j - 1)
    BY DEF Part
  <2> QED BY <1>0, <2>1, <2>2, <2>3
<1> QED BY <1>3, <1>4, <1>6, <1>7, <1>8, <1>9, <1>10, <1>11 DEF d

AnyFrames == [from : Everyone, cid : Nat, id : Nat, index : Nat, total : Nat, data : Nat \X Nat]

\* A partial message that goes on is sound.
LEMMA ExtendedIs ==
    ASSUME NEW a \in Air, NEW x \in Part_, NEW p \in DOMAIN a.pubs, NEW j \in Nat, Goes(a, x, p, j), j < x.total,
           NEW f \in AnyFrames, f.data = <<p, j>>
    PROVE  /\ Extended(x, f) \in Part_ /\ PartOK(a, Extended(x, f))
           /\ Extended(x, f).from = x.from /\ Extended(x, f).cid = x.cid /\ Extended(x, f).id = x.id
           /\ Extended(x, f).data = More(x, p, j) /\ Extended(x, f).data[1] = x.data[1]
           /\ \A q \in Within(Extended(x, f)) : q = p \/ q \in Within(x)
           /\ x = Part(a, p, j - 1) => Extended(x, f) = Part(a, p, j)
<1> DEFINE y == Extended(x, f)
           d == More(x, p, j)
<1>1. x \in Part_ /\ PartOK(a, x) /\ p \in DOMAIN a.pubs /\ j \in Nat \ {0} /\ x.next = j - 1
  BY PubIs DEF Goes
<1>2. d \in Seq(Nat \X Nat) /\ Len(d) = j /\ d[1] = x.data[1]
  BY GoesOn
<1>3. /\ Tokens(a, d) /\ Opens(a, d)
      /\ Tainted(a, d) \/ (d = Upto(p, j) /\ x.total = a.pubs[p].total)
      /\ \A k \in DOMAIN d : d[k][1] = p \/ d[k][1] \in Within(x)
      /\ \A k \in DOMAIN d : Key(a, d[k][1]) = <<x.from, x.cid, x.id>>
  BY GoesOn
<1>10. x = Part(a, p, j - 1) => d = Upto(p, j)
  BY GoesOn
<1>4. y = [x EXCEPT !.next = j, !.data = d]
  <2>1. x.next + 1 = j
    BY <1>1
  <2> QED BY <2>1 DEF Extended, More
<1> HIDE DEF d, y
<1>5. /\ y \in Part_ /\ y.from = x.from /\ y.cid = x.cid /\ y.id = x.id /\ y.data = d /\ y.next = j /\ y.total = x.total
      /\ y.old = x.old
  BY <1>1, <1>2, <1>4 DEF Part_
<1>6. PartOK(a, y)
  BY <1>1, <1>2, <1>3, <1>5 DEF PartOK
<1>7. \A q \in Within(y) : q = p \/ q \in Within(x)
  BY <1>3, <1>5, WithinIs
<1>8. ASSUME x = Part(a, p, j - 1) PROVE y = Part(a, p, j)
  <2> DEFINE U == Upto(p, j - 1)
             V == Upto(p, j)
  <2>1. x = [from |-> a.pubs[p].by, cid |-> a.pubs[p].cid, id |-> a.pubs[p].id, next |-> j - 1,
             total |-> a.pubs[p].total, old |-> FALSE, data |-> U]
    BY <1>8 DEF Part
  <2>2. Part(a, p, j) = [from |-> a.pubs[p].by, cid |-> a.pubs[p].cid, id |-> a.pubs[p].id, next |-> j,
                         total |-> a.pubs[p].total, old |-> FALSE, data |-> V]
    BY DEF Part
  <2>3. d = V
    BY <1>8, <1>10
  <2> HIDE DEF U, V
  <2>4. y = [from |-> a.pubs[p].by, cid |-> a.pubs[p].cid, id |-> a.pubs[p].id, next |-> j,
             total |-> a.pubs[p].total, old |-> FALSE, data |-> V]
    BY <1>4, <2>1, <2>3
  <2> QED BY <2>2, <2>4
<1> QED BY <1>2, <1>5, <1>6, <1>7, <1>8 DEF y, d

\* A partial message is its fields.
LEMMA SamePart ==
    ASSUME NEW x \in Part_, NEW y \in Part_, x.from = y.from, x.cid = y.cid, x.id = y.id, x.next = y.next,
           x.total = y.total, x.old = y.old, x.data = y.data
    PROVE  x = y
<1> DEFINE fields == {"from", "cid", "id", "next", "total", "old", "data"}
<1>1. x = [f \in fields |-> x[f]] /\ y = [f \in fields |-> y[f]]
  BY DEF Part_
<1>2. \A f \in fields : x[f] = y[f]
  OBVIOUS
<1> QED BY <1>1, <1>2

\* The first frame of a message.
LEMMA BegunIs ==
    ASSUME NEW a \in Air, NEW p \in DOMAIN a.pubs, 1 < a.pubs[p].next, 1 < a.pubs[p].total,
           NEW f, f = FragmentIn(a, p, 1)
    PROVE  /\ Extended(Begun(f), f) = Part(a, p, 1) /\ Part(a, p, 1) \in Part_ /\ PartOK(a, Part(a, p, 1))
           /\ Part(a, p, 1).data[1] = <<p, 1>> /\ \A q \in Within(Part(a, p, 1)) : q = p
<1>1. p \in Nat /\ <<<<p, 1>>>> = Upto(p, 1) /\ Upto(p, 1) \in Seq(Nat \X Nat) /\ Len(Upto(p, 1)) = 1
  <2>1. p \in Nat
    BY PubIs
  <2>2. <<<<p, 1>>>> = Upto(p, 1)
    BY <2>1, UptoGrows
  <2>3. Upto(p, 1) \in Seq(Nat \X Nat) /\ Len(Upto(p, 1)) = 1
    BY <2>1, UptoGrows
  <2> QED BY <2>1, <2>2, <2>3
<1>2. f.data = <<p, 1>> /\ Append(<<>>, <<p, 1>>) = <<<<p, 1>>>>
  BY DEF FragmentIn
<1>3. Begun(f) = [from |-> a.pubs[p].by, cid |-> a.pubs[p].cid, id |-> a.pubs[p].id, next |-> 0,
                  total |-> a.pubs[p].total, old |-> FALSE, data |-> <<>>]
  BY DEF Begun, FragmentIn
<1>4. Extended(Begun(f), f) = Part(a, p, 1)
  <2> DEFINE U == Upto(p, 1)
             z == Begun(f)
             y == Extended(z, f)
             E == <<>>
  <2>1. z.next = 0 /\ z.data = <<>>
    BY <1>3
  <2>2. z.next + 1 = 1
    BY <2>1
  <2>3. Append(z.data, f.data) = U /\ U \in Seq(Nat \X Nat)
    BY <1>1, <1>2, <2>1
  <2>4. z = [from |-> a.pubs[p].by, cid |-> a.pubs[p].cid, id |-> a.pubs[p].id, next |-> 0,
             total |-> a.pubs[p].total, old |-> FALSE, data |-> E]
    BY <1>3
  <2>5. y = [z EXCEPT !.next = 1, !.data = U]
    BY <2>2, <2>3 DEF Extended
  <2>6. Part(a, p, 1) = [from |-> a.pubs[p].by, cid |-> a.pubs[p].cid, id |-> a.pubs[p].id, next |-> 1,
                         total |-> a.pubs[p].total, old |-> FALSE, data |-> U]
    BY DEF Part
  <2>7. E \in Seq(Nat \X Nat)
    OBVIOUS
  <2>8. /\ a.pubs[p].by \in Everyone /\ a.pubs[p].cid \in Nat \ {0} /\ a.pubs[p].id \in Nat
        /\ a.pubs[p].total \in Nat
    BY PubIs
  <2>9. Part(a, p, 1) \in Part_
    BY PartIs
  <2> HIDE DEF U, z, y, E
  <2>10. z \in Part_
    BY <2>4, <2>7, <2>8 DEF Part_
  <2>11. /\ y \in Part_ /\ y.from = z.from /\ y.cid = z.cid /\ y.id = z.id /\ y.next = 1 /\ y.total = z.total
         /\ y.old = z.old /\ y.data = U
    BY <2>3, <2>5, <2>10 DEF Part_
  <2>12. z.from = a.pubs[p].by /\ z.cid = a.pubs[p].cid /\ z.id = a.pubs[p].id /\ z.total = a.pubs[p].total /\ z.old = FALSE
    BY <2>4
  <2>13. y = Part(a, p, 1)
    BY <2>6, <2>9, <2>11, <2>12, SamePart
  <2> QED BY <2>13 DEF y, z
<1>5. Part(a, p, 1) \in Part_
  BY PartIs
<1>6. /\ Part(a, p, 1).data = Upto(p, 1) /\ Part(a, p, 1).next = 1 /\ Part(a, p, 1).total = a.pubs[p].total
      /\ Part(a, p, 1).from = a.pubs[p].by /\ Part(a, p, 1).cid = a.pubs[p].cid /\ Part(a, p, 1).id = a.pubs[p].id
  BY DEF Part
<1>7. DOMAIN Upto(p, 1) = {1} /\ Upto(p, 1)[1] = <<p, 1>> /\ Upto(p, 1) # <<>>
  BY <1>1
<1>8. Tokens(a, Upto(p, 1)) /\ Opens(a, Upto(p, 1))
  BY <1>7 DEF Tokens, Opens
<1>9. PartOK(a, Part(a, p, 1))
  <2> DEFINE x == Part(a, p, 1)
  <2>1. Tokens(a, x.data) /\ Opens(a, x.data) /\ x.next = Len(x.data) /\ x.next < x.total
    BY <1>1, <1>6, <1>8
  <2>2. \A k \in DOMAIN x.data : Key(a, x.data[k][1]) = <<x.from, x.cid, x.id>>
    <3>1. \A k \in DOMAIN x.data : x.data[k][1] = p
      BY <1>6, <1>7
    <3>2. Key(a, p) = <<x.from, x.cid, x.id>>
      BY <1>6 DEF Key
    <3> QED BY <3>1, <3>2
  <2>3. x.data = Upto(p, x.next) /\ a.pubs[p].total = x.total
    BY <1>6
  <2> HIDE DEF x
  <2> QED BY <2>1, <2>2, <2>3 DEF PartOK, x
<1>10. \A q \in Within(Part(a, p, 1)) : q = p
  BY <1>5, <1>6, <1>7, WithinIs
<1> QED BY <1>4, <1>5, <1>6, <1>7, <1>9, <1>10

\* A message in one frame, or in all of them.
LEMMA WholeIs ==
    ASSUME NEW a \in Air, NEW p \in DOMAIN a.pubs, 1 < a.pubs[p].next, a.pubs[p].total = 1
    PROVE  <<<<p, 1>>>> = Upto(p, 1) /\ Upto(p, 1) \in Seq(Nat \X Nat) /\ WholeOK(a, Upto(p, 1)) /\ Upto(p, 1)[1] = <<p, 1>>
<1>1. p \in Nat
  BY PubIs
<1>2. <<<<p, 1>>>> = Upto(p, 1) /\ Upto(p, 1) \in Seq(Nat \X Nat) /\ Len(Upto(p, 1)) = 1
  BY <1>1, UptoGrows
<1>3. DOMAIN Upto(p, 1) = {1} /\ Upto(p, 1)[1] = <<p, 1>> /\ Upto(p, 1) # <<>>
  BY <1>2
<1>4. WholeOK(a, Upto(p, 1))
  BY <1>3 DEF WholeOK, Tokens, Opens
<1> QED BY <1>2, <1>3, <1>4

\* A partial message that is complete is a sound message, and exactly its publication
\* if it was a part of it.
LEMMA FinishedIs ==
    ASSUME NEW a \in Air, NEW x \in Part_, NEW p \in DOMAIN a.pubs, NEW j \in Nat, Goes(a, x, p, j), j = x.total
    PROVE  /\ More(x, p, j) \in Seq(Nat \X Nat) /\ WholeOK(a, More(x, p, j)) /\ More(x, p, j)[1] = x.data[1]
           /\ x = Part(a, p, j - 1) => More(x, p, j) = Upto(p, j)
<1>1. /\ More(x, p, j) \in Seq(Nat \X Nat) /\ More(x, p, j)[1] = x.data[1]
      /\ Tokens(a, More(x, p, j)) /\ Opens(a, More(x, p, j))
      /\ Tainted(a, More(x, p, j)) \/ (More(x, p, j) = Upto(p, j) /\ x.total = a.pubs[p].total)
      /\ x = Part(a, p, j - 1) => More(x, p, j) = Upto(p, j)
  BY GoesOn
<1>2. WholeOK(a, More(x, p, j))
  BY <1>1 DEF WholeOK
<1> QED BY <1>1, <1>2

\* Publications, queue and sessions stay.
Tables(a, b) == b.pubs = a.pubs /\ b.uplink = a.uplink /\ b.session = a.session /\ b.joined = a.joined

\* In its table a, y begins as no other partial message and no delivered one does.
AloneAt(a, i, y) ==
    /\ \A k \in Held(a) : k # i => a.slots[k].data[1] # y.data[1]
    /\ \A k \in DOMAIN a.delivered : a.delivered[k][1] # y.data[1]
    /\ \A k \in DOMAIN a.uplink : a.uplink[k].data # y.data[1]
    /\ \A k \in Held(a) : k # i => ~(a.slots[k].from = y.from /\ a.slots[k].cid = y.cid /\ a.slots[k].id = y.id)

\* A slot that begins or goes on does no harm to what holds of every state.
LEMMA SlotChangedSound ==
    ASSUME NEW a, Sound(a), NEW b \in Air, NEW p, Fresh(a, p), NEW i \in 1 .. PartialSlots, NEW y \in Part_,
           Tables(a, b), b.delivered = a.delivered, b.partial = a.partial, b.slots = [a.slots EXCEPT ![i] = y],
           PartOK(a, y), y.from # Gateway, AloneAt(a, i, y),
           \A q \in Within(y) : q = p \/ (i \in Held(a) /\ q \in Within(a.slots[i]))
    PROVE  Sound(b)
<1>1. /\ a \in Air /\ SlotsOK(a) /\ PartialsOK(a) /\ DeliveredOK(a) /\ OpenersOnce(a) /\ SlotKeys(a)
      /\ b.pubs = a.pubs /\ b.uplink = a.uplink
  BY DEF Sound, Tables
<1>2. /\ \A k \in 1 .. PartialSlots : k # i => b.slots[k] = a.slots[k]
      /\ b.slots[i] = y /\ y # NoPartial
  BY <1>1, HeldIs DEF Air
<1>3. /\ \A k \in Held(b) : (k = i /\ b.slots[k] = y) \/ (k # i /\ k \in Held(a) /\ b.slots[k] = a.slots[k])
  BY <1>1, <1>2, HeldIs, Zenon
<1>4. \A x : PartOK(a, x) => PartOK(b, x)
  BY <1>1, Zenon DEF PartOK, Tokens, Opens, Key, Tainted
<1>5. SlotsOK(b)
  BY <1>1, <1>3, <1>4 DEF SlotsOK
<1>6. PartialsOK(b)
  BY <1>1, <1>4 DEF PartialsOK
<1>7. DeliveredOK(b)
  BY <1>1 DEF DeliveredOK, WholeOK, Tokens, Opens, Tainted
<1>8. OpenersOnce(b)
  <2>1. \A k, l \in Held(b) : b.slots[k].data[1] = b.slots[l].data[1] => k = l
    <3> SUFFICES ASSUME NEW k \in Held(b), NEW l \in Held(b), k # l PROVE b.slots[k].data[1] # b.slots[l].data[1]
      OBVIOUS
    <3>1. CASE k = i
      BY <1>3, <3>1 DEF AloneAt
    <3>2. CASE l = i
      BY <1>3, <3>2 DEF AloneAt
    <3>3. CASE k # i /\ l # i
      BY <1>1, <1>3, <3>3 DEF OpenersOnce
    <3> QED BY <3>1, <3>2, <3>3
  <2>2. \A k \in Held(b) : \A j \in DOMAIN b.delivered : b.slots[k].data[1] # b.delivered[j][1]
    BY <1>1, <1>3 DEF OpenersOnce, AloneAt
  <2>3. \A l \in DOMAIN b.uplink : \A k \in Held(b) : b.uplink[l].data # b.slots[k].data[1]
    BY <1>1, <1>3 DEF OpenersOnce, AloneAt
  <2> QED BY <1>1, <2>1, <2>2, <2>3 DEF OpenersOnce
<1>9. SlotKeys(b)
  <2> SUFFICES ASSUME NEW k \in Held(b), NEW l \in Held(b), k # l
               PROVE  ~(b.slots[k].from = b.slots[l].from /\ b.slots[k].cid = b.slots[l].cid /\ b.slots[k].id = b.slots[l].id)
    BY DEF SlotKeys
  <2>1. CASE k = i
    BY <1>3, <2>1 DEF AloneAt
  <2>2. CASE l = i
    BY <1>3, <2>2 DEF AloneAt
  <2>3. CASE k # i /\ l # i
    BY <1>1, <1>3, <2>3 DEF SlotKeys
  <2> QED BY <2>1, <2>2, <2>3
<1>10. \A k \in Held(b) : \A q \in Within(b.slots[k]) : q = p \/ (k \in Held(a) /\ q \in Within(a.slots[k]))
  BY <1>3
<1> QED BY <1>1, <1>5, <1>6, <1>7, <1>8, <1>9, <1>10, ChangedSound

\* A message is delivered, from a slot or at once, and a slot may be free.
Gives(a, b, d) ==
    /\ Tables(a, b) /\ b.delivered = Append(a.delivered, d)
    /\ \A k \in Held(b) : k \in Held(a) /\ b.slots[k] = a.slots[k] /\ a.slots[k].data[1] # d[1]
    /\ \A k \in DOMAIN a.delivered : a.delivered[k][1] # d[1]
    /\ \A k \in DOMAIN a.uplink : a.uplink[k].data # d[1]
    /\ \A s \in Senders : b.partial[s] # NoPartial => b.partial[s] = a.partial[s] /\ b.partial[s].data[1] # d[1]

\* A message that is handed over does no harm to what holds of every state.
LEMMA MoreDeliveredSound ==
    ASSUME NEW a, Sound(a), NEW b \in Air, NEW p \in DOMAIN a.pubs, Fresh(a, p), NEW d \in Seq(Nat \X Nat), WholeOK(a, d),
           Gives(a, b, d)
    PROVE  /\ Sound(b)
           /\ \A x \in DOMAIN a.delivered : x \in DOMAIN b.delivered /\ b.delivered[x] = a.delivered[x]
           /\ \E x \in DOMAIN b.delivered : b.delivered[x] = d
<1>1. /\ a \in Air /\ SlotsOK(a) /\ PartialsOK(a) /\ DeliveredOK(a) /\ OpenersOnce(a) /\ SlotKeys(a)
      /\ b.pubs = a.pubs /\ b.uplink = a.uplink
  BY DEF Sound, Gives, Tables
<1>2. /\ a.delivered \in Seq(Seq(Nat \X Nat)) /\ b.delivered = Append(a.delivered, d)
  BY <1>1 DEF Air, Gives
<1>13. /\ \A k \in Held(b) : k \in Held(a) /\ b.slots[k] = a.slots[k] /\ a.slots[k].data[1] # d[1]
       /\ \A k \in DOMAIN a.delivered : a.delivered[k][1] # d[1]
       /\ \A k \in DOMAIN a.uplink : a.uplink[k].data # d[1]
       /\ \A s \in Senders : b.partial[s] # NoPartial => b.partial[s] = a.partial[s] /\ b.partial[s].data[1] # d[1]
  BY DEF Gives
<1> DEFINE n == Len(a.delivered) + 1
<1>3. /\ DOMAIN b.delivered = 1 .. n /\ DOMAIN a.delivered = 1 .. n - 1 /\ n \in Nat \ {0}
      /\ b.delivered[n] = d /\ \A x \in 1 .. n - 1 : b.delivered[x] = a.delivered[x]
  BY <1>2, AppendProperties
<1> HIDE DEF n
<1>4. \A x \in DOMAIN b.delivered : (x = n /\ b.delivered[x] = d) \/ (x \in DOMAIN a.delivered /\ b.delivered[x] = a.delivered[x])
  BY <1>3
<1>5. /\ \A x \in DOMAIN a.delivered : x \in DOMAIN b.delivered /\ b.delivered[x] = a.delivered[x]
      /\ \E x \in DOMAIN b.delivered : b.delivered[x] = d
  <2>1. 1 .. n - 1 \subseteq 1 .. n /\ n \in 1 .. n
    BY <1>3
  <2> QED BY <1>3, <2>1, Zenon
<1>12. \A x : PartOK(a, x) => PartOK(b, x)
  BY <1>1, Zenon DEF PartOK, Tokens, Opens, Key, Tainted
<1>6. SlotsOK(b) /\ SlotKeys(b)
  <2>1. \A k \in Held(b) : k \in Held(a) /\ b.slots[k] = a.slots[k]
    BY <1>13
  <2>2. SlotsOK(b)
    BY <1>1, <1>12, <2>1 DEF SlotsOK
  <2>3. SlotKeys(b)
    BY <1>1, <2>1 DEF SlotKeys
  <2> QED BY <2>2, <2>3
<1>7. PartialsOK(b)
  BY <1>1, <1>12, <1>13 DEF PartialsOK
<1>8. DeliveredOK(b)
  <2>1. \A e : WholeOK(a, e) => WholeOK(b, e)
    BY <1>1 DEF WholeOK, Tokens, Opens, Tainted
  <2> QED BY <1>1, <1>4, <2>1 DEF DeliveredOK
<1>9. OpenersOnce(b)
  <2>8. /\ \A k, l \in Held(a) : a.slots[k].data[1] = a.slots[l].data[1] => k = l
        /\ \A k \in Held(b) : k \in Held(a) /\ b.slots[k] = a.slots[k]
    BY <1>1, <1>13 DEF OpenersOnce
  <2>1. \A k, l \in Held(b) : b.slots[k].data[1] = b.slots[l].data[1] => k = l
    BY <2>8
  <2>9. \A k, l \in DOMAIN a.delivered : a.delivered[k][1] = a.delivered[l][1] => k = l
    BY <1>1 DEF OpenersOnce
  <2>2. \A k, l \in DOMAIN b.delivered : b.delivered[k][1] = b.delivered[l][1] => k = l
    BY <1>4, <1>13, <2>9
  <2>10. \A k \in Held(a) : \A l \in DOMAIN a.delivered : a.slots[k].data[1] # a.delivered[l][1]
    BY <1>1 DEF OpenersOnce
  <2>3. \A k \in Held(b) : \A l \in DOMAIN b.delivered : b.slots[k].data[1] # b.delivered[l][1]
    <3> TAKE k \in Held(b)
    <3> TAKE l \in DOMAIN b.delivered
    <3>1. k \in Held(a) /\ b.slots[k] = a.slots[k] /\ a.slots[k].data[1] # d[1]
      BY <1>13
    <3>2. CASE l = n /\ b.delivered[l] = d
      BY <3>1, <3>2
    <3>3. CASE l \in DOMAIN a.delivered /\ b.delivered[l] = a.delivered[l]
      BY <2>10, <3>1, <3>3
    <3> QED BY <1>4, <3>2, <3>3
  <2>11. \A s \in Senders : \A l \in DOMAIN a.delivered :
            a.partial[s] # NoPartial => a.partial[s].data[1] # a.delivered[l][1]
    BY <1>1 DEF OpenersOnce
  <2>4. \A s \in Senders : \A l \in DOMAIN b.delivered :
            b.partial[s] # NoPartial => b.partial[s].data[1] # b.delivered[l][1]
    <3> TAKE s \in Senders
    <3> TAKE l \in DOMAIN b.delivered
    <3> SUFFICES ASSUME b.partial[s] # NoPartial PROVE b.partial[s].data[1] # b.delivered[l][1]
      OBVIOUS
    <3>1. b.partial[s] = a.partial[s] /\ b.partial[s].data[1] # d[1]
      BY <1>13
    <3>2. CASE l = n /\ b.delivered[l] = d
      BY <3>1, <3>2
    <3>3. CASE l \in DOMAIN a.delivered /\ b.delivered[l] = a.delivered[l]
      BY <2>11, <3>1, <3>3
    <3> QED BY <1>4, <3>2, <3>3
  <2>12. \A k \in DOMAIN a.uplink : \A i \in Held(a) : a.uplink[k].data # a.slots[i].data[1]
    BY <1>1 DEF OpenersOnce
  <2>5. \A k \in DOMAIN b.uplink : \A i \in Held(b) : b.uplink[k].data # b.slots[i].data[1]
    BY <1>1, <2>8, <2>12
  <2>13. \A k \in DOMAIN a.uplink : \A l \in DOMAIN a.delivered : a.uplink[k].data # a.delivered[l][1]
    BY <1>1 DEF OpenersOnce
  <2>6. \A k \in DOMAIN b.uplink : \A l \in DOMAIN b.delivered : b.uplink[k].data # b.delivered[l][1]
    BY <1>1, <1>4, <1>13, <2>13
  <2>7. \A s, t \in Senders :
            b.partial[s] # NoPartial /\ b.partial[t] # NoPartial /\ b.partial[s].data[1] = b.partial[t].data[1] => s = t
    <3>1. \A s, t \in Senders :
            a.partial[s] # NoPartial /\ a.partial[t] # NoPartial /\ a.partial[s].data[1] = a.partial[t].data[1] => s = t
      BY <1>1 DEF OpenersOnce
    <3> QED BY <1>13, <3>1, ZenonT(60)
  <2> QED BY <2>1, <2>2, <2>3, <2>4, <2>5, <2>6, <2>7 DEF OpenersOnce
<1>10. \A k \in Held(b) : \A q \in Within(b.slots[k]) : q = p \/ (k \in Held(a) /\ q \in Within(a.slots[k]))
  BY <1>13
<1>14. \A s \in Senders : \A q \in Within(b.partial[s]) :
          b.partial[s] = a.partial[s] \/ q = p \/ (q \in Within(a.partial[s]) /\ ~a.partial[s].old)
  BY <1>13 DEF Within
<1>11. Sound(b)
  BY <1>1, <1>6, <1>7, <1>8, <1>9, <1>10, <1>14, ChangedSound
<1> QED BY <1>5, <1>11

\* What a station sends begins no message of the gateway's.
LEMMA OtherWay ==
    ASSUME NEW a, Sound(a), NEW d \in Seq(Nat \X Nat), 1 \in DOMAIN d, d[1][1] \in DOMAIN a.pubs, a.pubs[d[1][1]].by # Gateway
    PROVE  \A s \in Senders : a.partial[s] # NoPartial => a.partial[s].data[1] # d[1]
<1> SUFFICES ASSUME NEW s \in Senders, a.partial[s] # NoPartial PROVE a.partial[s].data[1] # d[1]
  OBVIOUS
<1>1. a \in Air /\ a.partial[s] \in Part_ /\ a.partial[s].from = Gateway /\ PartOK(a, a.partial[s])
  BY HeldIs DEF Sound, PartialsOK
<1>2. a.partial[s].data \in Seq(Nat \X Nat)
  BY <1>1 DEF Part_
<1>3. 1 \in DOMAIN a.partial[s].data
  BY <1>1, <1>2, OpensAt, Zenon DEF PartOK
<1>4. Key(a, a.partial[s].data[1][1])[1] = Gateway
  BY <1>1, <1>3, OfItsSender
<1> QED BY <1>4, Zenon DEF Key

\* What the frame's own message needs, the gateway's table gives.
LEMMA OwnCarried ==
    ASSUME NEW a, NEW p \in DOMAIN a.pubs, NEW j \in Nat, Arrived(a, p, j), NEW b \in Air, Tables(a, b),
           a.pubs[p].fine /\ j < a.pubs[p].total => \E i \in Held(b) : b.slots[i] = Part(a, p, j),
           a.pubs[p].fine /\ j = a.pubs[p].total => \E x \in DOMAIN b.delivered : b.delivered[x] = Upto(p, j)
    PROVE  Carried(b, p)
<1> SUFFICES ASSUME b.pubs[p].fine
             PROVE  IF b.pubs[p].by = Gateway THEN CarriedDown(b, p) ELSE CarriedUp(b, p)
  BY DEF Carried
<1>1. /\ a \in Air /\ a.pubs[p].by # Gateway /\ a.pubs[p].fine /\ j < a.pubs[p].next /\ j >= 1
      /\ b.pubs = a.pubs /\ b.uplink = a.uplink /\ b.session = a.session /\ b.joined = a.joined
  BY DEF Arrived, Sound, Tables
<1>2. j \in 0 .. b.pubs[p].next - 1
  BY <1>1, PubIs
<1>3. Part(b, p, j) = Part(a, p, j)
  BY <1>1 DEF Part
<1>4. j >= 1 => b.session[b.pubs[p].by] = b.pubs[p].cid
  BY <1>1 DEF Arrived
<1>5. \A l \in DOMAIN b.uplink : b.uplink[l].data[1] = p => b.uplink[l].data[2] > j
  BY <1>1 DEF Arrived
<1>6. \A i \in j + 1 .. b.pubs[p].next - 1 : \E l \in DOMAIN b.uplink : b.uplink[l].data = <<p, i>>
  BY <1>1, Zenon DEF Arrived
<1>7. 1 <= j /\ j < b.pubs[p].total => \E i \in Held(b) : b.slots[i] = Part(b, p, j)
  BY <1>1, <1>3
<1>8. j = b.pubs[p].total => \E x \in DOMAIN b.delivered : b.delivered[x] = Upto(p, j)
  BY <1>1
<1>9. Consumed(b, p, j)
  BY <1>4, <1>5, <1>6, <1>7, <1>8 DEF Consumed
<1>10. b.joined[b.pubs[p].by] = b.pubs[p].cid
  BY <1>1 DEF Arrived
<1> QED BY <1>1, <1>2, <1>9, <1>10 DEF CarriedUp

\* The tables after a frame.
Stored(a, i, y) == [a EXCEPT !.slots[i] = y]
Given(a, d) == [a EXCEPT !.delivered = Append(@, d)]
Emptied(a, i, d) == [a EXCEPT !.slots[i] = NoPartial, !.delivered = Append(@, d)]

\* A slot given another content leaves the rest.
LEMMA StoredIs ==
    ASSUME NEW a \in Air, NEW i \in 1 .. PartialSlots, NEW y \in Partials
    PROVE  /\ Stored(a, i, y) \in Air /\ Tables(a, Stored(a, i, y)) /\ Stored(a, i, y).delivered = a.delivered
           /\ Stored(a, i, y).partial = a.partial /\ Stored(a, i, y).slots = [a.slots EXCEPT ![i] = y]
<1> DEFINE L == [a.slots EXCEPT ![i] = y]
           b == Stored(a, i, y)
<1>1. a.slots \in [1 .. PartialSlots -> Partials]
  BY DEF Air
<1>2. L \in [1 .. PartialSlots -> Partials]
  BY <1>1
<1>3. b = [a EXCEPT !.slots = L]
  BY DEF Stored
<1> HIDE DEF L, b
<1>4. b \in Air
  BY <1>2, <1>3 DEF Air
<1>5. /\ b.pubs = a.pubs /\ b.uplink = a.uplink /\ b.session = a.session /\ b.joined = a.joined
      /\ b.delivered = a.delivered /\ b.partial = a.partial /\ b.slots = L
  BY <1>3 DEF Air
<1> QED BY <1>4, <1>5 DEF b, L, Tables

\* A message handed over leaves the rest.
LEMMA GivenIs ==
    ASSUME NEW a \in Air, NEW d \in Seq(Nat \X Nat)
    PROVE  /\ Given(a, d) \in Air /\ Tables(a, Given(a, d)) /\ Given(a, d).delivered = Append(a.delivered, d)
           /\ Given(a, d).partial = a.partial /\ Given(a, d).slots = a.slots
<1> DEFINE D == Append(a.delivered, d)
           b == Given(a, d)
<1>1. D \in Seq(Seq(Nat \X Nat))
  BY DEF Air
<1>2. b = [a EXCEPT !.delivered = D]
  BY DEF Given
<1> HIDE DEF D, b
<1>3. b \in Air
  BY <1>1, <1>2 DEF Air
<1>4. /\ b.pubs = a.pubs /\ b.uplink = a.uplink /\ b.session = a.session /\ b.joined = a.joined
      /\ b.delivered = D /\ b.partial = a.partial /\ b.slots = a.slots
  BY <1>2 DEF Air
<1> QED BY <1>3, <1>4 DEF b, D, Tables

\* A slot whose message is handed over is empty, and the rest as it was.
LEMMA EmptiedIs ==
    ASSUME NEW a \in Air, NEW i \in 1 .. PartialSlots, NEW d \in Seq(Nat \X Nat)
    PROVE  /\ Emptied(a, i, d) \in Air /\ Tables(a, Emptied(a, i, d)) /\ Emptied(a, i, d).delivered = Append(a.delivered, d)
           /\ Emptied(a, i, d).partial = a.partial /\ Emptied(a, i, d).slots = [a.slots EXCEPT ![i] = NoPartial]
<1> DEFINE D == Append(a.delivered, d)
           L == [a.slots EXCEPT ![i] = NoPartial]
           b == Emptied(a, i, d)
<1>1. D \in Seq(Seq(Nat \X Nat))
  BY DEF Air
<1>2. L \in [1 .. PartialSlots -> Partials]
  <2>1. a.slots \in [1 .. PartialSlots -> Partials] /\ NoPartial \in Partials
    BY DEF Air, Partials
  <2> QED BY <2>1
<1>3. b = [a EXCEPT !.slots = L, !.delivered = D]
  BY DEF Emptied
<1> HIDE DEF D, L, b
<1>4. b \in Air
  BY <1>1, <1>2, <1>3 DEF Air
<1>5. /\ b.pubs = a.pubs /\ b.uplink = a.uplink /\ b.session = a.session /\ b.joined = a.joined
      /\ b.delivered = D /\ b.partial = a.partial /\ b.slots = L
  BY <1>3 DEF Air
<1> QED BY <1>4, <1>5 DEF b, D, L, Tables

\* Only the slot i differs, if it does.
But(a, b, i, y) == b.slots = [a.slots EXCEPT ![i] = y]

\* Two tables of slots that differ in one.
LEMMA SlotsBut ==
    ASSUME NEW a \in Air, NEW b \in Air, NEW i \in 1 .. PartialSlots, NEW y \in Partials, But(a, b, i, y)
    PROVE  /\ b.slots[i] = y /\ \A k \in Held(a) : k # i => b.slots[k] = a.slots[k]
           /\ \A k \in Held(b) : k # i => k \in Held(a) /\ b.slots[k] = a.slots[k]
           /\ y = NoPartial => i \notin Held(b)
           /\ y # NoPartial => i \in Held(b)
<1>1. a.slots \in [1 .. PartialSlots -> Partials]
  BY DEF Air
<1>2. /\ b.slots[i] = y /\ \A k \in 1 .. PartialSlots : k # i => b.slots[k] = a.slots[k]
  BY <1>1 DEF But
<1> QED BY <1>2, HeldIs

\* Slot i waits for a frame with p's sender, session and id.
Matches(a, i, p) ==
    /\ i \in Held(a) /\ a.slots[i].from = a.pubs[p].by /\ a.slots[i].cid = a.pubs[p].cid
    /\ a.slots[i].id = a.pubs[p].id

\* The slot that matches a frame holds a part of its key, and what else is in it is
\* spoiled.
LEMMA MatchIs ==
    ASSUME NEW a, NEW p \in DOMAIN a.pubs, NEW j \in Nat, Arrived(a, p, j), NEW i \in 1 .. PartialSlots, Matches(a, i, p)
    PROVE  /\ a.slots[i] \in Part_ /\ PartOK(a, a.slots[i]) /\ a.slots[i].from # Gateway
           /\ Key(a, p) = <<a.slots[i].from, a.slots[i].cid, a.slots[i].id>>
           /\ \A q \in Within(a.slots[i]) : /\ q \in DOMAIN a.pubs
                                            /\ q # p => /\ ~a.pubs[q].fine /\ ~a.pubs[p].fine
                                                        /\ a.pubs[p].reused \/ a.pubs[q].reused
           /\ a.pubs[p].fine => j > 1 /\ a.slots[i] = Part(a, p, j - 1)
<1> DEFINE x == a.slots[i]
<1>1. Sound(a) /\ a \in Air /\ SlotsOK(a) /\ SlotKeys(a) /\ i \in Held(a) /\ Fresh(a, p)
  BY DEF Arrived, Sound, Matches
<1>2. x \in Part_ /\ PartOK(a, x) /\ x.from # Gateway
  BY <1>1, HeldIs DEF SlotsOK
<1>3. Key(a, p) = <<x.from, x.cid, x.id>>
  BY DEF Matches, Key
<1>4. ASSUME NEW q \in Within(x)
      PROVE  /\ q \in DOMAIN a.pubs
             /\ q # p => ~a.pubs[q].fine /\ ~a.pubs[p].fine /\ (a.pubs[p].reused \/ a.pubs[q].reused)
  <2>1. PICK k \in DOMAIN x.data : x.data[k][1] = q
    BY <1>2, WithinIs
  <2>2. q \in DOMAIN a.pubs /\ Key(a, q) = Key(a, p)
    BY <1>2, <1>3, <2>1, Zenon DEF PartOK, Tokens
  <2>3. ~Dead(a, q)
    BY <1>1 DEF Dead
  <2> QED BY <1>1, <2>2, <2>3, SameKey
<1>5. ASSUME a.pubs[p].fine PROVE j > 1 /\ x = Part(a, p, j - 1)
  <2>1. j > 1
    <3>1. x.data \in Seq(Nat \X Nat) /\ Tokens(a, x.data) /\ Opens(a, x.data)
      BY <1>2 DEF PartOK, Part_
    <3>2. 1 \in DOMAIN x.data /\ x.data[1] = <<x.data[1][1], 1>>
      BY <1>1, <3>1, OpensAt
    <3>3. x.data[1][1] \in Within(x)
      BY <1>2, <3>2, WithinIs
    <3>4. x.data[1] = <<p, 1>>
      BY <1>4, <1>5, <3>2, <3>3
    <3>5. x.data[1] # <<p, j>>
      BY <1>1 DEF Arrived
    <3>6. j # 1
      BY <3>4, <3>5
    <3>7. j \in 1 .. a.pubs[p].total
      BY DEF Arrived
    <3> QED BY <3>6, <3>7
  <2>2. PICK k \in Held(a) : a.slots[k] = Part(a, p, j - 1)
    BY <1>5, <2>1 DEF Arrived
  <2>3. a.slots[k].from = x.from /\ a.slots[k].cid = x.cid /\ a.slots[k].id = x.id
    <3>1. Part(a, p, j - 1).from = a.pubs[p].by /\ Part(a, p, j - 1).cid = a.pubs[p].cid /\ Part(a, p, j - 1).id = a.pubs[p].id
      BY DEF Part
    <3> QED BY <2>2, <3>1, Zenon DEF Matches
  <2>4. k = i
    BY <1>1, <2>3 DEF SlotKeys
  <2> QED BY <2>1, <2>2, <2>4
<1> HIDE DEF x
<1>6. \A q \in Within(x) : /\ q \in DOMAIN a.pubs
                           /\ q # p => ~a.pubs[q].fine /\ ~a.pubs[p].fine /\ (a.pubs[p].reused \/ a.pubs[q].reused)
  BY <1>4
<1> QED BY <1>2, <1>3, <1>5, <1>6 DEF x

\* A publication that is fine and waits elsewhere is not disturbed.
LEMMA MatchOthers ==
    ASSUME NEW a, NEW p \in DOMAIN a.pubs, NEW j \in Nat, Arrived(a, p, j), NEW i \in 1 .. PartialSlots, Matches(a, i, p),
           NEW b \in Air, Tables(a, b), b.partial = a.partial,
           \A k \in Held(a) : k # i => b.slots[k] = a.slots[k],
           \A x \in DOMAIN a.delivered : x \in DOMAIN b.delivered /\ b.delivered[x] = a.delivered[x]
    PROVE  \A q \in DOMAIN a.pubs : q # p => Carried(b, q)
<1> SUFFICES ASSUME NEW q \in DOMAIN a.pubs, q # p PROVE Carried(b, q)
  OBVIOUS
<1>1. a \in Air /\ Carried(a, q)
  BY Zenon DEF Arrived, Sound
<1>2. ASSUME a.pubs[q].fine, NEW k \in Held(a), NEW n \in Nat \ {0}, a.slots[k] = Part(a, q, n) PROVE b.slots[k] = a.slots[k]
  <2>1. q \in Within(a.slots[k])
    BY <1>1, <1>2, PartIs
  <2>2. k # i
    BY <1>2, <2>1, MatchIs
  <2> QED BY <2>2
<1> QED BY <1>1, <1>2, CarriedKept DEF Tables

\* All that holds of the tables.
Fed(b) == Sound(b) /\ \A q \in DOMAIN b.pubs : Carried(b, q)

\* What a frame of a publication carries (its header's fields).
LEMMA FragmentIs ==
    ASSUME NEW a, NEW p \in DOMAIN a.pubs, NEW j \in Nat, Arrived(a, p, j), NEW f, f = FragmentIn(a, p, j)
    PROVE  /\ a \in Air /\ f \in Frames /\ f.from = a.pubs[p].by /\ f.cid = a.pubs[p].cid /\ f.id = a.pubs[p].id
           /\ f.index = j - 1 /\ f.total = a.pubs[p].total /\ f.data = <<p, j>> /\ f.data[1] = p
           /\ j >= 1 /\ j <= a.pubs[p].total /\ a.pubs[p].total \in Nat
<1>1. a \in Air /\ a.pubs[p].by # Gateway /\ j \in 1 .. a.pubs[p].total
  BY DEF Arrived, Sound
<1>2. /\ a.pubs[p].by \in Senders /\ a.pubs[p].cid \in Nat /\ a.pubs[p].id \in Nat /\ a.pubs[p].total \in Nat /\ p \in Nat
  BY <1>1, PubIs DEF Everyone
<1>3. j - 1 \in Nat
  BY <1>1, <1>2
<1>4. f \in Frames
  BY <1>2, <1>3 DEF FragmentIn, Frames
<1>5. /\ f.from = a.pubs[p].by /\ f.cid = a.pubs[p].cid /\ f.id = a.pubs[p].id
      /\ f.index = j - 1 /\ f.total = a.pubs[p].total /\ f.data = <<p, j>>
  BY DEF FragmentIn
<1> QED BY <1>1, <1>2, <1>4, <1>5

\* A frame that is not the one waited for empties the slot, and no untroubled message
\* was in it.
LEMMA MismatchFed ==
    ASSUME NEW a, NEW p \in DOMAIN a.pubs, NEW j \in Nat, Arrived(a, p, j), NEW i \in 1 .. PartialSlots, Matches(a, i, p),
           j - 1 # a.slots[i].next \/ a.pubs[p].total # a.slots[i].total
    PROVE  Fed(Stored(a, i, NoPartial))
<1> DEFINE b == Stored(a, i, NoPartial)
<1>1. Sound(a) /\ a \in Air /\ PubsOK(a)
  BY DEF Arrived, Sound
<1>2. /\ b \in Air /\ Tables(a, b) /\ b.delivered = a.delivered
      /\ b.partial = a.partial /\ b.slots = [a.slots EXCEPT ![i] = NoPartial]
  BY <1>1, StoredIs, ZenonT(60) DEF Partials
<1> HIDE DEF b
<1>3. /\ \A k \in Held(a) : k # i => b.slots[k] = a.slots[k]
      /\ \A k \in Held(b) : k \in Held(a) /\ b.slots[k] = a.slots[k]
  <2>1. But(a, b, i, NoPartial) /\ NoPartial \in Partials
    BY <1>2 DEF But, Partials
  <2> QED BY <1>1, <1>2, <2>1, SlotsBut
<1>4. Fades(a, b)
  <2>1. Spoils(a, b, {})
    <3>1. Spoils(a, a, {})
      BY <1>1, SpoilsNone
    <3> QED BY <1>2, <3>1 DEF Spoils, Tables
  <2>2. PartsFade(a, b)
    BY <1>2, <1>3, FadedSelf DEF PartsFade
  <2>3. UplinkFades(a, b)
    BY <1>2 DEF UplinkFades, Tables
  <2> QED BY <1>1, <1>2, <2>1, <2>2, <2>3, SpoiledFades
<1>5. Sound(b)
  BY <1>1, <1>2, <1>4, FadeSound
<1>6. ~a.pubs[p].fine
  <2> SUFFICES ASSUME a.pubs[p].fine PROVE FALSE
    OBVIOUS
  <2>1. a.slots[i] = Part(a, p, j - 1)
    BY MatchIs
  <2> QED BY <2>1 DEF Part
<1>7. Carried(b, p)
  BY <1>2, <1>6 DEF Carried, Tables
<1>8. \A q \in DOMAIN a.pubs : q # p => Carried(b, q)
  BY <1>2, <1>3, MatchOthers
<1> QED BY <1>2, <1>5, <1>7, <1>8 DEF Fed, Tables, b

\* The frame that was waited for, with others to come, is appended.
LEMMA ExtendedFed ==
    ASSUME NEW a, NEW p \in DOMAIN a.pubs, NEW j \in Nat, Arrived(a, p, j), NEW i \in 1 .. PartialSlots, Matches(a, i, p),
           j - 1 = a.slots[i].next, a.pubs[p].total = a.slots[i].total, j < a.pubs[p].total,
           NEW f, f = FragmentIn(a, p, j)
    PROVE  Fed(Stored(a, i, Extended(a.slots[i], f)))
<1> DEFINE x == a.slots[i]
           y == Extended(a.slots[i], f)
           b == Stored(a, i, y)
<1>1. Sound(a) /\ a \in Air /\ OpenersOnce(a) /\ SlotKeys(a) /\ i \in Held(a) /\ Fresh(a, p)
  BY DEF Arrived, Sound, Matches
<1>2. /\ x \in Part_ /\ PartOK(a, x) /\ x.from # Gateway /\ Key(a, p) = <<x.from, x.cid, x.id>>
      /\ \A q \in Within(x) : q # p => /\ ~a.pubs[q].fine
                                       /\ a.pubs[p].reused \/ a.pubs[q].reused
      /\ a.pubs[p].fine => x = Part(a, p, j - 1)
  BY MatchIs
<1>3. f \in AnyFrames /\ f.data = <<p, j>> /\ j \in 1 .. a.pubs[p].total
  <2>1. f \in Frames /\ f.data = <<p, j>> /\ j \in 1 .. a.pubs[p].total
    BY FragmentIs
  <2> QED BY <2>1 DEF Frames, AnyFrames, Everyone
<1>4. Goes(a, x, p, j) /\ j < x.total
  BY <1>2, <1>3 DEF Goes
<1>5. /\ y \in Part_ /\ PartOK(a, y)
      /\ y.from = x.from /\ y.cid = x.cid /\ y.id = x.id
      /\ y.data[1] = x.data[1]
      /\ \A q \in Within(y) : q = p \/ q \in Within(x)
      /\ x = Part(a, p, j - 1) => y = Part(a, p, j)
  BY <1>1, <1>2, <1>3, <1>4, ExtendedIs
<1> HIDE DEF y
<1>6. /\ b \in Air /\ Tables(a, b) /\ b.delivered = a.delivered
      /\ b.partial = a.partial /\ b.slots = [a.slots EXCEPT ![i] = y]
  <2>1. y \in Partials
    BY <1>5 DEF Part_, Partials
  <2> QED BY <1>1, <2>1, StoredIs
<1> HIDE DEF b
<1>7. y # NoPartial
  BY <1>1, <1>5, HeldIs
<1>8. /\ b.slots[i] = y /\ i \in Held(b) /\ \A k \in Held(a) : k # i => b.slots[k] = a.slots[k]
  <2>1. But(a, b, i, y) /\ y \in Partials
    BY <1>5, <1>6 DEF But, Part_, Partials
  <2>2. b \in Air /\ a \in Air
    BY <1>1, <1>6
  <2> QED BY <1>7, <2>1, <2>2, SlotsBut
<1>9. AloneAt(a, i, y)
  <2>1. \A k \in Held(a) : k # i => a.slots[k].data[1] # y.data[1]
    BY <1>1, <1>5 DEF OpenersOnce
  <2>2. \A k \in DOMAIN a.delivered : a.delivered[k][1] # y.data[1]
    BY <1>1, <1>5 DEF OpenersOnce
  <2>3. \A k \in DOMAIN a.uplink : a.uplink[k].data # y.data[1]
    BY <1>1, <1>5 DEF OpenersOnce
  <2>4. \A k \in Held(a) : k # i => ~(a.slots[k].from = y.from /\ a.slots[k].cid = y.cid /\ a.slots[k].id = y.id)
    BY <1>1, <1>5 DEF SlotKeys
  <2> QED BY <2>1, <2>2, <2>3, <2>4 DEF AloneAt
<1>10. Sound(b)
  BY <1>1, <1>2, <1>5, <1>6, <1>9, SlotChangedSound
<1>11. Carried(b, p)
  <2>1. a.pubs[p].fine => b.slots[i] = Part(a, p, j)
    BY <1>2, <1>5, <1>8
  <2>2. j # a.pubs[p].total
    BY <1>3
  <2> QED BY <1>6, <1>8, <2>1, <2>2, OwnCarried, Zenon
<1>12. \A q \in DOMAIN a.pubs : q # p => Carried(b, q)
  BY <1>6, <1>8, MatchOthers, Zenon
<1> QED BY <1>6, <1>10, <1>11, <1>12 DEF Fed, Tables, b, y

\* The frame that was waited for and is the last hands the message over.
LEMMA FinishedFed ==
    ASSUME NEW a, NEW p \in DOMAIN a.pubs, NEW j \in Nat, Arrived(a, p, j), NEW i \in 1 .. PartialSlots, Matches(a, i, p),
           j - 1 = a.slots[i].next, a.pubs[p].total = a.slots[i].total, j = a.pubs[p].total
    PROVE  Fed(Emptied(a, i, More(a.slots[i], p, j)))
<1> DEFINE x == a.slots[i]
           d == More(a.slots[i], p, j)
           b == Emptied(a, i, d)
<1>1. Sound(a) /\ a \in Air /\ OpenersOnce(a) /\ SlotKeys(a) /\ i \in Held(a) /\ Fresh(a, p)
  BY DEF Arrived, Sound, Matches
<1>2. /\ x \in Part_ /\ PartOK(a, x) /\ x.from # Gateway /\ Key(a, p) = <<x.from, x.cid, x.id>>
      /\ \A q \in Within(x) : q # p => /\ ~a.pubs[q].fine
                                       /\ a.pubs[p].reused \/ a.pubs[q].reused
      /\ a.pubs[p].fine => x = Part(a, p, j - 1)
  BY MatchIs
<1>3. j \in 1 .. a.pubs[p].total
  BY DEF Arrived
<1>4. Goes(a, x, p, j) /\ j = x.total
  BY <1>2, <1>3 DEF Goes
<1>5. d \in Seq(Nat \X Nat) /\ WholeOK(a, d) /\ d[1] = x.data[1] /\ (x = Part(a, p, j - 1) => d = Upto(p, j))
  BY <1>1, <1>2, <1>4, FinishedIs
<1>6. 1 \in DOMAIN d /\ d[1][1] \in DOMAIN a.pubs /\ a.pubs[d[1][1]].by # Gateway
  <2>1. 1 \in DOMAIN x.data /\ 1 \in DOMAIN d
    BY <1>1, <1>2, <1>5, OpensAt, Zenon DEF PartOK, WholeOK, Part_
  <2>2. Key(a, x.data[1][1])[1] = x.from /\ x.data[1][1] \in DOMAIN a.pubs
    BY <1>2, <2>1, OfItsSender, Zenon
  <2>3. a.pubs[x.data[1][1]].by = x.from
    BY <2>2 DEF Key
  <2> QED BY <1>2, <1>5, <2>1, <2>2, <2>3, Zenon
<1> HIDE DEF d
<1>7. /\ b \in Air /\ Tables(a, b) /\ b.delivered = Append(a.delivered, d)
      /\ b.partial = a.partial /\ b.slots = [a.slots EXCEPT ![i] = NoPartial]
  BY <1>1, <1>5, EmptiedIs, Zenon
<1> HIDE DEF b
<1>8. /\ \A k \in Held(a) : k # i => b.slots[k] = a.slots[k]
      /\ \A k \in Held(b) : k # i /\ k \in Held(a) /\ b.slots[k] = a.slots[k]
  <2>1. But(a, b, i, NoPartial) /\ NoPartial \in Partials
    BY <1>7 DEF But, Partials
  <2>2. b \in Air /\ a \in Air
    BY <1>1, <1>7
  <2> QED BY <2>1, <2>2, SlotsBut
<1>9. /\ \A k \in Held(b) : a.slots[k].data[1] # d[1]
      /\ \A k \in DOMAIN a.delivered : a.delivered[k][1] # d[1]
      /\ \A k \in DOMAIN a.uplink : a.uplink[k].data # d[1]
      /\ \A s \in Senders : a.partial[s] # NoPartial => a.partial[s].data[1] # d[1]
  <2>1. \A k \in Held(b) : a.slots[k].data[1] # d[1]
    BY <1>1, <1>5, <1>8 DEF OpenersOnce
  <2>2. \A k \in DOMAIN a.delivered : a.delivered[k][1] # d[1]
    BY <1>1, <1>5 DEF OpenersOnce
  <2>3. \A k \in DOMAIN a.uplink : a.uplink[k].data # d[1]
    BY <1>1, <1>5, ZenonT(60) DEF OpenersOnce
  <2>4. \A s \in Senders : a.partial[s] # NoPartial => a.partial[s].data[1] # d[1]
    BY <1>1, <1>5, <1>6, OtherWay, Zenon
  <2> QED BY <2>1, <2>2, <2>3, <2>4
<1>10. /\ Sound(b)
       /\ \A z \in DOMAIN a.delivered : z \in DOMAIN b.delivered /\ b.delivered[z] = a.delivered[z]
       /\ \E z \in DOMAIN b.delivered : b.delivered[z] = d
  <2>1. \A k \in Held(b) : k \in Held(a) /\ b.slots[k] = a.slots[k] /\ a.slots[k].data[1] # d[1]
    BY <1>8, <1>9
  <2>2. Gives(a, b, d)
    BY <1>7, <1>9, <2>1 DEF Gives
  <2>3. b \in Air
    BY <1>7
  <2> QED BY <1>1, <1>5, <2>2, <2>3, MoreDeliveredSound
<1>11. Carried(b, p)
  <2>1. a.pubs[p].fine => d = Upto(p, j)
    BY <1>2, <1>5
  <2>2. ~(j < a.pubs[p].total)
    BY <1>3
  <2>3. a.pubs[p].fine => \E z \in DOMAIN b.delivered : b.delivered[z] = Upto(p, j)
    BY <1>10, <2>1
  <2>4. b \in Air /\ Tables(a, b)
    BY <1>7, Zenon
  <2> QED BY <2>2, <2>3, <2>4, OwnCarried, Zenon
<1>12. \A q \in DOMAIN a.pubs : q # p => Carried(b, q)
  BY <1>7, <1>8, <1>10, MatchOthers
<1> QED BY <1>7, <1>10, <1>11, <1>12, Zenon DEF Fed, Tables, b, d

\* A message of one fragment is handed over at once.
LEMMA WholeFed ==
    ASSUME NEW a, NEW p \in DOMAIN a.pubs, NEW j \in Nat, Arrived(a, p, j), a.pubs[p].total = 1
    PROVE  Fed(Given(a, <<<<p, j>>>>))
<1> DEFINE d == Upto(p, 1)
           b == Given(a, d)
<1>1. Sound(a) /\ a \in Air /\ Fresh(a, p) /\ j \in 1 .. 1 /\ a.pubs[p].by # Gateway /\ j < a.pubs[p].next
  BY DEF Arrived, Sound
<1>2. j = 1 /\ 1 < a.pubs[p].next
  BY <1>1
<1>3. <<<<p, j>>>> = d /\ d \in Seq(Nat \X Nat) /\ WholeOK(a, d) /\ d[1] = <<p, 1>>
  BY <1>1, <1>2, WholeIs
<1>4. d = Upto(p, j) /\ 1 \in DOMAIN d /\ d[1][1] \in DOMAIN a.pubs /\ a.pubs[d[1][1]].by # Gateway
  <2>1. 1 \in DOMAIN d
    BY <1>1, <1>3, OpensAt DEF WholeOK
  <2> QED BY <1>1, <1>2, <1>3, <2>1
<1> HIDE DEF d
<1>5. /\ b \in Air /\ Tables(a, b) /\ b.delivered = Append(a.delivered, d)
      /\ b.partial = a.partial /\ b.slots = a.slots
  BY <1>1, <1>3, GivenIs
<1> HIDE DEF b
<1>6. Gives(a, b, d)
  <2>1. \A k \in Held(b) : k \in Held(a) /\ b.slots[k] = a.slots[k] /\ a.slots[k].data[1] # d[1]
    <3>1. Held(b) = Held(a)
      BY <1>5 DEF Held
    <3> QED BY <1>2, <1>3, <1>5, <3>1 DEF Arrived
  <2>2. \A k \in DOMAIN a.delivered : a.delivered[k][1] # d[1]
    BY <1>2, <1>3 DEF Arrived
  <2>3. \A k \in DOMAIN a.uplink : a.uplink[k].data # d[1]
    <3> SUFFICES ASSUME NEW k \in DOMAIN a.uplink, a.uplink[k].data = <<p, 1>> PROVE FALSE
      BY <1>3
    <3>1. a.uplink[k].data[2] > j
      BY DEF Arrived
    <3> QED BY <1>2, <3>1
  <2>4. \A s \in Senders : a.partial[s] # NoPartial => a.partial[s].data[1] # d[1]
    BY <1>1, <1>3, <1>4, OtherWay
  <2> QED BY <1>5, <2>1, <2>2, <2>3, <2>4 DEF Gives
<1>7. /\ Sound(b)
      /\ \A z \in DOMAIN a.delivered : z \in DOMAIN b.delivered /\ b.delivered[z] = a.delivered[z]
      /\ \E z \in DOMAIN b.delivered : b.delivered[z] = d
  <2>1. b \in Air /\ Sound(a) /\ Fresh(a, p) /\ d \in Seq(Nat \X Nat) /\ WholeOK(a, d)
    BY <1>1, <1>3, <1>5
  <2> QED BY <1>6, <2>1, MoreDeliveredSound
<1>8. Carried(b, p)
  <2>1. ~(j < a.pubs[p].total)
    BY <1>2
  <2> QED BY <1>4, <1>5, <1>7, <2>1, OwnCarried
<1>9. \A q \in DOMAIN a.pubs : q # p => Carried(b, q)
  <2> SUFFICES ASSUME NEW q \in DOMAIN a.pubs, q # p PROVE Carried(b, q)
    OBVIOUS
  <2>1. Carried(a, q)
    BY DEF Arrived
  <2> QED BY <1>1, <1>5, <1>7, <2>1, CarriedKept DEF Tables
<1> QED BY <1>3, <1>5, <1>7, <1>8, <1>9 DEF Fed, Tables, b

\* A first frame takes an empty, old or abandoned slot.
LEMMA BegunFed ==
    ASSUME NEW a, NEW p \in DOMAIN a.pubs, Arrived(a, p, 1), 1 < a.pubs[p].total, NEW i \in 1 .. PartialSlots,
           \A k \in Held(a) : ~Matches(a, k, p),
           i \in Held(a) => a.slots[i].old \/ (a.slots[i].from = a.pubs[p].by /\ a.slots[i].cid # a.pubs[p].cid)
    PROVE  Fed(Stored(a, i, Part(a, p, 1)))
<1> DEFINE y == Part(a, p, 1)
           b == Stored(a, i, y)
<1>1. /\ Sound(a) /\ a \in Air /\ Fresh(a, p) /\ a.pubs[p].by # Gateway /\ 1 < a.pubs[p].next
      /\ a.session[a.pubs[p].by] = a.pubs[p].cid
  BY DEF Arrived, Sound
<1>2. /\ y \in Part_ /\ PartOK(a, y) /\ y.data[1] = <<p, 1>> /\ \A q \in Within(y) : q = p
  <2>1. /\ Part(a, p, 1) \in Part_ /\ PartOK(a, Part(a, p, 1))
        /\ Part(a, p, 1).data[1] = <<p, 1>> /\ \A q \in Within(Part(a, p, 1)) : q = p
    BY <1>1, BegunIs
  <2> QED BY <2>1
<1>3. y.from = a.pubs[p].by /\ y.cid = a.pubs[p].cid /\ y.id = a.pubs[p].id
  BY DEF Part
<1> HIDE DEF y
<1>4. /\ b \in Air /\ Tables(a, b) /\ b.delivered = a.delivered
      /\ b.partial = a.partial /\ b.slots = [a.slots EXCEPT ![i] = y]
  <2>1. y \in Partials
    BY <1>2 DEF Part_, Partials
  <2> QED BY <1>1, <2>1, StoredIs
<1> HIDE DEF b
<1>5. /\ b.slots[i] = y /\ i \in Held(b) /\ \A k \in Held(a) : k # i => b.slots[k] = a.slots[k]
  <2>1. But(a, b, i, y) /\ y \in Partials
    BY <1>2, <1>4 DEF But, Part_, Partials
  <2>2. b \in Air /\ a \in Air
    BY <1>1, <1>4
  <2>3. y # NoPartial
    BY <1>1, <1>2, HeldIs
  <2> QED BY <2>1, <2>2, <2>3, SlotsBut
<1>6. AloneAt(a, i, y)
  <2>1. \A k \in Held(a) : a.slots[k].data[1] # y.data[1]
    BY <1>2 DEF Arrived
  <2>2. \A k \in DOMAIN a.delivered : a.delivered[k][1] # y.data[1]
    BY <1>2 DEF Arrived
  <2>3. \A k \in DOMAIN a.uplink : a.uplink[k].data # y.data[1]
    <3> SUFFICES ASSUME NEW k \in DOMAIN a.uplink, a.uplink[k].data = <<p, 1>> PROVE FALSE
      BY <1>2
    <3>1. a.uplink[k].data[2] > 1
      BY DEF Arrived
    <3> QED BY <3>1
  <2>4. \A k \in Held(a) : ~(a.slots[k].from = y.from /\ a.slots[k].cid = y.cid /\ a.slots[k].id = y.id)
    BY <1>3 DEF Matches
  <2> QED BY <2>1, <2>2, <2>3, <2>4 DEF AloneAt
<1>7. Sound(b)
  BY <1>1, <1>2, <1>3, <1>4, <1>6, SlotChangedSound
<1>8. Carried(b, p)
  <2>1. b.slots[i] = Part(a, p, 1)
    BY <1>5 DEF y
  <2>2. 1 # a.pubs[p].total
    BY <1>1, PubIs
  <2>3. b \in Air /\ Tables(a, b) /\ 1 \in Nat
    BY <1>4, Zenon
  <2> QED BY <1>5, <2>1, <2>2, <2>3, OwnCarried
<1>9. \A q \in DOMAIN a.pubs : q # p => Carried(b, q)
  <2> SUFFICES ASSUME NEW q \in DOMAIN a.pubs, q # p PROVE Carried(b, q)
    OBVIOUS
  <2>1. Carried(a, q)
    BY DEF Arrived
  <2>2. ASSUME NEW k \in Held(a), NEW n \in Nat \ {0}, a.session[a.pubs[q].by] = a.pubs[q].cid, a.slots[k] = Part(a, q, n)
        PROVE  b.slots[k] = a.slots[k]
    <3>1. a.slots[k].old = FALSE /\ a.slots[k].from = a.pubs[q].by /\ a.slots[k].cid = a.pubs[q].cid
      BY <2>2 DEF Part
    <3>2. k # i
      BY <1>1, <2>2, <3>1
    <3> QED BY <1>5, <3>2
  <2> QED BY <1>1, <1>4, <2>1, <2>2, CarriedKept, Zenon DEF Tables
<1> QED BY <1>4, <1>7, <1>8, <1>9 DEF Fed, Tables, b, y

\* Whatever becomes of a frame at the gateway (FragmentReassembler::Consume), nothing
\* is harmed.
LEMMA FeedFed ==
    ASSUME NEW a, NEW p \in DOMAIN a.pubs, NEW j \in Nat, Arrived(a, p, j), NEW f, f = FragmentIn(a, p, j)
    PROVE  Fed(Feed(a, f))
<1>1. /\ a \in Air /\ Sound(a) /\ PubsOK(a) /\ f \in Frames /\ f.from = a.pubs[p].by /\ f.cid = a.pubs[p].cid /\ f.id = a.pubs[p].id
      /\ f.index = j - 1 /\ f.total = a.pubs[p].total /\ f.data = <<p, j>> /\ f.data[1] = p
      /\ j >= 1 /\ j <= a.pubs[p].total /\ a.pubs[p].total \in Nat
  <2>1. Sound(a)
    BY DEF Arrived
  <2>2. PubsOK(a)
    BY <2>1 DEF Sound
  <2> QED BY <2>1, <2>2, FragmentIs
<1>2. CASE f.total = 1
  <2>1. Feed(a, f) = Given(a, <<<<p, j>>>>)
    BY <1>1, <1>2 DEF Feed, Given
  <2> QED BY <1>1, <1>2, <2>1, WholeFed
<1>3. CASE f.total # 1 /\ Find(a, f) # {}
  <2> DEFINE i == First(Find(a, f))
             x == a.slots[i]
  <2>1. i \in Find(a, f)
    <3>1. Find(a, f) \in SUBSET Nat
      BY <1>1, HeldIs DEF Find
    <3> QED BY <1>3, <3>1, FirstIs
  <2>2. Matches(a, i, p) /\ i \in 1 .. PartialSlots
    BY <1>1, <2>1, HeldIs, Zenon DEF Find, Matches
  <2>3. Feed(a, f) = Consume(a, i, x, f)
    BY <1>3 DEF Feed
  <2>4. x.next \in Nat /\ x.total \in Nat
    <3>1. x \in Part_
      BY <1>1, <2>2, HeldIs DEF Matches
    <3> QED BY <3>1 DEF Part_
  <2> HIDE DEF i
  <2>5. CASE f.index # x.next \/ f.total # x.total
    <3>1. Feed(a, f) = Stored(a, i, NoPartial)
      BY <2>3, <2>5 DEF Consume, Stored
    <3>2. j - 1 # x.next \/ a.pubs[p].total # x.total
      BY <1>1, <2>5
    <3> QED BY <2>2, <3>1, <3>2, MismatchFed
  <2>6. CASE f.index = x.next /\ f.total = x.total /\ f.index + 1 < f.total
    <3>1. Feed(a, f) = Stored(a, i, Extended(x, f))
      BY <2>3, <2>6 DEF Consume, Stored
    <3>2. j - 1 = x.next /\ a.pubs[p].total = x.total /\ j < a.pubs[p].total
      BY <1>1, <2>6
    <3> QED BY <2>2, <3>1, <3>2, ExtendedFed
  <2>7. CASE f.index = x.next /\ f.total = x.total /\ ~(f.index + 1 < f.total)
    <3>1. Feed(a, f) = Emptied(a, i, More(x, p, j))
      BY <1>1, <2>3, <2>7 DEF Consume, Emptied, More
    <3>2. j - 1 = x.next /\ a.pubs[p].total = x.total /\ j = a.pubs[p].total
      BY <1>1, <2>7
    <3> QED BY <2>2, <3>1, <3>2, FinishedFed
  <2> QED BY <2>5, <2>6, <2>7
<1>4. CASE f.total # 1 /\ Find(a, f) = {}
  <2>1. \A k \in Held(a) : ~Matches(a, k, p)
    BY <1>1, <1>4 DEF Find, Matches
  <2>2. CASE f.index # 0
    <3>1. Feed(a, f) = a
      BY <1>4, <2>2 DEF Feed
    <3>2. ~a.pubs[p].fine
      <4> SUFFICES ASSUME a.pubs[p].fine PROVE FALSE
        OBVIOUS
      <4>1. j > 1
        BY <1>1, <2>2
      <4>2. PICK k \in Held(a) : a.slots[k] = Part(a, p, j - 1)
        BY <4>1 DEF Arrived
      <4>3. Matches(a, k, p)
        BY <4>2 DEF Matches, Part
      <4> QED BY <2>1, <4>3
    <3>3. Carried(a, p)
      BY <3>2 DEF Carried
    <3> QED BY <1>1, <3>1, <3>3 DEF Fed, Arrived
  <2>3. CASE f.index = 0 /\ Claimable(a, f) = {}
    <3>1. Feed(a, f) = Spoil(a, {p})
      BY <1>1, <1>4, <2>3 DEF Feed
    <3>2. /\ Spoil(a, {p}) \in Air /\ SameElse(a, Spoil(a, {p})) /\ Spoils(a, Spoil(a, {p}), {p})
      BY <1>1, SpoilIs
    <3>3. SameRest(a, Spoil(a, {p}))
      BY <3>2 DEF SameElse, SameRest
    <3>4. Sound(Spoil(a, {p})) /\ \A q \in DOMAIN a.pubs : Carried(a, q) => Carried(Spoil(a, {p}), q)
      BY <1>1, <3>2, <3>3, SpoilKeeps
    <3>5. Carried(Spoil(a, {p}), p)
      BY <3>2 DEF Carried, Spoils
    <3>6. DOMAIN Spoil(a, {p}).pubs = DOMAIN a.pubs
      BY <3>2 DEF Spoils
    <3> QED BY <3>1, <3>4, <3>5, <3>6 DEF Fed, Arrived
  <2>4. CASE f.index = 0 /\ Claimable(a, f) # {}
    <3> DEFINE i == First(Claimable(a, f))
    <3>1. i \in Claimable(a, f) /\ i \in 1 .. PartialSlots
      <4>1. Claimable(a, f) \in SUBSET Nat /\ Claimable(a, f) \subseteq 1 .. PartialSlots
        <5>1. DOMAIN a.slots = 1 .. PartialSlots
          BY <1>1 DEF Air
        <5>2. 1 .. PartialSlots \subseteq Nat
          OBVIOUS
        <5> QED BY <5>1, <5>2 DEF Claimable
      <4> QED BY <2>4, <4>1, FirstIs
    <3>2. j = 1 /\ 1 < a.pubs[p].total
      BY <1>1, <1>4, <2>4
    <3>3. Feed(a, f) = Consume(a, i, Begun(f), f)
      BY <1>4, <2>4 DEF Feed
    <3> HIDE DEF i
    <3>4. Begun(f).next = 0 /\ Begun(f).total = f.total
      BY DEF Begun
    <3>5. f.index = Begun(f).next /\ f.total = Begun(f).total /\ f.index + 1 < f.total
      BY <1>1, <2>4, <3>2, <3>4
    <3>6. Feed(a, f) = Stored(a, i, Extended(Begun(f), f))
      BY <3>3, <3>5 DEF Consume, Stored
    <3>7. Extended(Begun(f), f) = Part(a, p, 1)
      <4>1. 1 < a.pubs[p].next
        BY <3>2 DEF Arrived
      <4> QED BY <1>1, <3>2, <4>1, BegunIs
    <3>8. i \in Held(a) => a.slots[i].old \/ (a.slots[i].from = a.pubs[p].by /\ a.slots[i].cid # a.pubs[p].cid)
      BY <1>1, <3>1 DEF Claimable
    <3>9. Arrived(a, p, 1)
      BY <3>2
    <3> QED BY <2>1, <3>1, <3>2, <3>6, <3>7, <3>8, <3>9, BegunFed
  <2> QED BY <2>2, <2>3, <2>4
<1> QED BY <1>2, <1>3, <1>4

\* The gateway's handling of the frame at the head of its queue preserves the
\* invariant.
LEMMA HandleUplinkStep ==
    ASSUME FragmentsInv, HandleUplink
    PROVE  FragmentsInv'
<1> DEFINE f == Head(air.uplink)
           a == Popped(air)
<1>1. air.uplink # <<>>
  BY DEF HandleUplink
<1>2. air' = IF a.session[f.from] # f.cid THEN Spoil(a, {f.data[1]} \cap DOMAIN a.pubs)
             ELSE IF f.total = 0 THEN Disconnected(a, f.from)
             ELSE Feed(a, f)
  BY DEF HandleUplink, Popped, Disconnected
<1>3. a.session = air.session /\ a.pubs = air.pubs
  BY <1>1, PoppedIs DEF FragmentsInv, Sound
<1>4. CASE air.session[f.from] # f.cid
  <2>1. air' = Spoil(Popped(air), {f.data[1]} \cap DOMAIN Popped(air).pubs)
    BY <1>2, <1>3, <1>4
  <2> QED BY <1>1, <1>4, <2>1, DroppedStep
<1>5. CASE air.session[f.from] = f.cid /\ f.total = 0
  <2>1. air' = Disconnected(Popped(air), f.from)
    BY <1>2, <1>3, <1>5
  <2> QED BY <1>1, <1>5, <2>1, DisconnectStep
<1>6. CASE air.session[f.from] = f.cid /\ f.total # 0
  <2>1. air' = Feed(a, f)
    BY <1>2, <1>3, <1>6
  <2> HIDE DEF a
  <2>2. PICK p \in DOMAIN air.pubs : \E j \in 1 .. air.pubs[p].total : f = FragmentIn(a, p, j) /\ Arrived(a, p, j)
    BY <1>1, <1>6, ArrivedIs DEF a
  <2>3. PICK j \in 1 .. air.pubs[p].total : f = FragmentIn(a, p, j) /\ Arrived(a, p, j)
    BY <2>2
  <2> HIDE DEF f
  <2>4. Fed(Feed(a, f))
    <3>1. p \in DOMAIN a.pubs /\ j \in Nat
      BY <1>3, <2>3
    <3> QED BY <2>3, <3>1, FeedFed
  <2> QED BY <2>1, <2>4 DEF Fed, FragmentsInv
<1> QED BY <1>4, <1>5, <1>6

-------------------------------------------------------------------------------
(* What a frame of the gateway does to the partial message of its station.     *)

\* The station takes the j-th frame of p, which the gateway has just sent.
Comes(a, p, j) ==
    /\ Sound(a) /\ p \in DOMAIN a.pubs /\ j \in 1 .. a.pubs[p].total
    /\ a.pubs[p].by = Gateway /\ j < a.pubs[p].next
    /\ Fresh(a, p)
    /\ \A q \in DOMAIN a.pubs : q # p => Carried(a, q) /\ (a.pubs[q].by = Gateway => ~InProgress(a, q))
    /\ j = 1 => /\ \A t \in Senders : a.partial[t] # NoPartial => a.partial[t].data[1] # <<p, 1>>
                /\ \A i \in DOMAIN a.delivered : a.delivered[i][1] # <<p, 1>>
    /\ a.pubs[p].fine => /\ a.pubs[p].next = j + 1
                         /\ j > 1 => a.partial[a.pubs[p].to] = Part(a, p, j - 1)

\* A frame that comes still comes if something is spoiled.
LEMMA SpoilComes ==
    ASSUME NEW a, NEW p \in DOMAIN a.pubs, NEW j \in Nat, Comes(a, p, j), NEW ps
    PROVE  /\ Comes(Spoil(a, ps), p, j) /\ Spoil(a, ps) \in Air /\ SameElse(a, Spoil(a, ps))
           /\ p \in DOMAIN Spoil(a, ps).pubs /\ \A k : Part(Spoil(a, ps), p, k) = Part(a, p, k)
           /\ Key(Spoil(a, ps), p) = Key(a, p)
<1> DEFINE b == Spoil(a, ps)
<1>1. Sound(a) /\ a \in Air /\ PubsOK(a)
  BY DEF Comes, Sound
<1>2. b \in Air /\ SameElse(a, b) /\ Spoils(a, b, ps)
  BY <1>1, SpoilIs
<1>3. SameRest(a, b)
  BY <1>2 DEF SameElse, SameRest
<1> HIDE DEF b
<1>4. Sound(b) /\ \A q \in DOMAIN a.pubs : Carried(a, q) => Carried(b, q)
  BY <1>1, <1>2, <1>3, SpoilKeeps
<1>5. /\ DOMAIN b.pubs = DOMAIN a.pubs
      /\ \A q \in DOMAIN a.pubs : /\ b.pubs[q].by = a.pubs[q].by /\ b.pubs[q].to = a.pubs[q].to
                                  /\ b.pubs[q].cid = a.pubs[q].cid /\ b.pubs[q].id = a.pubs[q].id
                                  /\ b.pubs[q].total = a.pubs[q].total /\ b.pubs[q].reused = a.pubs[q].reused
                                  /\ a.pubs[q].next <= b.pubs[q].next
                                  /\ b.pubs[q].fine => a.pubs[q].fine /\ b.pubs[q].next = a.pubs[q].next
  BY <1>2 DEF Spoils
<1>6. \A q \in DOMAIN a.pubs : a.pubs[q].next \in Nat /\ b.pubs[q].next \in Nat /\ a.pubs[q].total \in Nat
  BY <1>1, <1>2, <1>5, PubIs
<1>7. \A q \in DOMAIN a.pubs : Key(b, q) = Key(a, q)
  BY <1>5 DEF Key
<1>8. Fresh(b, p)
  BY <1>5, <1>7 DEF Fresh, Comes
<1>9. \A k : Part(b, p, k) = Part(a, p, k)
  BY <1>5 DEF Part
<1>10. \A q \in DOMAIN b.pubs : q # p => Carried(b, q) /\ (b.pubs[q].by = Gateway => ~InProgress(b, q))
  <2> SUFFICES ASSUME NEW q \in DOMAIN a.pubs, q # p
               PROVE  Carried(b, q) /\ (b.pubs[q].by = Gateway => ~InProgress(b, q))
    BY <1>5
  <2>1. Carried(a, q) /\ (a.pubs[q].by = Gateway => ~InProgress(a, q))
    BY DEF Comes
  <2>2. Carried(b, q)
    BY <1>4, <2>1
  <2>3. b.pubs[q].by = Gateway => ~InProgress(b, q)
    BY <1>5, <1>6, <2>1 DEF InProgress
  <2> QED BY <2>2, <2>3
<1>11. /\ b.partial = a.partial /\ b.delivered = a.delivered
  BY <1>2 DEF SameElse
<1>12. /\ p \in DOMAIN b.pubs /\ j \in 1 .. b.pubs[p].total /\ b.pubs[p].by = Gateway /\ j < b.pubs[p].next
  BY <1>5, <1>6 DEF Comes
<1>13. j = 1 => /\ \A t \in Senders : b.partial[t] # NoPartial => b.partial[t].data[1] # <<p, 1>>
                /\ \A i \in DOMAIN b.delivered : b.delivered[i][1] # <<p, 1>>
  BY <1>11 DEF Comes
<1>14. b.pubs[p].fine => /\ b.pubs[p].next = j + 1
                         /\ j > 1 => b.partial[b.pubs[p].to] = Part(b, p, j - 1)
  BY <1>5, <1>9, <1>11 DEF Comes
<1>15. Comes(b, p, j)
  BY <1>4, <1>8, <1>10, <1>12, <1>13, <1>14 DEF Comes
<1> QED BY <1>2, <1>7, <1>9, <1>12, <1>15 DEF b

\* What a gateway's frame carries.
LEMMA ComesIs ==
    ASSUME NEW a, NEW p \in DOMAIN a.pubs, NEW j \in Nat, Comes(a, p, j), NEW f, f = FragmentIn(a, p, j)
    PROVE  /\ f.from = Gateway /\ f.cid = a.pubs[p].cid /\ f.id = a.pubs[p].id
           /\ f.index = j - 1 /\ f.total = a.pubs[p].total /\ f.data = <<p, j>> /\ f.data[1] = p
           /\ a \in Air /\ j >= 1 /\ j <= a.pubs[p].total /\ a.pubs[p].total \in Nat /\ f.cid \in Nat \ {0}
           /\ a.pubs[p].to \in Senders
<1>1. a \in Air /\ PubsOK(a) /\ a.pubs[p].by = Gateway /\ j \in 1 .. a.pubs[p].total
  BY DEF Comes, Sound
<1>2. a.pubs[p].total \in Nat /\ a.pubs[p].cid \in Nat \ {0}
  BY <1>1, PubIs
<1>3. a.pubs[p].to \in Senders
  BY <1>1 DEF PubsOK
<1>4. /\ f.from = Gateway /\ f.cid = a.pubs[p].cid /\ f.id = a.pubs[p].id
      /\ f.index = j - 1 /\ f.total = a.pubs[p].total /\ f.data = <<p, j>>
  BY <1>1 DEF FragmentIn
<1> QED BY <1>1, <1>2, <1>3, <1>4

\* What the gateway sends begins no message of a station's.
LEMMA ThisWay ==
    ASSUME NEW a, Sound(a), NEW d \in Seq(Nat \X Nat), 1 \in DOMAIN d, d[1][1] \in DOMAIN a.pubs, a.pubs[d[1][1]].by = Gateway
    PROVE  /\ \A k \in Held(a) : a.slots[k].data[1] # d[1]
           /\ \A k \in DOMAIN a.uplink : a.uplink[k].data # d[1]
<1>1. a \in Air /\ SlotsOK(a) /\ FramesOK(a)
  BY DEF Sound
<1>2. ASSUME NEW k \in Held(a) PROVE a.slots[k].data[1] # d[1]
  <2>1. a.slots[k] \in Part_ /\ a.slots[k].from # Gateway /\ PartOK(a, a.slots[k])
    BY <1>1, HeldIs DEF SlotsOK
  <2>2. a.slots[k].data \in Seq(Nat \X Nat)
    BY <2>1 DEF Part_
  <2>3. 1 \in DOMAIN a.slots[k].data
    BY <1>1, <2>1, <2>2, OpensAt DEF PartOK
  <2>4. Key(a, a.slots[k].data[1][1])[1] # Gateway
    BY <2>1, <2>3, OfItsSender
  <2> QED BY <2>4 DEF Key
<1>3. ASSUME NEW k \in DOMAIN a.uplink PROVE a.uplink[k].data # d[1]
  <2>1. FrameOK(a, a.uplink[k])
    BY <1>1 DEF FramesOK
  <2>2. d[1][1] # 0
    BY <1>1, PubIs
  <2>3. CASE a.uplink[k].data = <<0, 0>>
    BY <2>2, <2>3
  <2>4. ASSUME NEW q \in DOMAIN a.pubs, NEW i \in 1 .. a.pubs[q].total, a.pubs[q].by # Gateway,
               a.uplink[k] = FragmentIn(a, q, i)
        PROVE  a.uplink[k].data # d[1]
    <3>1. a.uplink[k].data[1] = q
      BY <2>4 DEF FragmentIn
    <3> QED BY <2>4, <3>1
  <2> QED BY <2>1, <2>3, <2>4 DEF FrameOK
<1> QED BY <1>2, <1>3

\* The others are as they were.
LEMMA ComesOthers ==
    ASSUME NEW a, NEW p \in DOMAIN a.pubs, NEW j \in Nat, Comes(a, p, j), NEW b \in Air, Tables(a, b), b.slots = a.slots,
           \A x \in DOMAIN a.delivered : x \in DOMAIN b.delivered /\ b.delivered[x] = a.delivered[x]
    PROVE  \A q \in DOMAIN a.pubs : q # p => Carried(b, q)
<1> SUFFICES ASSUME NEW q \in DOMAIN a.pubs, q # p PROVE Carried(b, q)
  OBVIOUS
<1>1. a \in Air /\ Carried(a, q) /\ (a.pubs[q].by = Gateway => ~InProgress(a, q))
  BY DEF Comes, Sound
<1>2. a.pubs[q].by = Gateway => ~(a.pubs[q].next <= a.pubs[q].total)
  BY <1>1 DEF InProgress
<1> QED BY <1>1, <1>2, CarriedKept DEF Tables

\* What the frame's own message needs, its station's memory gives.
LEMMA ComesOwn ==
    ASSUME NEW a, NEW p \in DOMAIN a.pubs, NEW j \in Nat, Comes(a, p, j), NEW b \in Air, Tables(a, b),
           a.pubs[p].fine /\ j < a.pubs[p].total => b.partial[a.pubs[p].to] = Part(a, p, j),
           a.pubs[p].fine /\ j = a.pubs[p].total => \E x \in DOMAIN b.delivered : b.delivered[x] = Upto(p, j)
    PROVE  Carried(b, p)
<1> SUFFICES ASSUME b.pubs[p].fine
             PROVE  IF b.pubs[p].by = Gateway THEN CarriedDown(b, p) ELSE CarriedUp(b, p)
  BY DEF Carried
<1>1. /\ a \in Air /\ a.pubs[p].by = Gateway /\ a.pubs[p].fine /\ a.pubs[p].next = j + 1 /\ b.pubs = a.pubs
      /\ a.pubs[p].total \in Nat
  BY ComesIs DEF Comes, Tables
<1>2. Part(b, p, j) = Part(a, p, j) /\ b.pubs[p].next - 1 = j
  <2>1. b.pubs = a.pubs /\ a.pubs[p].next = j + 1
    BY <1>1
  <2>2. Part(b, p, j) = Part(a, p, j)
    BY <2>1 DEF Part
  <2>3. b.pubs[p].next - 1 = j
    BY <2>1
  <2> QED BY <2>2, <2>3
<1>3. 1 < b.pubs[p].next /\ b.pubs[p].next <= b.pubs[p].total => b.partial[b.pubs[p].to] = Part(b, p, b.pubs[p].next - 1)
  BY <1>1, <1>2
<1>4. b.pubs[p].next = b.pubs[p].total + 1 => \E x \in DOMAIN b.delivered : b.delivered[x] = Upto(p, b.pubs[p].total)
  BY <1>1
<1> QED BY <1>1, <1>3, <1>4 DEF CarriedDown

\* The station's partial message and what is delivered, after a frame.
Placed(a, s, y) == [a EXCEPT !.partial[s] = y]
Handed(a, s, d) == [a EXCEPT !.partial[s] = NoPartial, !.delivered = Append(@, d)]
Places(a, b, s, y) ==
    /\ Tables(a, b) /\ b.slots = a.slots /\ b.partial[s] = y
    /\ \A t \in Senders : t # s => b.partial[t] = a.partial[t]

\* A station's memory given another content leaves the rest.
LEMMA PlacedIs ==
    ASSUME NEW a \in Air, NEW s \in Senders, NEW y \in Partials
    PROVE  /\ Placed(a, s, y) \in Air /\ Places(a, Placed(a, s, y), s, y) /\ Placed(a, s, y).delivered = a.delivered
<1> DEFINE P == [a.partial EXCEPT ![s] = y]
           b == Placed(a, s, y)
<1>1. a.partial \in [Senders -> Partials]
  BY DEF Air
<1>2. P \in [Senders -> Partials] /\ P[s] = y /\ \A t \in Senders : t # s => P[t] = a.partial[t]
  BY <1>1
<1>3. b = [a EXCEPT !.partial = P]
  BY DEF Placed
<1> HIDE DEF P, b
<1>4. b \in Air
  BY <1>2, <1>3 DEF Air
<1>5. /\ b.pubs = a.pubs /\ b.uplink = a.uplink /\ b.session = a.session /\ b.joined = a.joined
      /\ b.delivered = a.delivered /\ b.slots = a.slots /\ b.partial = P
  BY <1>3 DEF Air
<1>6. Places(a, b, s, y) /\ b.delivered = a.delivered
  BY <1>2, <1>5 DEF Places, Tables
<1> QED BY <1>4, <1>6 DEF b

\* A station's message handed over leaves its memory empty, and the rest as it was.
LEMMA HandedIs ==
    ASSUME NEW a \in Air, NEW s \in Senders, NEW d \in Seq(Nat \X Nat)
    PROVE  /\ Handed(a, s, d) \in Air /\ Places(a, Handed(a, s, d), s, NoPartial)
           /\ Handed(a, s, d).delivered = Append(a.delivered, d)
<1> DEFINE P == [a.partial EXCEPT ![s] = NoPartial]
           D == Append(a.delivered, d)
           b == Handed(a, s, d)
<1>1. a.partial \in [Senders -> Partials] /\ NoPartial \in Partials
  BY DEF Air, Partials
<1>2. P \in [Senders -> Partials] /\ P[s] = NoPartial /\ \A t \in Senders : t # s => P[t] = a.partial[t]
  BY <1>1
<1>3. D \in Seq(Seq(Nat \X Nat))
  BY DEF Air
<1>4. b = [a EXCEPT !.partial = P, !.delivered = D]
  BY DEF Handed
<1> HIDE DEF P, D, b
<1>5. b \in Air
  BY <1>2, <1>3, <1>4 DEF Air
<1>6. /\ b.pubs = a.pubs /\ b.uplink = a.uplink /\ b.session = a.session /\ b.joined = a.joined
      /\ b.delivered = D /\ b.slots = a.slots /\ b.partial = P
  BY <1>4 DEF Air
<1>7. Places(a, b, s, NoPartial) /\ b.delivered = D
  BY <1>2, <1>6 DEF Places, Tables
<1> QED BY <1>5, <1>7 DEF b, D

\* Its partial message is of p's id and session, and not too old.
Waits(a, s, p) ==
    /\ a.partial[s] # NoPartial /\ ~a.partial[s].old
    /\ a.partial[s].cid = a.pubs[p].cid /\ a.partial[s].id = a.pubs[p].id

\* A station that waits for a frame of this key holds a part of it, and what else is in
\* it is spoiled.
LEMMA WaitIs ==
    ASSUME NEW a, NEW p \in DOMAIN a.pubs, NEW j \in Nat, Comes(a, p, j), NEW s \in Senders, s = a.pubs[p].to, Waits(a, s, p)
    PROVE  /\ a.partial[s] \in Part_ /\ PartOK(a, a.partial[s]) /\ a.partial[s].from = Gateway
           /\ Key(a, p) = <<a.partial[s].from, a.partial[s].cid, a.partial[s].id>>
           /\ \A q \in Within(a.partial[s]) : /\ q \in DOMAIN a.pubs
                                              /\ q # p => /\ ~a.pubs[q].fine /\ ~a.pubs[p].fine
                                                          /\ a.pubs[p].reused \/ a.pubs[q].reused
           /\ a.pubs[p].fine => j > 1 /\ a.partial[s] = Part(a, p, j - 1)
<1> DEFINE x == a.partial[s]
<1>1. Sound(a) /\ a \in Air /\ PartialsOK(a) /\ Fresh(a, p) /\ x # NoPartial /\ ~x.old
  BY DEF Comes, Sound, Waits
<1>2. x \in Part_ /\ PartOK(a, x) /\ x.from = Gateway
  BY <1>1, HeldIs DEF PartialsOK
<1>3. Key(a, p) = <<x.from, x.cid, x.id>>
  <2>1. a.pubs[p].by = Gateway
    BY DEF Comes
  <2> QED BY <1>2, <2>1 DEF Waits, Key
<1>4. ASSUME NEW q \in Within(x)
      PROVE  /\ q \in DOMAIN a.pubs
             /\ q # p => ~a.pubs[q].fine /\ ~a.pubs[p].fine /\ (a.pubs[p].reused \/ a.pubs[q].reused)
  <2>1. PICK k \in DOMAIN x.data : x.data[k][1] = q
    BY <1>2, WithinIs, Zenon
  <2>2. q \in DOMAIN a.pubs /\ Key(a, q) = Key(a, p)
    BY <1>2, <1>3, <2>1, Zenon DEF PartOK, Tokens
  <2>3. ~Dead(a, q)
    BY <1>1 DEF Dead
  <2> QED BY <1>1, <2>2, <2>3, SameKey, Zenon
<1>5. ASSUME a.pubs[p].fine PROVE j > 1 /\ x = Part(a, p, j - 1)
  <2>1. j > 1
    <3>1. x.data \in Seq(Nat \X Nat) /\ Tokens(a, x.data) /\ Opens(a, x.data)
      BY <1>2, Zenon DEF PartOK, Part_
    <3>2. 1 \in DOMAIN x.data /\ x.data[1] = <<x.data[1][1], 1>>
      BY <1>1, <3>1, OpensAt, Zenon
    <3>3. x.data[1][1] \in Within(x)
      BY <1>2, <3>2, WithinIs, Zenon
    <3>4. x.data[1] = <<p, 1>>
      BY <1>4, <1>5, <3>2, <3>3, Zenon
    <3>5. j # 1
      BY <1>1, <3>4, Zenon DEF Comes
    <3>6. j \in 1 .. a.pubs[p].total
      BY DEF Comes
    <3> QED BY <3>5, <3>6
  <2>2. x = Part(a, p, j - 1)
    BY <1>5, <2>1 DEF Comes
  <2> QED BY <2>1, <2>2
<1> HIDE DEF x
<1>6. \A q \in Within(x) : /\ q \in DOMAIN a.pubs
                           /\ q # p => ~a.pubs[q].fine /\ ~a.pubs[p].fine /\ (a.pubs[p].reused \/ a.pubs[q].reused)
  BY <1>4
<1> QED BY <1>2, <1>3, <1>5, <1>6 DEF x

\* As far as the frame that is waited for needs it.
LEMMA WaitFor ==
    ASSUME NEW a, NEW p \in DOMAIN a.pubs, NEW j \in Nat, Comes(a, p, j), NEW s \in Senders, s = a.pubs[p].to, Waits(a, s, p)
    PROVE  /\ a.partial[s] \in Part_ /\ PartOK(a, a.partial[s]) /\ a.partial[s].from = Gateway
           /\ Key(a, p) = <<a.partial[s].from, a.partial[s].cid, a.partial[s].id>>
           /\ \A q \in Within(a.partial[s]) : q # p => a.pubs[p].reused \/ a.pubs[q].reused
           /\ a.pubs[p].fine => a.partial[s] = Part(a, p, j - 1)
  BY WaitIs

\* A frame that does not fit: its message is lost already.
LEMMA LostPartFed ==
    ASSUME NEW a, NEW p \in DOMAIN a.pubs, NEW j \in Nat, Comes(a, p, j), NEW s \in Senders, ~a.pubs[p].fine,
           NEW y, y = NoPartial \/ y = a.partial[s]
    PROVE  Fed(Placed(a, s, y))
<1> DEFINE b == Placed(a, s, y)
<1>1. Sound(a) /\ a \in Air /\ PubsOK(a)
  BY DEF Comes, Sound
<1>2. y \in Partials
  BY <1>1 DEF Air, Partials
<1>3. b \in Air /\ Places(a, b, s, y) /\ b.delivered = a.delivered
  BY <1>1, <1>2, PlacedIs
<1> HIDE DEF b
<1>4. /\ Tables(a, b) /\ b.slots = a.slots
      /\ \A t \in Senders : b.partial[t] # NoPartial => b.partial[t] = a.partial[t]
  BY <1>3 DEF Places
<1>5. Fades(a, b)
  <2>1. Spoils(a, b, {})
    <3>1. Spoils(a, a, {})
      BY <1>1, SpoilsNone
    <3> QED BY <1>4, <3>1 DEF Spoils, Tables
  <2>2. PartsFade(a, b)
    <3>1. Held(b) = Held(a)
      BY <1>4 DEF Held
    <3> QED BY <1>4, <3>1, FadedSelf DEF PartsFade
  <2>3. UplinkFades(a, b)
    BY <1>4 DEF UplinkFades, Tables
  <2> QED BY <1>1, <1>3, <2>1, <2>2, <2>3, SpoiledFades
<1>6. Sound(b)
  BY <1>1, <1>3, <1>5, FadeSound
<1>7. Carried(b, p)
  BY <1>4 DEF Carried, Tables
<1>8. \A q \in DOMAIN a.pubs : q # p => Carried(b, q)
  <2>1. b \in Air /\ \A x \in DOMAIN a.delivered : x \in DOMAIN b.delivered /\ b.delivered[x] = a.delivered[x]
    BY <1>3
  <2> QED BY <1>4, <2>1, ComesOthers
<1> QED BY <1>4, <1>6, <1>7, <1>8 DEF Fed, Tables, b

\* A station's partial message that begins or goes on does no harm to what holds of
\* every state.
LEMMA PlacedSound ==
    ASSUME NEW a, Sound(a), NEW b \in Air, NEW p \in DOMAIN a.pubs, Fresh(a, p), NEW s \in Senders, NEW y \in Part_,
           Places(a, b, s, y), b.delivered = a.delivered, PartOK(a, y), y.from = Gateway,
           \A t \in Senders : t # s /\ a.partial[t] # NoPartial => a.partial[t].data[1] # y.data[1],
           \A k \in DOMAIN a.delivered : a.delivered[k][1] # y.data[1],
           \A q \in Within(y) : q = p \/ (q \in Within(a.partial[s]) /\ ~a.partial[s].old)
    PROVE  Sound(b)
<1>1. /\ a \in Air /\ SlotsOK(a) /\ PartialsOK(a) /\ DeliveredOK(a) /\ OpenersOnce(a) /\ SlotKeys(a)
      /\ b.pubs = a.pubs /\ b.uplink = a.uplink /\ b.slots = a.slots /\ b.partial[s] = y
  BY DEF Sound, Places, Tables
<1>2. \A t \in Senders : (t = s /\ b.partial[t] = y) \/ (t # s /\ b.partial[t] = a.partial[t])
  BY <1>1 DEF Places
<1>3. y # NoPartial /\ Held(b) = Held(a)
  BY <1>1, HeldIs DEF Held
<1>4. \A x : PartOK(a, x) => PartOK(b, x)
  BY <1>1, Zenon DEF PartOK, Tokens, Opens, Key, Tainted
<1>5. SlotsOK(b) /\ SlotKeys(b)
  <2>1. SlotsOK(b)
    BY <1>1, <1>3, <1>4 DEF SlotsOK
  <2>2. SlotKeys(b)
    BY <1>1, <1>3 DEF SlotKeys
  <2> QED BY <2>1, <2>2
<1>6. PartialsOK(b)
  BY <1>1, <1>2, <1>4 DEF PartialsOK
<1>7. DeliveredOK(b)
  BY <1>1 DEF DeliveredOK, WholeOK, Tokens, Opens, Tainted
<1>8. OpenersOnce(b)
  <2>1. \A t, u \in Senders :
            a.partial[t] # NoPartial /\ a.partial[u] # NoPartial /\ a.partial[t].data[1] = a.partial[u].data[1] => t = u
    BY <1>1 DEF OpenersOnce
  <2>2. ASSUME NEW t \in Senders, NEW u \in Senders, t # u, b.partial[t] # NoPartial, b.partial[u] # NoPartial
        PROVE  b.partial[t].data[1] # b.partial[u].data[1]
    <3>1. CASE t = s
      BY <1>2, <2>2, <3>1
    <3>2. CASE u = s
      BY <1>2, <2>2, <3>2
    <3>3. CASE t # s /\ u # s
      BY <1>2, <2>1, <2>2, <3>3
    <3> QED BY <3>1, <3>2, <3>3
  <2>3. \A t \in Senders : \A l \in DOMAIN a.delivered :
            a.partial[t] # NoPartial => a.partial[t].data[1] # a.delivered[l][1]
    BY <1>1 DEF OpenersOnce
  <2>4. \A t \in Senders : \A l \in DOMAIN b.delivered :
            b.partial[t] # NoPartial => b.partial[t].data[1] # b.delivered[l][1]
    BY <1>2, <2>3
  <2> QED BY <1>1, <1>3, <2>2, <2>4 DEF OpenersOnce
<1>9. \A k \in Held(b) : \A q \in Within(b.slots[k]) : q = p \/ (k \in Held(a) /\ q \in Within(a.slots[k]))
  BY <1>1, <1>3
<1>10. \A t \in Senders : \A q \in Within(b.partial[t]) :
          b.partial[t] = a.partial[t] \/ q = p \/ (q \in Within(a.partial[t]) /\ ~a.partial[t].old)
  BY <1>2
<1> QED BY <1>1, <1>5, <1>6, <1>7, <1>8, <1>9, <1>10, ChangedSound

\* A first frame at a station begins a message, whatever was held before.
LEMMA BegunDownFed ==
    ASSUME NEW a, NEW p \in DOMAIN a.pubs, Comes(a, p, 1), 1 < a.pubs[p].total, NEW s \in Senders, s = a.pubs[p].to
    PROVE  Fed(Placed(a, s, Part(a, p, 1)))
<1> DEFINE y == Part(a, p, 1)
           b == Placed(a, s, y)
<1>1. /\ Sound(a) /\ a \in Air /\ Fresh(a, p) /\ a.pubs[p].by = Gateway /\ 1 < a.pubs[p].next
  BY DEF Comes, Sound
<1>2. /\ y \in Part_ /\ PartOK(a, y) /\ y.data[1] = <<p, 1>> /\ \A q \in Within(y) : q = p
  <2>1. /\ Part(a, p, 1) \in Part_ /\ PartOK(a, Part(a, p, 1))
        /\ Part(a, p, 1).data[1] = <<p, 1>> /\ \A q \in Within(Part(a, p, 1)) : q = p
    BY <1>1, BegunIs
  <2> QED BY <2>1
<1>3. y.from = Gateway
  BY <1>1 DEF Part
<1>4. y = Part(a, p, 1)
  OBVIOUS
<1> HIDE DEF y
<1>5. b \in Air /\ Places(a, b, s, y) /\ b.delivered = a.delivered
  <2>1. y \in Partials
    BY <1>2 DEF Part_, Partials
  <2> QED BY <1>1, <2>1, PlacedIs
<1> HIDE DEF b
<1>6. /\ \A t \in Senders : t # s /\ a.partial[t] # NoPartial => a.partial[t].data[1] # y.data[1]
      /\ \A k \in DOMAIN a.delivered : a.delivered[k][1] # y.data[1]
  BY <1>2 DEF Comes
<1>7. Sound(b)
  BY <1>1, <1>2, <1>3, <1>5, <1>6, PlacedSound
<1>8. Tables(a, b) /\ b.slots = a.slots /\ b.partial[s] = y
  BY <1>5 DEF Places
<1>9. Carried(b, p)
  <2>1. 1 # a.pubs[p].total /\ 1 \in Nat
    BY <1>1, PubIs
  <2> QED BY <1>4, <1>5, <1>8, <2>1, ComesOwn
<1>10. \A q \in DOMAIN a.pubs : q # p => Carried(b, q)
  <2>1. \A x \in DOMAIN a.delivered : x \in DOMAIN b.delivered /\ b.delivered[x] = a.delivered[x]
    BY <1>5
  <2> QED BY <1>5, <1>8, <2>1, ComesOthers
<1> QED BY <1>4, <1>7, <1>8, <1>9, <1>10 DEF Fed, Tables, b

\* The frame that a station waited for, with others to come, is appended.
LEMMA ExtendedDownFed ==
    ASSUME NEW a, NEW p \in DOMAIN a.pubs, NEW j \in Nat, Comes(a, p, j), NEW s \in Senders, s = a.pubs[p].to,
           Waits(a, s, p), j - 1 = a.partial[s].next, j < a.partial[s].total, NEW f \in AnyFrames, f.data = <<p, j>>
    PROVE  Fed(Placed(a, s, Extended(a.partial[s], f)))
<1> DEFINE x == a.partial[s]
           y == Extended(a.partial[s], f)
           b == Placed(a, s, y)
<1>1. Sound(a) /\ a \in Air /\ OpenersOnce(a) /\ Fresh(a, p) /\ x # NoPartial /\ ~x.old /\ j \in 1 .. a.pubs[p].total
  BY Zenon DEF Comes, Sound, Waits
<1>2. /\ x \in Part_ /\ PartOK(a, x) /\ x.from = Gateway /\ Key(a, p) = <<x.from, x.cid, x.id>>
      /\ \A q \in Within(x) : q # p => /\ ~a.pubs[q].fine
                                       /\ a.pubs[p].reused \/ a.pubs[q].reused
      /\ a.pubs[p].fine => x = Part(a, p, j - 1)
  BY WaitIs
<1>3. Goes(a, x, p, j) /\ j < x.total
  BY <1>1, <1>2, Zenon DEF Goes
<1>4. /\ y \in Part_ /\ PartOK(a, y) /\ y.from = x.from /\ y.data[1] = x.data[1]
      /\ \A q \in Within(y) : q = p \/ q \in Within(x)
      /\ x = Part(a, p, j - 1) => y = Part(a, p, j)
  <2> HIDE DEF x
  <2>1. a \in Air /\ x \in Part_ /\ Goes(a, x, p, j) /\ j < x.total
    BY <1>1, <1>2, <1>3
  <2>2. /\ Extended(x, f) \in Part_ /\ PartOK(a, Extended(x, f))
        /\ Extended(x, f).from = x.from /\ Extended(x, f).cid = x.cid /\ Extended(x, f).id = x.id
        /\ Extended(x, f).data = More(x, p, j) /\ Extended(x, f).data[1] = x.data[1]
        /\ \A q \in Within(Extended(x, f)) : q = p \/ q \in Within(x)
        /\ x = Part(a, p, j - 1) => Extended(x, f) = Part(a, p, j)
    BY <2>1, ExtendedIs
  <2>3. y = Extended(x, f)
    BY DEF x
  <2> HIDE DEF y
  <2> QED BY <2>2, <2>3
<1> HIDE DEF y
<1>5. b \in Air /\ Places(a, b, s, y) /\ b.delivered = a.delivered
  <2>1. y \in Partials
    BY <1>4 DEF Part_, Partials
  <2> QED BY <1>1, <2>1, PlacedIs, Zenon
<1> HIDE DEF b
<1>6. /\ \A t \in Senders : t # s /\ a.partial[t] # NoPartial => a.partial[t].data[1] # y.data[1]
      /\ \A k \in DOMAIN a.delivered : a.delivered[k][1] # y.data[1]
  <2>1. \A t \in Senders : t # s /\ a.partial[t] # NoPartial => a.partial[t].data[1] # y.data[1]
    BY <1>1, <1>4, PartialOpens
  <2>2. \A k \in DOMAIN a.delivered : a.delivered[k][1] # y.data[1]
    BY <1>1, <1>4, PartialOpens
  <2> QED BY <2>1, <2>2, Zenon
<1>7. Sound(b)
  <2>1. \A q \in Within(y) : q = p \/ (q \in Within(a.partial[s]) /\ ~a.partial[s].old)
    BY <1>1, <1>4, Zenon
  <2>2. y.from = Gateway /\ y \in Part_ /\ PartOK(a, y)
    BY <1>2, <1>4, Zenon
  <2> QED BY <1>1, <1>5, <1>6, <2>1, <2>2, PlacedSound
<1>8. Tables(a, b) /\ b.slots = a.slots /\ b.partial[s] = y
  BY <1>5 DEF Places
<1>9. Carried(b, p)
  <2>1. a.pubs[p].fine => b.partial[a.pubs[p].to] = Part(a, p, j)
    BY <1>2, <1>4, <1>8, Zenon
  <2>2. a.pubs[p].fine => j # a.pubs[p].total
    <3>1. a.pubs[p].fine => x.total = a.pubs[p].total
      BY <1>2 DEF Part
    <3> QED BY <1>3, <3>1
  <2> QED BY <1>5, <1>8, <2>1, <2>2, ComesOwn, Zenon
<1>10. \A q \in DOMAIN a.pubs : q # p => Carried(b, q)
  <2>1. \A z \in DOMAIN a.delivered : z \in DOMAIN b.delivered /\ b.delivered[z] = a.delivered[z]
    BY <1>5
  <2> QED BY <1>5, <1>8, <2>1, ComesOthers
<1> QED BY <1>7, <1>8, <1>9, <1>10, Zenon DEF Fed, Tables, b, y

\* The station's message, or a whole one, is handed on.
LEMMA GivesDown ==
    ASSUME NEW a, Sound(a), NEW b \in Air, NEW d \in Seq(Nat \X Nat), 1 \in DOMAIN d, d[1][1] \in DOMAIN a.pubs,
           a.pubs[d[1][1]].by = Gateway, Tables(a, b), b.slots = a.slots, b.delivered = Append(a.delivered, d),
           \A k \in DOMAIN a.delivered : a.delivered[k][1] # d[1],
           \A t \in Senders : b.partial[t] # NoPartial => b.partial[t] = a.partial[t] /\ b.partial[t].data[1] # d[1]
    PROVE  Gives(a, b, d)
<1>1. /\ \A k \in Held(a) : a.slots[k].data[1] # d[1]
      /\ \A k \in DOMAIN a.uplink : a.uplink[k].data # d[1]
  BY ThisWay
<1>2. Held(b) = Held(a)
  BY DEF Held
<1>3. \A k \in Held(b) : k \in Held(a) /\ b.slots[k] = a.slots[k] /\ a.slots[k].data[1] # d[1]
  BY <1>1, <1>2
<1> QED BY <1>1, <1>3 DEF Gives

\* The frame that a station waited for and is the last hands the message over.
LEMMA FinishedDownFed ==
    ASSUME NEW a, NEW p \in DOMAIN a.pubs, NEW j \in Nat, Comes(a, p, j), NEW s \in Senders, s = a.pubs[p].to,
           Waits(a, s, p), j - 1 = a.partial[s].next, ~(j < a.partial[s].total)
    PROVE  Fed(Handed(a, s, More(a.partial[s], p, j)))
<1> DEFINE x == a.partial[s]
           d == More(a.partial[s], p, j)
           b == Handed(a, s, d)
<1>1. Sound(a) /\ a \in Air /\ OpenersOnce(a) /\ Fresh(a, p) /\ x # NoPartial /\ j \in 1 .. a.pubs[p].total
  BY Zenon DEF Comes, Sound, Waits
<1>2. /\ x \in Part_ /\ PartOK(a, x) /\ x.from = Gateway /\ Key(a, p) = <<x.from, x.cid, x.id>>
      /\ \A q \in Within(x) : q # p => a.pubs[p].reused \/ a.pubs[q].reused
      /\ a.pubs[p].fine => x = Part(a, p, j - 1)
  BY WaitFor, Zenon
<1>3. Goes(a, x, p, j) /\ j = x.total
  <2>1. Goes(a, x, p, j)
    BY <1>1, <1>2, Zenon DEF Goes
  <2>2. x.next < x.total /\ x.total \in Nat /\ x.next = j - 1
    BY <1>2, Zenon DEF PartOK, Part_
  <2>3. j = x.total
    BY <2>2
  <2> QED BY <2>1, <2>3, Zenon
<1>4. d \in Seq(Nat \X Nat) /\ WholeOK(a, d) /\ d[1] = x.data[1] /\ (x = Part(a, p, j - 1) => d = Upto(p, j))
  <2> HIDE DEF x
  <2>1. a \in Air /\ x \in Part_ /\ Goes(a, x, p, j) /\ j = x.total
    BY <1>1, <1>2, <1>3
  <2>2. /\ More(x, p, j) \in Seq(Nat \X Nat) /\ WholeOK(a, More(x, p, j)) /\ More(x, p, j)[1] = x.data[1]
        /\ x = Part(a, p, j - 1) => More(x, p, j) = Upto(p, j)
    BY <2>1, FinishedIs
  <2>3. d = More(x, p, j)
    BY DEF x
  <2> HIDE DEF d
  <2> QED BY <2>2, <2>3
<1> HIDE DEF d
<1>5. 1 \in DOMAIN d /\ d[1][1] \in DOMAIN a.pubs /\ a.pubs[d[1][1]].by = Gateway
  <2>1. 1 \in DOMAIN x.data /\ 1 \in DOMAIN d
    BY <1>1, <1>2, <1>4, OpensAt, Zenon DEF PartOK, WholeOK, Part_
  <2>2. Key(a, x.data[1][1])[1] = x.from /\ x.data[1][1] \in DOMAIN a.pubs
    <3>1. x.data[1][1] \in DOMAIN a.pubs
      BY <1>2, <2>1, Zenon DEF PartOK, Tokens
    <3>2. Key(a, x.data[1][1]) = <<x.from, x.cid, x.id>>
      BY <1>2, <2>1, Zenon DEF PartOK
    <3> QED BY <3>1, <3>2
  <2>3. a.pubs[x.data[1][1]].by = x.from
    BY <2>2, Zenon DEF Key
  <2> QED BY <1>2, <1>4, <2>1, <2>2, <2>3, Zenon
<1>6. b \in Air /\ Places(a, b, s, NoPartial) /\ b.delivered = Append(a.delivered, d)
  BY <1>1, <1>4, HandedIs, Zenon
<1> HIDE DEF b
<1>7. Tables(a, b) /\ b.slots = a.slots
  BY <1>6 DEF Places
<1>8. Gives(a, b, d)
  <2>1. \A k \in DOMAIN a.delivered : a.delivered[k][1] # d[1]
    BY <1>1, <1>4, PartialOpens
  <2>2. ASSUME NEW t \in Senders, b.partial[t] # NoPartial
        PROVE  b.partial[t] = a.partial[t] /\ b.partial[t].data[1] # d[1]
    <3>1. t # s /\ b.partial[t] = a.partial[t]
      BY <1>6, <2>2, Zenon DEF Places
    <3>2. a.partial[t].data[1] # x.data[1]
      BY <1>1, <2>2, <3>1 DEF OpenersOnce
    <3> QED BY <1>4, <3>1, <3>2
  <2> QED BY <1>1, <1>4, <1>5, <1>6, <1>7, <2>1, <2>2, GivesDown, Zenon
<1>9. /\ Sound(b)
      /\ \A z \in DOMAIN a.delivered : z \in DOMAIN b.delivered /\ b.delivered[z] = a.delivered[z]
      /\ \E z \in DOMAIN b.delivered : b.delivered[z] = d
  <2>1. b \in Air
    BY <1>6
  <2> QED BY <1>1, <1>4, <1>8, <2>1, MoreDeliveredSound
<1>10. Carried(b, p)
  <2>1. a.pubs[p].fine => d = Upto(p, j)
    BY <1>2, <1>4, Zenon
  <2>2. a.pubs[p].fine => ~(j < a.pubs[p].total)
    <3>1. a.pubs[p].fine => x.total = a.pubs[p].total
      BY <1>2 DEF Part
    <3> QED BY <3>1, Zenon
  <2> QED BY <1>6, <1>7, <1>9, <2>1, <2>2, ComesOwn
<1>11. \A q \in DOMAIN a.pubs : q # p => Carried(b, q)
  BY <1>6, <1>7, <1>9, ComesOthers
<1> QED BY <1>7, <1>9, <1>10, <1>11, Zenon DEF Fed, Tables, b, d

\* A gateway's message of one fragment is handed over at once.
LEMMA WholeDownFed ==
    ASSUME NEW a, NEW p \in DOMAIN a.pubs, NEW j \in Nat, Comes(a, p, j), a.pubs[p].total = 1
    PROVE  Fed(Given(a, <<<<p, j>>>>))
<1> DEFINE d == Upto(p, 1)
           b == Given(a, d)
<1>1. Sound(a) /\ a \in Air /\ Fresh(a, p) /\ j \in 1 .. 1 /\ a.pubs[p].by = Gateway /\ j < a.pubs[p].next
  BY DEF Comes, Sound
<1>2. j = 1 /\ 1 < a.pubs[p].next
  BY <1>1
<1>3. <<<<p, j>>>> = d /\ d \in Seq(Nat \X Nat) /\ WholeOK(a, d) /\ d[1] = <<p, 1>>
  BY <1>1, <1>2, WholeIs
<1>4. d = Upto(p, j) /\ 1 \in DOMAIN d /\ d[1][1] \in DOMAIN a.pubs /\ a.pubs[d[1][1]].by = Gateway
  <2>1. 1 \in DOMAIN d
    BY <1>1, <1>3, OpensAt DEF WholeOK
  <2> QED BY <1>1, <1>2, <1>3, <2>1
<1> HIDE DEF d
<1>5. /\ b \in Air /\ Tables(a, b) /\ b.delivered = Append(a.delivered, d)
      /\ b.partial = a.partial /\ b.slots = a.slots
  BY <1>1, <1>3, GivenIs
<1> HIDE DEF b
<1>6. Gives(a, b, d)
  <2>1. \A k \in DOMAIN a.delivered : a.delivered[k][1] # d[1]
    BY <1>2, <1>3 DEF Comes
  <2>2. \A t \in Senders : b.partial[t] # NoPartial => b.partial[t] = a.partial[t] /\ b.partial[t].data[1] # d[1]
    BY <1>2, <1>3, <1>5 DEF Comes
  <2> QED BY <1>1, <1>3, <1>4, <1>5, <2>1, <2>2, GivesDown
<1>7. /\ Sound(b)
      /\ \A z \in DOMAIN a.delivered : z \in DOMAIN b.delivered /\ b.delivered[z] = a.delivered[z]
      /\ \E z \in DOMAIN b.delivered : b.delivered[z] = d
  <2>1. b \in Air /\ Sound(a) /\ Fresh(a, p) /\ d \in Seq(Nat \X Nat) /\ WholeOK(a, d)
    BY <1>1, <1>3, <1>5
  <2> QED BY <1>6, <2>1, MoreDeliveredSound
<1>8. Carried(b, p)
  <2>1. ~(j < a.pubs[p].total)
    BY <1>2
  <2> QED BY <1>4, <1>5, <1>7, <2>1, ComesOwn
<1>9. \A q \in DOMAIN a.pubs : q # p => Carried(b, q)
  BY <1>5, <1>7, ComesOthers
<1> QED BY <1>3, <1>5, <1>7, <1>8, <1>9 DEF Fed, Tables, b

\* Whatever becomes of a frame at a station, nothing is harmed.
LEMMA TakeFed ==
    ASSUME NEW a, NEW p \in DOMAIN a.pubs, NEW j \in Nat, Comes(a, p, j), NEW f, f = FragmentIn(a, p, j),
           NEW s \in Senders, s = a.pubs[p].to
    PROVE  Fed(Take(a, s, f))
<1> DEFINE x == a.partial[s]
           old == IF x # NoPartial /\ x.old THEN NoPartial ELSE x
           other == old.cid # f.cid \/ old.id # f.id
           partial == IF other THEN Begun(f) ELSE old
<1>1. /\ f.from = Gateway /\ f.cid = a.pubs[p].cid /\ f.id = a.pubs[p].id
      /\ f.index = j - 1 /\ f.total = a.pubs[p].total /\ f.data = <<p, j>> /\ f.data[1] = p
      /\ a \in Air /\ j >= 1 /\ j <= a.pubs[p].total /\ a.pubs[p].total \in Nat /\ f.cid \in Nat \ {0}
  BY ComesIs
<1>2. Take(a, s, f) =
          IF f.total = 1 THEN Given(a, <<f.data>>)
          ELSE IF other /\ f.index # 0 THEN Placed(a, s, old)
          ELSE IF f.index # partial.next THEN Placed(a, s, NoPartial)
          ELSE IF f.index + 1 < partial.total
          THEN Placed(Spoil(a, IF other THEN Within(old) ELSE {}), s, Extended(partial, f))
          ELSE Handed(a, s, Append(partial.data, f.data))
  BY DEF Take, Given, Placed, Handed
<1>3. Waits(a, s, p) => old = x /\ ~other
  BY <1>1, Zenon DEF Waits
<1>4. ~Waits(a, s, p) => other
  <2>1. NoPartial.cid = 0
    BY DEF NoPartial
  <2>2. CASE old = NoPartial
    BY <1>1, <2>1, <2>2
  <2>3. CASE old # NoPartial
    BY <1>1, <2>3 DEF Waits
  <2> QED BY <2>2, <2>3, Zenon
<1>5. old = NoPartial \/ old = a.partial[s]
  BY Zenon
<1>6. /\ other => partial = Begun(f)
      /\ ~other => partial = old
  BY Zenon
<1>7. x = a.partial[s]
  OBVIOUS
<1>8. f \in AnyFrames
  <2>1. a.pubs[p].id \in Nat /\ p \in Nat /\ f.from \in Everyone /\ f.cid \in Nat /\ f.index \in Nat /\ f.total \in Nat
    BY <1>1, PubIs DEF Everyone
  <2>2. f = [from |-> f.from, cid |-> f.cid, id |-> f.id, index |-> f.index, total |-> f.total, data |-> <<p, j>>]
    BY DEF FragmentIn
  <2> QED BY <1>1, <2>1, <2>2 DEF AnyFrames
<1> HIDE DEF partial
<1> HIDE DEF other
<1> HIDE DEF old
<1> HIDE DEF x
<1>9. CASE f.total = 1
  <2>1. Take(a, s, f) = Given(a, <<<<p, j>>>>)
    BY <1>1, <1>2, <1>9
  <2> QED BY <1>1, <1>9, <2>1, WholeDownFed
<1>10. CASE f.total # 1 /\ Waits(a, s, p)
  <2>1. old = x /\ ~other /\ partial = x
    BY <1>3, <1>6, <1>10
  <2>2. CASE f.index # x.next
    <3>1. Take(a, s, f) = Placed(a, s, NoPartial)
      BY <1>2, <1>10, <2>1, <2>2
    <3>2. ~a.pubs[p].fine
      <4> SUFFICES ASSUME a.pubs[p].fine PROVE FALSE
        OBVIOUS
      <4>1. x = Part(a, p, j - 1)
        BY <1>7, <1>10, WaitIs
      <4>2. x.next = j - 1
        BY <4>1 DEF Part
      <4> QED BY <1>1, <2>2, <4>2
    <3> QED BY <3>1, <3>2, LostPartFed
  <2>3. CASE f.index = x.next /\ f.index + 1 < x.total
    <3> DEFINE c == Spoil(a, {})
    <3>1. Take(a, s, f) = Placed(c, s, Extended(x, f))
      BY <1>2, <1>10, <2>1, <2>3
    <3>2. /\ Comes(c, p, j) /\ c \in Air /\ SameElse(a, c) /\ p \in DOMAIN c.pubs
      BY SpoilComes
    <3>3. Spoils(a, c, {})
      <4>1. PubsOK(a)
        BY DEF Comes, Sound
      <4> QED BY <1>1, <4>1, SpoilIs
    <3> HIDE DEF c
    <3>4. c.partial[s] = x /\ c.pubs[p].to = s /\ c.pubs[p].cid = a.pubs[p].cid /\ c.pubs[p].id = a.pubs[p].id
      BY <1>7, <3>2, <3>3 DEF SameElse, Spoils
    <3>5. Waits(c, s, p)
      BY <1>7, <1>10, <3>4 DEF Waits
    <3>6. j - 1 = x.next /\ j < x.total
      BY <1>1, <2>3
    <3>7. Fed(Placed(c, s, Extended(c.partial[s], f)))
      BY <1>1, <1>8, <3>2, <3>4, <3>5, <3>6, ExtendedDownFed
    <3> QED BY <3>1, <3>4, <3>7
  <2>4. CASE f.index = x.next /\ ~(f.index + 1 < x.total)
    <3>1. Take(a, s, f) = Handed(a, s, More(x, p, j))
      BY <1>1, <1>2, <1>10, <2>1, <2>4 DEF More
    <3>2. j - 1 = x.next /\ ~(j < x.total)
      BY <1>1, <2>4
    <3> QED BY <1>7, <1>10, <3>1, <3>2, FinishedDownFed
  <2> QED BY <2>2, <2>3, <2>4
<1>11. CASE f.total # 1 /\ ~Waits(a, s, p)
  <2>1. other /\ partial = Begun(f)
    BY <1>4, <1>6, <1>11
  <2>2. CASE f.index # 0
    <3>1. Take(a, s, f) = Placed(a, s, old)
      BY <1>2, <1>11, <2>1, <2>2
    <3>2. ~a.pubs[p].fine
      <4> SUFFICES ASSUME a.pubs[p].fine PROVE FALSE
        OBVIOUS
      <4>1. j > 1
        BY <1>1, <2>2
      <4>2. a.partial[s] = Part(a, p, j - 1)
        BY <4>1 DEF Comes
      <4>3. a.partial[s] \in Part_
        <5>1. j - 1 \in Nat /\ j - 1 > 0
          BY <4>1
        <5> QED BY <1>1, <4>2, <5>1, PartIs
      <4>4. a.partial[s] # NoPartial
        BY <1>1, <4>3, HeldIs
      <4>5. Waits(a, s, p)
        BY <4>2, <4>4 DEF Waits, Part
      <4> QED BY <1>11, <4>5
    <3> QED BY <1>5, <3>1, <3>2, LostPartFed
  <2>3. CASE f.index = 0
    <3> DEFINE c == Spoil(a, Within(old))
    <3>1. j = 1 /\ 1 < a.pubs[p].total /\ Comes(a, p, 1)
      BY <1>1, <1>11, <2>3
    <3>2. partial.next = 0 /\ partial.total = f.total
      BY <2>1 DEF Begun
    <3>3. Take(a, s, f) = Placed(c, s, Extended(Begun(f), f))
      <4>1. f.index = partial.next /\ f.index + 1 < partial.total
        BY <1>1, <2>3, <3>1, <3>2
      <4> QED BY <1>2, <1>11, <2>1, <2>3, <4>1
    <3>4. /\ Comes(c, p, 1) /\ c \in Air /\ SameElse(a, c) /\ p \in DOMAIN c.pubs
      BY <3>1, SpoilComes
    <3>5. Spoils(a, c, Within(old))
      <4>1. PubsOK(a)
        BY DEF Comes, Sound
      <4> QED BY <1>1, <4>1, SpoilIs
    <3> HIDE DEF c
    <3>6. /\ c.pubs[p].to = s /\ c.pubs[p].cid = a.pubs[p].cid /\ c.pubs[p].id = a.pubs[p].id
          /\ c.pubs[p].by = a.pubs[p].by /\ c.pubs[p].total = a.pubs[p].total
      BY <3>5 DEF Spoils
    <3>7. f = FragmentIn(c, p, 1)
      BY <3>1, <3>6 DEF FragmentIn
    <3>8. Extended(Begun(f), f) = Part(c, p, 1)
      <4>1. 1 < c.pubs[p].next
        BY <3>4 DEF Comes
      <4> QED BY <3>1, <3>4, <3>6, <3>7, <4>1, BegunIs
    <3> QED BY <3>1, <3>3, <3>4, <3>6, <3>8, BegunDownFed
  <2> QED BY <2>2, <2>3
<1> QED BY <1>9, <1>10, <1>11

-------------------------------------------------------------------------------
(* A frame of the gateway.                                                     *)

\* The frame of p is in the air, and the station may have left its session.
Lands(a, c, p) ==
    /\ Moves(a, c, p) /\ c.delivered = a.delivered /\ c.uplink = a.uplink /\ c.slots = a.slots /\ c.session = a.session
    /\ \A t \in Senders : c.partial[t] # NoPartial => c.partial[t] = a.partial[t]
    /\ \A q \in DOMAIN a.pubs : c.pubs[q].fine =>
          /\ a.pubs[q].by = Gateway => c.partial[a.pubs[q].to] = a.partial[a.pubs[q].to]
          /\ a.pubs[q].by # Gateway => c.joined[a.pubs[q].by] = a.joined[a.pubs[q].by]

\* A gateway's frame on its way is a step that fades.
LEMMA LandsFades ==
    ASSUME NEW a, Sound(a), NEW c \in Air, NEW p \in DOMAIN a.pubs, Lands(a, c, p)
    PROVE  Fades(a, c) /\ Sound(c)
<1>1. a \in Air
  BY DEF Sound
<1>2. /\ PubsGrow(a, c) /\ DOMAIN c.pubs = DOMAIN a.pubs /\ \A q \in DOMAIN c.pubs : c.pubs[q].next <= c.pubs[q].total + 1
      /\ c.delivered = a.delivered /\ c.uplink = a.uplink /\ c.slots = a.slots
  BY DEF Lands, Moves
<1>3. Held(c) = Held(a)
  BY <1>2 DEF Held
<1>4. \A i \in Held(c) : i \in Held(a) /\ Faded(c.slots[i], a.slots[i])
  BY <1>2, <1>3, FadedSelf
<1>5. \A t \in Senders : c.partial[t] # NoPartial => a.partial[t] # NoPartial /\ Faded(c.partial[t], a.partial[t])
  <2> SUFFICES ASSUME NEW t \in Senders, c.partial[t] # NoPartial
               PROVE  a.partial[t] # NoPartial /\ Faded(c.partial[t], a.partial[t])
    OBVIOUS
  <2>1. c.partial[t] = a.partial[t]
    BY DEF Lands
  <2> QED BY <2>1, FadedSelf
<1>6. \E o \in {0, 1} : \A k \in DOMAIN c.uplink : Kept(a, c, o, k)
  BY <1>1, <1>2, UplinkKept DEF UplinkFades
<1>7. Fades(a, c)
  BY <1>2, <1>4, <1>5, <1>6 DEF Fades
<1> QED BY <1>7, FadeSound

\* The opener of a publication that has sent nothing is nowhere.
LEMMA LandsOpener ==
    ASSUME NEW a, Sound(a), NEW p \in DOMAIN a.pubs, a.pubs[p].next = 1
    PROVE  /\ \A t \in Senders : a.partial[t] # NoPartial => a.partial[t].data[1] # <<p, 1>>
           /\ \A i \in DOMAIN a.delivered : a.delivered[i][1] # <<p, 1>>
<1>1. a \in Air /\ PartialsOK(a) /\ DeliveredOK(a)
  BY DEF Sound
<1>2. ASSUME NEW t \in Senders, a.partial[t] # NoPartial, a.partial[t].data[1] = <<p, 1>> PROVE FALSE
  <2>1. a.partial[t] \in Part_ /\ PartOK(a, a.partial[t])
    BY <1>1, <1>2, HeldIs DEF PartialsOK
  <2>2. a.partial[t].data \in Seq(Nat \X Nat) /\ Tokens(a, a.partial[t].data) /\ Opens(a, a.partial[t].data)
    BY <2>1 DEF PartOK, Part_
  <2>3. a.pubs[a.partial[t].data[1][1]].next > 1
    BY <1>1, <2>2, OpensAt
  <2>4. a.partial[t].data[1][1] = p
    BY <1>2
  <2> QED BY <2>3, <2>4
<1>3. ASSUME NEW i \in DOMAIN a.delivered, a.delivered[i][1] = <<p, 1>> PROVE FALSE
  <2>1. a.delivered[i] \in Seq(Nat \X Nat) /\ Tokens(a, a.delivered[i]) /\ Opens(a, a.delivered[i])
    BY <1>1 DEF DeliveredOK, WholeOK, Air
  <2>2. a.pubs[a.delivered[i][1][1]].next > 1
    BY <1>1, <2>1, OpensAt
  <2>3. a.delivered[i][1][1] = p
    BY <1>3
  <2> QED BY <2>2, <2>3
<1> QED BY <1>2, <1>3

\* A gateway's frame that lands comes to its station.
LEMMA LandsComes ==
    ASSUME FragmentsInv, NEW c \in Air, NEW p \in DOMAIN air.pubs, InProgress(air, p), air.pubs[p].by = Gateway,
           Lands(air, c, p), NEW j, j = air.pubs[p].next
    PROVE  /\ Comes(c, p, j) /\ p \in DOMAIN c.pubs /\ j \in Nat /\ c.pubs[p].to = air.pubs[p].to
           /\ FragmentIn(c, p, j) = FragmentIn(air, p, j)
<1>1. air \in Air /\ Sound(air) /\ PubsOK(air) /\ OneSending(air) /\ \A q \in DOMAIN air.pubs : Carried(air, q)
  BY DEF FragmentsInv, Sound
<1>2. Fades(air, c) /\ Sound(c)
  BY <1>1, LandsFades
<1>3. Moves(air, c, p) /\ PubsGrow(air, c) /\ DOMAIN c.pubs = DOMAIN air.pubs
  BY DEF Lands, Moves
<1>4. \A q \in DOMAIN air.pubs : /\ c.pubs[q].fine => air.pubs[q].fine
                                 /\ InProgress(c, q) => InProgress(air, q)
                                 /\ \A k : Part(c, q, k) = Part(air, q, k)
                                 /\ \A k : FragmentIn(c, q, k) = FragmentIn(air, q, k)
  BY <1>1, <1>3, MovesIs
<1>5. /\ c.pubs[p].by = Gateway /\ c.pubs[p].to = air.pubs[p].to /\ c.pubs[p].total = air.pubs[p].total
  BY <1>3 DEF PubsGrow
<1>6. j \in Nat \ {0} /\ j <= air.pubs[p].total /\ air.pubs[p].total \in Nat
  BY <1>1, PubIs DEF InProgress
<1>7. j \in 1 .. c.pubs[p].total /\ j < c.pubs[p].next
  BY <1>3, <1>5, <1>6 DEF Moves
<1>8. Fresh(c, p)
  <2>1. ~Dead(air, p)
    BY DEF Dead
  <2> QED BY <1>1, <1>3, <2>1, FreshIs
<1>9. ASSUME NEW q \in DOMAIN c.pubs, q # p
      PROVE  Carried(c, q) /\ (c.pubs[q].by = Gateway => ~InProgress(c, q))
  <2>1. q \in DOMAIN air.pubs
    BY <1>3
  <2>2. c.pubs[q].fine => FadesFor(air, c, q)
    <3> SUFFICES ASSUME c.pubs[q].fine PROVE FadesFor(air, c, q)
      OBVIOUS
    <3>1. c.pubs[q].next = air.pubs[q].next
      BY <1>3, <1>9, <2>1 DEF Moves
    <3>2. /\ c.session = air.session /\ c.uplink = air.uplink /\ c.slots = air.slots
          /\ air.pubs[q].by = Gateway => c.partial[air.pubs[q].to] = air.partial[air.pubs[q].to]
          /\ air.pubs[q].by # Gateway => c.joined[air.pubs[q].by] = air.joined[air.pubs[q].by]
      BY <2>1 DEF Lands
    <3> QED BY <3>1, <3>2 DEF FadesFor
  <2>3. Carried(c, q)
    BY <1>1, <1>2, <2>1, <2>2, FadeCarried
  <2>4. c.pubs[q].by = Gateway => ~InProgress(c, q)
    <3>1. c.pubs[q].by = air.pubs[q].by
      BY <1>3, <2>1 DEF PubsGrow
    <3> QED BY <1>1, <1>4, <1>9, <2>1, <3>1 DEF OneSending
  <2> QED BY <2>3, <2>4
<1>10. j = 1 => /\ \A t \in Senders : c.partial[t] # NoPartial => c.partial[t].data[1] # <<p, 1>>
                /\ \A i \in DOMAIN c.delivered : c.delivered[i][1] # <<p, 1>>
  <2> SUFFICES ASSUME j = 1
               PROVE  /\ \A t \in Senders : c.partial[t] # NoPartial => c.partial[t].data[1] # <<p, 1>>
                      /\ \A i \in DOMAIN c.delivered : c.delivered[i][1] # <<p, 1>>
    OBVIOUS
  <2>1. /\ \A t \in Senders : air.partial[t] # NoPartial => air.partial[t].data[1] # <<p, 1>>
        /\ \A i \in DOMAIN air.delivered : air.delivered[i][1] # <<p, 1>>
    BY <1>1, LandsOpener
  <2>2. c.delivered = air.delivered /\ \A t \in Senders : c.partial[t] # NoPartial => c.partial[t] = air.partial[t]
    BY DEF Lands
  <2> QED BY <2>1, <2>2
<1>11. ASSUME c.pubs[p].fine
       PROVE  /\ c.pubs[p].next = j + 1
              /\ j > 1 => c.partial[c.pubs[p].to] = Part(c, p, j - 1)
  <2>1. air.pubs[p].fine /\ c.partial[air.pubs[p].to] = air.partial[air.pubs[p].to]
    BY <1>4, <1>11 DEF Lands
  <2>2. c.pubs[p].next = j + 1
    BY <1>3, <1>11 DEF Moves
  <2>3. CarriedDown(air, p)
    BY <1>1, <2>1 DEF Carried
  <2>4. j > 1 => air.partial[air.pubs[p].to] = Part(air, p, j - 1)
    BY <1>6, <2>3 DEF CarriedDown
  <2> QED BY <1>4, <1>5, <2>1, <2>2, <2>4
<1>12. Comes(c, p, j)
  BY <1>2, <1>3, <1>5, <1>7, <1>8, <1>9, <1>10, <1>11 DEF Comes
<1> QED BY <1>3, <1>4, <1>5, <1>6, <1>12

\* A publication that moves still does if something is spoiled.
LEMMA MovesSpoils ==
    ASSUME NEW a \in Air, NEW b \in Air, NEW c \in Air, NEW p \in DOMAIN a.pubs, NEW ps, Moves(a, b, p), Spoils(b, c, ps)
    PROVE  Moves(a, c, p)
<1>1. PubsGrow(a, b) /\ DOMAIN b.pubs = DOMAIN a.pubs /\ DOMAIN c.pubs = DOMAIN a.pubs
  BY DEF Moves, Spoils
<1>2. \A q \in DOMAIN a.pubs : a.pubs[q].next \in Nat /\ b.pubs[q].next \in Nat /\ c.pubs[q].next \in Nat
  BY <1>1, PubIs
<1>3. \A q \in DOMAIN a.pubs : /\ a.pubs[q].next <= b.pubs[q].next /\ b.pubs[q].next <= c.pubs[q].next
                               /\ c.pubs[q].next <= c.pubs[q].total + 1
  BY <1>1 DEF Spoils, PubsGrow
<1>4. \A q \in DOMAIN a.pubs : a.pubs[q].next <= c.pubs[q].next
  BY <1>2, <1>3
<1>5. ASSUME NEW q \in DOMAIN a.pubs
      PROVE  /\ c.pubs[q].by = a.pubs[q].by /\ c.pubs[q].to = a.pubs[q].to
             /\ c.pubs[q].cid = a.pubs[q].cid /\ c.pubs[q].id = a.pubs[q].id
             /\ c.pubs[q].total = a.pubs[q].total /\ c.pubs[q].reused = a.pubs[q].reused
             /\ c.pubs[q].fine => a.pubs[q].fine /\ b.pubs[q].fine /\ c.pubs[q].next = b.pubs[q].next
  <2>1. /\ b.pubs[q].by = a.pubs[q].by /\ b.pubs[q].to = a.pubs[q].to
        /\ b.pubs[q].cid = a.pubs[q].cid /\ b.pubs[q].id = a.pubs[q].id
        /\ b.pubs[q].total = a.pubs[q].total /\ b.pubs[q].reused = a.pubs[q].reused
        /\ b.pubs[q].fine => a.pubs[q].fine
    BY <1>1 DEF PubsGrow
  <2>2. /\ c.pubs[q].by = b.pubs[q].by /\ c.pubs[q].to = b.pubs[q].to
        /\ c.pubs[q].cid = b.pubs[q].cid /\ c.pubs[q].id = b.pubs[q].id
        /\ c.pubs[q].total = b.pubs[q].total /\ c.pubs[q].reused = b.pubs[q].reused
        /\ c.pubs[q].fine => b.pubs[q].fine /\ c.pubs[q].next = b.pubs[q].next
    BY <1>1 DEF Spoils
  <2> QED BY <2>1, <2>2
<1>6. PubsGrow(a, c)
  BY <1>1, <1>4, <1>5 DEF PubsGrow
<1>7. a.pubs[p].next < b.pubs[p].next /\ (b.pubs[p].fine => b.pubs[p].next = a.pubs[p].next + 1)
  BY DEF Moves
<1>8. a.pubs[p].next < c.pubs[p].next
  BY <1>2, <1>3, <1>7
<1>9. c.pubs[p].fine => c.pubs[p].next = a.pubs[p].next + 1
  BY <1>5, <1>7
<1>10. \A q \in DOMAIN a.pubs : q # p /\ c.pubs[q].fine => c.pubs[q].next = a.pubs[q].next
  BY <1>5 DEF Moves
<1> QED BY <1>1, <1>3, <1>6, <1>8, <1>9, <1>10 DEF Moves

\* As it is sent, and when the client's task has ended the session meanwhile.
LEMMA AiredLands ==
    ASSUME FragmentsInv, NEW p \in DOMAIN air.pubs, InProgress(air, p), air.pubs[p].by = Gateway, NEW taken \in BOOLEAN,
           NEW s \in Senders, s = air.pubs[p].to, NEW c,
           c = Aired(p, TRUE, taken) \/ c = Ended(Aired(p, TRUE, taken), s)
    PROVE  c \in Air /\ Lands(air, c, p)
<1> DEFINE a == Aired(p, TRUE, taken)
<1>1. a \in Air /\ SameElse(air, a) /\ PubsOK(a) /\ Moves(air, a, p) /\ air \in Air
  BY AiredMoves DEF FragmentsInv, Sound
<1>2. c = a \/ c = Ended(a, s)
  OBVIOUS
<1> HIDE DEF a
<1>3. CASE c = a
  <2>1. /\ a.delivered = air.delivered /\ a.uplink = air.uplink /\ a.slots = air.slots /\ a.session = air.session
        /\ a.partial = air.partial /\ a.joined = air.joined
    BY <1>1 DEF SameElse
  <2> QED BY <1>1, <1>3, <2>1 DEF Lands
<1>4. CASE c = Ended(a, s)
  <2>1. /\ c \in Air /\ Spoils(a, c, Between(a, s))
        /\ c.session = a.session /\ c.uplink = a.uplink /\ c.delivered = a.delivered /\ c.slots = a.slots
        /\ c.joined = [a.joined EXCEPT ![s] = 0]
        /\ c.partial = [a.partial EXCEPT ![s] = NoPartial]
    BY <1>1, <1>4, EndedIs, Zenon
  <2>2. Moves(air, c, p)
    BY <1>1, <2>1, MovesSpoils
  <2>3. /\ a.delivered = air.delivered /\ a.uplink = air.uplink /\ a.slots = air.slots /\ a.session = air.session
        /\ a.partial = air.partial /\ a.joined = air.joined
    BY <1>1 DEF SameElse
  <2>4. \A t \in Senders : (t = s => c.partial[t] = NoPartial)
                           /\ (t # s => c.partial[t] = air.partial[t] /\ c.joined[t] = air.joined[t])
    <3>1. a.joined \in [Senders -> Nat] /\ a.partial \in [Senders -> Partials]
      BY <1>1 DEF Air
    <3> QED BY <2>1, <2>3, <3>1
  <2>5. ASSUME NEW q \in DOMAIN air.pubs, c.pubs[q].fine
        PROVE  /\ air.pubs[q].by = Gateway => c.partial[air.pubs[q].to] = air.partial[air.pubs[q].to]
               /\ air.pubs[q].by # Gateway => c.joined[air.pubs[q].by] = air.joined[air.pubs[q].by]
    <3>1. /\ q \in DOMAIN a.pubs /\ a.pubs[q].by = air.pubs[q].by /\ a.pubs[q].to = air.pubs[q].to
      BY <1>1 DEF Moves, PubsGrow
    <3>2. q \notin Between(a, s)
      BY <2>1, <2>5, <3>1 DEF Spoils
    <3>3. air.pubs[q].by # s /\ air.pubs[q].to # s
      BY <3>1, <3>2, BetweenIs
    <3>4. air.pubs[q].by = Gateway => air.pubs[q].to \in Senders
      BY DEF FragmentsInv, Sound, PubsOK
    <3>5. air.pubs[q].by # Gateway => air.pubs[q].by \in Senders
      BY <1>1, PubIs DEF Everyone
    <3> QED BY <2>4, <3>3, <3>4, <3>5
  <2>6. \A t \in Senders : c.partial[t] # NoPartial => c.partial[t] = air.partial[t]
    BY <2>4
  <2> QED BY <2>1, <2>2, <2>3, <2>5, <2>6 DEF Lands
<1> QED BY <1>2, <1>3, <1>4

\* A gateway's fragment that its station gets preserves the invariant.
LEMMA TakenStep ==
    ASSUME FragmentsInv, NEW p \in DOMAIN air.pubs, InProgress(air, p), air.pubs[p].by = Gateway, NEW c \in Air,
           Lands(air, c, p), NEW f, f = FragmentIn(air, p, air.pubs[p].next), air' = Take(c, air.pubs[p].to, f)
    PROVE  FragmentsInv'
<1> DEFINE j == air.pubs[p].next
<1>1. /\ Comes(c, p, j) /\ p \in DOMAIN c.pubs /\ j \in Nat /\ c.pubs[p].to = air.pubs[p].to
      /\ FragmentIn(c, p, j) = FragmentIn(air, p, j)
  BY LandsComes
<1>2. air.pubs[p].to \in Senders
  BY DEF FragmentsInv, Sound, PubsOK
<1>3. f = FragmentIn(c, p, j)
  BY <1>1
<1> HIDE DEF j
<1>4. Fed(Take(c, air.pubs[p].to, f))
  BY <1>1, <1>2, <1>3, TakeFed
<1>5. Fed(air')
  BY <1>4
<1> QED BY <1>5 DEF Fed, FragmentsInv

\* A gateway's fragment, got or not and acknowledged or not, preserves the invariant.
LEMMA SendDownStep ==
    ASSUME FragmentsInv, NEW p \in DOMAIN air.pubs, NEW arrives \in BOOLEAN, NEW taken \in BOOLEAN,
           SendDown(p, arrives, taken)
    PROVE  FragmentsInv'
<1> DEFINE s == air.pubs[p].to
           f == FragmentOf(p, air.pubs[p].next)
           a == Aired(p, arrives, taken)
<1>1. InProgress(air, p) /\ air.pubs[p].by = Gateway
  BY DEF SendDown
<1>2. f = FragmentIn(air, p, air.pubs[p].next)
  BY DEF FragmentOf, FragmentIn
<1>3. s \in Senders
  BY <1>1 DEF FragmentsInv, Sound, PubsOK
<1>4. \/ arrives /\ air' = Take(a, s, f)
      \/ arrives /\ air' = Take(Ended(a, s), s, f)
      \/ air' = Spoil(a, {p})
  BY DEF SendDown
<1> HIDE DEF f
<1>5. CASE arrives /\ (air' = Take(a, s, f) \/ air' = Take(Ended(a, s), s, f))
  <2>1. PICK c \in {a, Ended(a, s)} : air' = Take(c, s, f)
    BY <1>5
  <2>2. a = Aired(p, TRUE, taken)
    BY <1>5
  <2>3. c = Aired(p, TRUE, taken) \/ c = Ended(Aired(p, TRUE, taken), s)
    BY <2>1, <2>2
  <2> HIDE DEF a
  <2>4. c \in Air /\ Lands(air, c, p)
    BY <1>1, <1>3, <2>3, AiredLands
  <2> QED BY <1>1, <1>2, <2>1, <2>4, TakenStep
<1>6. CASE air' = Spoil(a, {p})
  BY <1>1, <1>6, UndeliveredStep
<1> QED BY <1>4, <1>5, <1>6

-------------------------------------------------------------------------------
(* The theorem.                                                                *)

\* The invariant holds at first: nothing has been sent.
LEMMA InitInv ==
    ASSUME FragmentsInit
    PROVE  FragmentsInv
<1>1. PICK crew \in Crews :
        air = [here |-> crew.senders, counts |-> crew.counts, left |-> crew.left,
               session |-> [s \in Senders |-> 0], joined |-> [s \in Senders |-> 0], cids |-> 0,
               ids |-> [s \in Everyone |-> 1],
               pubs |-> <<>>, uplink |-> <<>>, delivered |-> <<>>,
               slots |-> [i \in 1 .. PartialSlots |-> NoPartial],
               partial |-> [s \in Senders |-> NoPartial]]
  BY DEF FragmentsInit, Everyone
<1>2. crew.senders \in SUBSET Senders /\ crew.counts \in SUBSET (Nat \ {0}) /\ crew.left \in Int
  BY FragmentsAssumption
<1>3. NoPartial \in Partials
  BY DEF Partials
<1>4. /\ air.pubs = <<>> /\ air.uplink = <<>> /\ air.delivered = <<>>
      /\ air.slots = [i \in 1 .. PartialSlots |-> NoPartial]
      /\ air.partial = [s \in Senders |-> NoPartial]
  BY <1>1
<1>5. air \in Air
  <2> DEFINE L == [s \in Senders |-> 0]
             I == [s \in Everyone |-> 1]
             T == [i \in 1 .. PartialSlots |-> NoPartial]
             P == [s \in Senders |-> NoPartial]
  <2>1. /\ L \in [Senders -> Nat] /\ I \in [Everyone -> Nat] /\ T \in [1 .. PartialSlots -> Partials]
        /\ P \in [Senders -> Partials]
    BY <1>3
  <2>2. <<>> \in Seq(Pubs) /\ <<>> \in Seq(Frames) /\ <<>> \in Seq(Seq(Nat \X Nat))
    OBVIOUS
  <2>3. air = [here |-> crew.senders, counts |-> crew.counts, left |-> crew.left, session |-> L, joined |-> L, cids |-> 0,
               ids |-> I, pubs |-> <<>>, uplink |-> <<>>, delivered |-> <<>>, slots |-> T, partial |-> P]
    BY <1>1
  <2> HIDE DEF L, I, T, P
  <2> QED BY <1>2, <2>1, <2>2, <2>3 DEF Air
<1>6. DOMAIN air.pubs = {} /\ DOMAIN air.uplink = {} /\ DOMAIN air.delivered = {}
  BY <1>4
<1>7. Held(air) = {} /\ \A s \in Senders : air.partial[s] = NoPartial
  BY <1>4 DEF Held
<1>8. PubsOK(air) /\ FramesOK(air) /\ InOrder(air)
  BY <1>6 DEF PubsOK, FramesOK, InOrder
<1>9. SlotsOK(air) /\ PartialsOK(air) /\ DeliveredOK(air)
  BY <1>6, <1>7 DEF SlotsOK, PartialsOK, DeliveredOK
<1>10. OpenersOnce(air)
  BY <1>6, <1>7 DEF OpenersOnce
<1>11. SlotKeys(air) /\ KeysOK(air) /\ OneSending(air)
  BY <1>6, <1>7 DEF SlotKeys, KeysOK, OneSending
<1> QED BY <1>5, <1>6, <1>8, <1>9, <1>10, <1>11 DEF FragmentsInv, Sound

\* Every step of a station, of the gateway or of the air preserves the invariant.
LEMMA NextInv ==
    ASSUME FragmentsInv, FragmentsNext
    PROVE  FragmentsInv'
<1>1. ASSUME NEW s \in Senders, NEW total \in air.counts, BeginPublish(s, total) \/ BeginSend(s, total)
      PROVE  FragmentsInv'
  BY <1>1, BeginPublishStep, BeginSendStep
<1>2. ASSUME NEW p \in DOMAIN air.pubs, NEW arrives \in BOOLEAN, NEW taken \in BOOLEAN, SendFragment(p, arrives, taken)
      PROVE  FragmentsInv'
  <2>1. CASE arrives
    <3>1. SendFragment(p, TRUE, taken)
      BY <1>2, <2>1
    <3> QED BY <3>1, SendFragmentStep
  <2>2. CASE ~arrives
    <3>1. SendFragment(p, FALSE, taken)
      BY <1>2, <2>2
    <3> QED BY <3>1, LostUpStep
  <2> QED BY <2>1, <2>2
<1>3. ASSUME NEW p \in DOMAIN air.pubs, NEW arrives \in BOOLEAN, NEW taken \in BOOLEAN, SendDown(p, arrives, taken)
      PROVE  FragmentsInv'
  BY <1>3, SendDownStep
<1>4. ASSUME NEW s \in Senders, Joins(s) \/ Loses(s) \/ Leaves(s) \/ Reboots(s) \/ Expires(s)
      PROVE  FragmentsInv'
  BY <1>4, JoinsStep, LosesStep, LeavesStep, RebootsStep, ExpiresStep
<1>5. CASE HandleUplink \/ GatewayStops \/ GatewayReboots \/ Ages
  BY <1>5, HandleUplinkStep, GatewayStopsStep, GatewayRebootsStep, AgesStep
<1> QED BY <1>1, <1>2, <1>3, <1>4, <1>5 DEF FragmentsNext

\* The invariant depends on the air alone.
LEMMA InvStutters ==
    ASSUME FragmentsInv, UNCHANGED air
    PROVE  FragmentsInv'
<1>1. air' = air
  OBVIOUS
<1>2. Sound(air')
  BY <1>1 DEF FragmentsInv
<1>3. \A p \in DOMAIN air'.pubs : Carried(air', p)
  BY <1>1 DEF FragmentsInv
<1> QED BY <1>2, <1>3 DEF FragmentsInv

\* The invariant says what messages in fragments are promised.
LEMMA InvIsEnough ==
    ASSUME FragmentsInv
    PROVE  MessagesArriveWhole
<1>1. air \in Air /\ DeliveredOK(air) /\ OpenersOnce(air) /\ Sound(air) /\ \A p \in DOMAIN air.pubs : Carried(air, p)
  BY DEF FragmentsInv, Sound
<1>2. \A p \in DOMAIN air.pubs : Upto(p, air.pubs[p].total) = Whole(p)
  BY DEF Upto, Whole
<1>3. WholeMessages
  <2>1. ASSUME NEW i \in DOMAIN air.delivered
        PROVE  \/ \E p \in DOMAIN air.pubs : air.delivered[i] = Whole(p)
               \/ \E d \in {air.delivered[i][j] : j \in DOMAIN air.delivered[i]} : air.pubs[d[1]].reused
    <3>1. \/ Tainted(air, air.delivered[i])
          \/ \E p \in DOMAIN air.pubs : air.delivered[i] = Upto(p, air.pubs[p].total)
      BY <1>1 DEF DeliveredOK, WholeOK
    <3>2. CASE Tainted(air, air.delivered[i])
      BY <3>2 DEF Tainted
    <3>3. CASE \E p \in DOMAIN air.pubs : air.delivered[i] = Upto(p, air.pubs[p].total)
      BY <1>2, <3>3
    <3> QED BY <3>1, <3>2, <3>3
  <2>2. \A i, j \in DOMAIN air.delivered : i # j => air.delivered[i] # air.delivered[j]
    BY <1>1 DEF OpenersOnce
  <2> QED BY <2>1, <2>2 DEF WholeMessages
<1>4. CarriedMessages
  <2> SUFFICES ASSUME NEW p \in DOMAIN air.pubs, air.pubs[p].fine, ~InProgress(air, p),
                      \A i \in DOMAIN air.uplink : air.uplink[i].data[1] # p
               PROVE  \E i \in DOMAIN air.delivered : air.delivered[i] = Whole(p)
    BY DEF CarriedMessages
  <2>1. air.pubs[p].next = air.pubs[p].total + 1 /\ air.pubs[p].total \in Nat \ {0} /\ air.pubs[p].next \in Nat
    <3>1. air.pubs[p].next <= air.pubs[p].total + 1
      BY <1>1 DEF Sound, PubsOK
    <3> QED BY <1>1, <3>1, PubIs DEF InProgress
  <2>2. CASE air.pubs[p].by = Gateway
    <3>1. CarriedDown(air, p)
      BY <1>1, <2>2 DEF Carried
    <3> QED BY <1>2, <2>1, <3>1 DEF CarriedDown
  <2>3. CASE air.pubs[p].by # Gateway
    <3>1. CarriedUp(air, p)
      BY <1>1, <2>3 DEF Carried
    <3>2. PICK k \in 0 .. air.pubs[p].next - 1 : Consumed(air, p, k)
      BY <3>1 DEF CarriedUp
    <3>3. k = air.pubs[p].total
      <4> SUFFICES ASSUME k # air.pubs[p].total PROVE FALSE
        OBVIOUS
      <4>1. k + 1 \in k + 1 .. air.pubs[p].next - 1
        BY <2>1, <3>2
      <4>2. PICK l \in DOMAIN air.uplink : air.uplink[l].data = <<p, k + 1>>
        BY <3>2, <4>1 DEF Consumed
      <4>3. air.uplink[l].data[1] = p
        BY <4>2
      <4> QED BY <4>3
    <3>4. \E i \in DOMAIN air.delivered : air.delivered[i] = Upto(p, k)
      BY <3>2, <3>3 DEF Consumed
    <3> QED BY <1>2, <3>3, <3>4
  <2> QED BY <2>2, <2>3
<1> QED BY <1>3, <1>4 DEF MessagesArriveWhole

\* Whatever is lost, ended, restarted or reordered between tasks and stations, what
\* ReassemblyTable::feed() and handleMessageFrame() deliver is one message, whole, in
\* order and once, and a message all of whose frames arrived in its session is
\* delivered: for any stations, slots, queue, ids, sessions and lengths.
THEOREM FragmentsArriveWhole == FragmentsInit /\ [][FragmentsNext]_air => []MessagesArriveWhole
<1>1. FragmentsInit => FragmentsInv
  BY InitInv
<1>2. FragmentsInv /\ [FragmentsNext]_air => FragmentsInv'
  BY NextInv, InvStutters
<1>3. FragmentsInv => MessagesArriveWhole
  BY InvIsEnough
<1> QED BY <1>1, <1>2, <1>3, PTL
===============================================================================
