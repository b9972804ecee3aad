---------------------------- MODULE Settings_proofs ----------------------------
(* That the next start finds what this one had, for any names, zones, Configs   *)
(* and values, whatever writes fail and whenever the power is lost, and that    *)
(* nothing of a name in use is withdrawn; that a file of Core/Storage is        *)
(* stable, for all data, for writes of either kind, and for every failure and   *)
(* crash; and that the jobs of telemetry are what its settings say, for a table *)
(* of any size and any use of it by the application.                            *)
EXTENDS Settings, Storage, Telemetry, FiniteSetTheorems, WellFoundedInduction, TLAPS

\* Storage is there and is read, and a removal is written (section 5.4 of README
\* has what happens otherwise).
Dependable == Faults \subseteq {"write", "power"}

-------------------------------------------------------------------------------
(* The inductive invariant.                                                     *)

Store == [mem : [Keys -> Storable], file : [Keys -> Storable] \cup {None},
          opened : BOOLEAN, ok : BOOLEAN, dead : BOOLEAN]

\* What a start finds in the file of a store.
Contents(s) == IF s.file = None THEN Empty ELSE s.file

\* The keys that are set one by one.
Plain == Keys \ ProfileKeys
IdentityKeys == {"name", "zone", "record"}

Good(s) == s \in Store /\ (s.opened /\ ~s.dead => \A k \in Plain : s.mem[k] = Contents(s)[k])

Identity == [begun : BOOLEAN, name : Names, zone : Zones, old : Names \cup {None},
             parts : SUBSET Parts, locked : BOOLEAN, job : BOOLEAN]

NextName(s) == Or(Contents(s)["name"], Names, DefaultName)
NextRecord(s) == Contents(s)["record"]
Recording(id) == IF id.parts = {} THEN None ELSE [old |-> id.old, parts |-> id.parts]

\* What the next start will account for, and what this one does.
Foreseen(s, ret) ==
    \A r \in ret : \/ r[1] = NextName(s)
                   \/ NextRecord(s) \in Records
                      /\ r[1] = NextRecord(s).old /\ r[2] \in NextRecord(s).parts
Known(id, ret) ==
    \A r \in ret : r[1] = id.name \/ (r[1] = id.old /\ r[2] \in id.parts)

\* The name and the record in memory are those in the file, unless a rename waits
\* for the next start.
Linked(s, id) ==
    /\ s.opened
    /\ NextRecord(s) = Recording(id) /\ (id.parts # {} => id.old \in Names)
    /\ id.name = NextName(s) \/ (id.old = id.name /\ id.parts = Parts)

IdentityOK(s, id, ret) ==
    /\ Good(s) /\ id \in Identity /\ ret \subseteq Names \X Parts
    /\ Foreseen(s, ret)
    /\ id.begun /\ ~s.dead => Linked(s, id) /\ Known(id, ret)

ConfigOK(s) ==
    /\ value \in [Configs -> Values] /\ bound \subseteq Configs /\ IsFiniteSet(bound)
    /\ restored \in BOOLEAN
    /\ restored => s.opened /\ \A c \in bound : value[c] = Contents(s)[c]

SettingsInv ==
    /\ IdentityOK(store, identity, retained) /\ ConfigOK(store)
    /\ store.dead => ~identity.begun /\ ~restored /\ ~store.opened
    /\ identity.locked => identity.begun

-------------------------------------------------------------------------------
(* The store.                                                                  *)

LEMMA Constants ==
    /\ {"name", "zone", "record"} \subseteq Plain /\ Configs \subseteq Plain
    /\ ProfileKeys = {"ssid", "password"} /\ ProfileKeys \subseteq Keys
    /\ DefaultName \in Names /\ DefaultZone \in Zones /\ FirmwareDefault \in Values
    /\ None \notin Records /\ None \notin [Keys -> Storable]
    /\ Empty \in [Keys -> Storable]
<1>1. ProfileKeys = {"ssid", "password"}
  BY DEF ProfileKeys, Profile
<1>2. "name" # "ssid" /\ "name" # "password" /\ "zone" # "ssid" /\ "zone" # "password"
      /\ "record" # "ssid" /\ "record" # "password"
  OBVIOUS
<1>3. Empty \in [Keys -> Storable]
  BY DEF Empty, Storable
<1> QED
  BY <1>1, <1>2, <1>3, IdentityAssumption, SettingsAssumption, ConfigAssumption DEF Plain

\* t comes of s: it is sound, and only the keys K are not as they were.
InFile(s, k) == Contents(s)[k]
Reaches(s, t, K) ==
    /\ Good(t)
    /\ \A k \in Plain \ K : InFile(t, k) = InFile(s, k)
    /\ s.dead => t.dead
    /\ s.opened /\ ~t.dead => t.opened

LEMMA ReachesOn ==
    ASSUME NEW s, NEW t, NEW u, NEW K, NEW L, Reaches(s, t, K), Reaches(t, u, L)
    PROVE  Reaches(s, u, K \cup L)
BY DEF Reaches

LEMMA StoreFields ==
    ASSUME NEW s
    PROVE  /\ Good(s) => s \in Store
           /\ s \in Store => /\ s.mem \in [Keys -> Storable]
                             /\ s.file \in [Keys -> Storable] \cup {None}
                             /\ s.opened \in BOOLEAN /\ s.ok \in BOOLEAN /\ s.dead \in BOOLEAN
                             /\ Contents(s) \in [Keys -> Storable]
                             /\ s = [mem |-> s.mem, file |-> s.file, opened |-> s.opened,
                                     ok |-> s.ok, dead |-> s.dead]
BY Constants DEF Good, Store, Contents

LEMMA SaveIs ==
    ASSUME Dependable, NEW s \in Store, ~s.dead, NEW cause, NEW t \in SaveOf(s, cause)
    PROVE  /\ t \in Store /\ t.mem = s.mem /\ t.opened = s.opened
           /\ t.file = s.mem \/ t.file = s.file
           /\ ~t.dead => t.file = IF t.ok THEN s.mem ELSE s.file
           /\ ~t.dead /\ ~t.ok => cause \in Faults
<1>1. PICK able \in BOOLEAN, dead \in BOOLEAN :
         t = [Saving(s, able) EXCEPT !.dead = dead] /\ (dead \/ able \/ cause \in Faults)
  <2>1. \A able \in BOOLEAN : Saving(s, able) = [Saving(s, able) EXCEPT !.dead = FALSE]
    BY StoreFields DEF Store, Saving
  <2> QED BY <2>1 DEF SaveOf
<1> QED
  BY <1>1, StoreFields DEF Store, Saving

LEMMA BeginIs ==
    ASSUME Dependable, NEW s, Good(s), NEW t \in Begin(s)
    PROVE  /\ Reaches(s, t, {}) /\ t.dead \in BOOLEAN
           /\ ~t.dead => t.ok /\ t.opened
<1>0. s \in Store
  BY StoreFields
<1>1. CASE s.opened \/ s.dead
  <2>1. t = [s EXCEPT !.ok = s.opened]
    BY <1>1 DEF Begin
  <2> QED BY <1>0, <1>1, <2>1, StoreFields DEF Good, Store, Reaches, InFile, Contents
<1>2. CASE ~(s.opened \/ s.dead)
  <2>1. PICK u \in Load(s) : t = [u EXCEPT !.opened = ~u.dead]
    BY <1>2 DEF Begin, Dependable
  <2>2. CASE s.file = None
    <3> DEFINE e == [s EXCEPT !.mem = Empty]
    <3>1. e \in Store /\ ~e.dead /\ e.mem = Empty /\ e.file = None /\ ~e.opened
      BY <1>0, <1>2, <2>2, Constants, StoreFields DEF Store
    <3>2. PICK v \in SaveOf(e, "write") : u = [v EXCEPT !.ok = TRUE]
      BY <2>1, <2>2 DEF Load, Save
    <3>3. v \in Store /\ v.mem = Empty /\ (v.file = Empty \/ v.file = None)
      <4> HIDE DEF e
      <4> QED BY <3>1, <3>2, SaveIs
    <3>4. t \in Store /\ t.mem = Empty /\ (t.file = Empty \/ t.file = None) /\ t.ok /\ t.opened = ~t.dead
      BY <2>1, <3>2, <3>3, StoreFields DEF Store
    <3>5. Contents(t) = Empty /\ Contents(s) = Empty
      BY <2>2, <3>4, Constants DEF Contents
    <3> QED BY <1>2, <3>4, <3>5, StoreFields DEF Good, Reaches, InFile
  <2>3. CASE s.file # None
    <3>1. u = [s EXCEPT !.mem = s.file, !.ok = TRUE]
      BY <2>1, <2>3 DEF Load, Dependable
    <3>2. t \in Store /\ t.mem = s.file /\ t.file = s.file /\ t.ok /\ t.opened /\ ~t.dead
      BY <1>0, <1>2, <2>1, <2>3, <3>1, StoreFields DEF Store
    <3>3. Contents(t) = Contents(s) /\ t.mem = Contents(t)
      BY <2>3, <3>2 DEF Contents
    <3> QED BY <1>2, <3>2, <3>3, StoreFields DEF Good, Reaches, InFile
  <2> QED BY <2>2, <2>3
<1> QED BY <1>1, <1>2

LEMMA HoldIs ==
    ASSUME NEW s \in Store, NEW k \in Keys, NEW v \in Storable
    PROVE  LET t == Hold(s, k, v) IN
           /\ t \in Store /\ t.file = s.file /\ t.opened = s.opened /\ t.dead = s.dead
           /\ t.mem = IF t.ok THEN [s.mem EXCEPT ![k] = v] ELSE s.mem
BY StoreFields DEF Hold, Store

\* One value is set.
LEMMA SetIs ==
    ASSUME Dependable, NEW s, Good(s), NEW k \in Keys, NEW v \in Storable, NEW t \in Set(s, k, v)
    PROVE  /\ Reaches(s, t, {k}) /\ (~t.dead => t.opened)
           /\ k \in Plain => /\ InFile(t, k) \in {InFile(s, k), v}
                             /\ ~t.dead => InFile(t, k) = IF t.ok THEN v ELSE InFile(s, k)
<1>1. PICK b \in Begin(s) :
         t \in (IF b.dead \/ ~b.ok \/ ~Hold(b, k, v).ok THEN {[b EXCEPT !.ok = FALSE]}
                ELSE {TakeBack(u, k, b.mem[k]) : u \in Save(Hold(b, k, v))})
  BY DEF Set
<1>2. Reaches(s, b, {}) /\ (~b.dead => b.ok /\ b.opened)
  BY BeginIs
<1>3. Good(b) /\ b \in Store
  BY <1>2, StoreFields DEF Reaches
<1>4. \A j \in Plain : InFile(b, j) = InFile(s, j)
  BY <1>2 DEF Reaches
<1>5. CASE b.dead \/ ~b.ok \/ ~Hold(b, k, v).ok
  <2>1. t = [b EXCEPT !.ok = FALSE]
    BY <1>1, <1>5
  <2>2. t \in Store /\ t.mem = b.mem /\ t.file = b.file /\ t.opened = b.opened /\ t.dead = b.dead /\ t.ok = FALSE
    BY <1>3, <2>1, StoreFields DEF Store
  <2>3. Good(t) /\ \A j \in Plain : InFile(t, j) = InFile(b, j)
    BY <1>3, <2>2 DEF Good, InFile, Contents
  <2> QED BY <1>2, <1>4, <2>2, <2>3 DEF Reaches
<1>6. CASE ~(b.dead \/ ~b.ok \/ ~Hold(b, k, v).ok)
  <2> DEFINE h == Hold(b, k, v)
  <2>1. h \in Store /\ h.file = b.file /\ h.opened /\ ~h.dead /\ h.mem = [b.mem EXCEPT ![k] = v]
    BY <1>2, <1>3, <1>6, HoldIs
  <2>2. PICK u \in SaveOf(h, "write") : t = TakeBack(u, k, b.mem[k])
    BY <1>1, <1>6 DEF Save
  <2>3. /\ u \in Store /\ u.mem = h.mem /\ u.opened = h.opened /\ (u.file = h.mem \/ u.file = h.file)
        /\ ~u.dead => u.file = IF u.ok THEN h.mem ELSE h.file
    <3> HIDE DEF h
    <3> QED BY <2>1, <2>2, SaveIs
  <2>4. /\ t \in Store /\ t.file = u.file /\ t.opened = u.opened /\ t.dead = u.dead /\ t.ok = u.ok
        /\ t.mem = IF u.ok \/ u.dead THEN u.mem ELSE [u.mem EXCEPT ![k] = b.mem[k]]
    <3>1. b.mem[k] \in Storable
      BY <1>3, StoreFields
    <3> QED BY <2>2, <2>3, <3>1, StoreFields DEF TakeBack, Store
  <2>5. b.mem \in [Keys -> Storable] /\ \A j \in Plain : b.mem[j] = InFile(b, j)
    BY <1>2, <1>3, <1>6, StoreFields DEF Good, InFile
  <2>6. Contents(t) = IF t.file = b.file THEN Contents(b) ELSE [b.mem EXCEPT ![k] = v]
    BY <2>1, <2>3, <2>4, <2>5, Constants DEF Contents
  <2>7. ~t.dead /\ ~t.ok => t.mem = b.mem /\ Contents(t) = Contents(b)
    BY <2>1, <2>3, <2>4, <2>5, <2>6
  <2>8. ~t.dead /\ t.ok => t.mem = Contents(t) /\ Contents(t) = [b.mem EXCEPT ![k] = v]
    <3>1. ASSUME ~t.dead, t.ok PROVE t.file = h.mem /\ t.mem = h.mem
      BY <2>3, <2>4, <3>1
    <3>2. h.mem \in [Keys -> Storable]
      BY <2>1, StoreFields
    <3> QED BY <2>1, <3>1, <3>2, Constants DEF Contents
  <2>9. Good(t)
    BY <2>4, <2>5, <2>7, <2>8 DEF Good, InFile
  <2>10. \A j \in Plain \ {k} : InFile(t, j) = InFile(b, j)
    BY <2>5, <2>6 DEF InFile, Plain
  <2>11. k \in Plain => /\ InFile(t, k) \in {InFile(b, k), v}
                        /\ ~t.dead => InFile(t, k) = IF t.ok THEN v ELSE InFile(b, k)
    BY <2>5, <2>6, <2>7, <2>8 DEF InFile
  <2>12. t.opened /\ (s.dead => t.dead)
    <3>1. t.opened = h.opened
      BY <2>1, <2>3, <2>4
    <3> QED BY <1>2, <1>6, <2>1, <3>1 DEF Reaches
  <2> HIDE DEF h
  <2> QED BY <1>4, <2>9, <2>10, <2>11, <2>12 DEF Reaches
<1> QED BY <1>5, <1>6

\* One value is removed.
LEMMA RemoveIs ==
    ASSUME Dependable, NEW s, Good(s), s.opened, ~s.dead, NEW k \in Plain, NEW t \in RemoveKey(s, k)
    PROVE  /\ Reaches(s, t, {k}) /\ (~t.dead => t.opened)
           /\ InFile(t, k) \in {InFile(s, k), None}
           /\ ~t.dead => InFile(t, k) = None /\ (InFile(s, k) # None => t.ok)
<1>1. PICK b \in Begin(s) :
         t \in (IF b.dead \/ ~b.ok \/ ~Has(b, k) THEN {[b EXCEPT !.ok = FALSE]}
                ELSE SaveOf([b EXCEPT !.mem[k] = None], "remove"))
  BY DEF RemoveKey
<1>2. b = [s EXCEPT !.ok = TRUE] /\ s \in Store
  BY <1>1, StoreFields DEF Begin
<1>3. /\ b \in Store /\ b.mem = s.mem /\ b.file = s.file /\ b.opened /\ b.ok /\ ~b.dead
      /\ b.mem \in [Keys -> Storable]
  BY <1>2, StoreFields DEF Store
<1>4. k \in Keys /\ b.mem[k] = InFile(s, k) /\ Contents(b) = Contents(s) /\ \A j \in Plain : b.mem[j] = InFile(s, j)
  BY <1>3 DEF Good, InFile, Contents, Plain
<1>5. CASE ~Has(b, k)
  <2>1. t = [b EXCEPT !.ok = FALSE]
    BY <1>1, <1>5
  <2>2. t \in Store /\ t.mem = b.mem /\ t.file = b.file /\ t.opened /\ ~t.dead /\ t.ok = FALSE
    BY <1>3, <2>1, StoreFields DEF Store
  <2>3. Contents(t) = Contents(s) /\ InFile(t, k) = None /\ InFile(s, k) = None
    BY <1>3, <1>4, <1>5, <2>2 DEF Has, Contents, InFile
  <2> QED BY <1>3, <1>4, <2>2, <2>3 DEF Reaches, Good, InFile
<1>6. CASE Has(b, k)
  <2> DEFINE h == [b EXCEPT !.mem[k] = None]
  <2>1. h \in Store /\ h.file = s.file /\ h.opened /\ ~h.dead /\ h.mem = [s.mem EXCEPT ![k] = None]
    BY <1>3, <1>4, StoreFields DEF Store, Storable
  <2>2. /\ t \in Store /\ t.mem = h.mem /\ t.opened = h.opened /\ (t.file = h.mem \/ t.file = h.file)
        /\ ~t.dead => t.ok /\ t.file = h.mem
    <3>1. t \in SaveOf(h, "remove")
      BY <1>1, <1>3, <1>6
    <3> HIDE DEF h
    <3> QED BY <2>1, <3>1, SaveIs, StoreFields DEF Dependable
  <2>3. h.mem \in [Keys -> Storable]
    BY <2>1, StoreFields
  <2>4. Contents(t) = IF t.file = s.file THEN Contents(s) ELSE [s.mem EXCEPT ![k] = None]
    BY <2>1, <2>2, <2>3, Constants DEF Contents
  <2>5. ~t.dead => Contents(t) = h.mem
    BY <2>2, <2>3, Constants DEF Contents
  <2>6. Good(t)
    BY <2>2, <2>5 DEF Good
  <2>7. \A j \in Plain \ {k} : InFile(t, j) = InFile(s, j)
    BY <1>3, <1>4, <2>4 DEF InFile, Plain
  <2>8. InFile(t, k) \in {InFile(s, k), None} /\ (~t.dead => InFile(t, k) = None)
    BY <1>3, <1>4, <2>1, <2>4, <2>5 DEF InFile
  <2> QED BY <2>1, <2>2, <2>6, <2>7, <2>8 DEF Reaches
<1> QED BY <1>3, <1>5, <1>6

\* The WiFi profile, each key of it alone or both together.
LEMMA GetOrSaveIs ==
    ASSUME Dependable, NEW s, Good(s), NEW k \in ProfileKeys, NEW v \in Storable,
           NEW t \in GetOrSave(s, k, v)
    PROVE  Reaches(s, t, {})
<1>1. PICK b \in Begin(s) : t \in (IF b.dead \/ ~b.ok \/ Has(b, k) THEN {b} ELSE Set(b, k, v))
  BY DEF GetOrSave
<1>2. Reaches(s, b, {})
  BY BeginIs
<1>3. CASE t = b
  BY <1>2, <1>3
<1>4. CASE t \in Set(b, k, v)
  <2>1. k \in Keys /\ k \notin Plain
    BY Constants DEF Plain
  <2>2. Reaches(b, t, {k})
    BY <1>2, <1>4, <2>1, SetIs DEF Reaches
  <2> QED BY <1>2, <2>1, <2>2 DEF Reaches
<1> QED BY <1>1, <1>3, <1>4

\* A store that differs in the memory of the profile only.
Alike(s, h) ==
    /\ h \in Store /\ h.file = s.file /\ h.opened = s.opened /\ h.dead = s.dead
    /\ \A j \in Plain : h.mem[j] = s.mem[j]

LEMMA HoldAlike ==
    ASSUME NEW s, NEW h, Alike(s, h), NEW k \in ProfileKeys, NEW v \in Storable
    PROVE  Alike(s, IF h.ok THEN Hold(h, k, v) ELSE h)
<1>1. k \in Keys /\ k \notin Plain /\ Plain \subseteq Keys
  BY Constants DEF Plain
<1> DEFINE t == Hold(h, k, v)
<1>2. h \in Store
  BY DEF Alike
<1>3. /\ t \in Store /\ t.file = h.file /\ t.opened = h.opened /\ t.dead = h.dead
      /\ t.mem = IF t.ok THEN [h.mem EXCEPT ![k] = v] ELSE h.mem
  BY <1>1, <1>2, HoldIs
<1>4. \A j \in Plain : t.mem[j] = h.mem[j]
  BY <1>1, <1>2, <1>3, StoreFields
<1> HIDE DEF t
<1>5. Alike(s, t)
  BY <1>3, <1>4 DEF Alike
<1> QED BY <1>5 DEF t

LEMMA SetManyIs ==
    ASSUME Dependable, NEW s, Good(s), s.opened, ~s.dead, NEW v \in Storable,
           NEW t \in SetMany(s, Profile, v)
    PROVE  Reaches(s, t, {})
<1> DEFINE One == IF s.ok THEN Hold(s, Profile[1], v) ELSE s
           Two == IF One.ok THEN Hold(One, Profile[2], v) ELSE One
           Next1(g, i) == IF i = 0 THEN s ELSE IF g[i - 1].ok THEN Hold(g[i - 1], Profile[i], v) ELSE g[i - 1]
           Folding(g) == g = [i \in 0 .. Len(Profile) |-> Next1(g, i)]
           held == CHOOSE g : Folding(g)
<1>0. s \in Store
  BY StoreFields
<1>1. Profile[1] \in ProfileKeys /\ Profile[2] \in ProfileKeys /\ Len(Profile) = 2
  BY DEF Profile, ProfileKeys
<1>2. Alike(s, s)
  BY <1>0 DEF Alike
<1>3. Alike(s, One)
  BY <1>1, <1>2, HoldAlike
<1>4. Alike(s, Two)
  <2> HIDE DEF One
  <2> QED BY <1>1, <1>3, HoldAlike
<1>5. \E g : Folding(g)
  <2> DEFINE g == [i \in 0 .. 2 |-> IF i = 0 THEN s ELSE IF i = 1 THEN One ELSE Two]
  <2>1. g[0] = s /\ g[1] = One /\ g[2] = Two
    OBVIOUS
  <2>2. \A i \in 0 .. 2 : g[i] = Next1(g, i)
    <3>1. \A i \in 0 .. 2 : i = 0 \/ i = 1 \/ i = 2
      OBVIOUS
    <3> QED BY <2>1, <3>1
  <2>3. g = [i \in 0 .. 2 |-> g[i]]
    OBVIOUS
  <2>4. Folding(g)
    <3> HIDE DEF g
    <3> QED BY <1>1, <2>2, <2>3
  <2> QED BY <2>4
<1>6. Folding(held)
  BY <1>5
<1>7. held[2] = Two
  <2>1. held[0] = Next1(held, 0) /\ held[1] = Next1(held, 1) /\ held[2] = Next1(held, 2)
    <3>1. 0 \in 0 .. Len(Profile) /\ 1 \in 0 .. Len(Profile) /\ 2 \in 0 .. Len(Profile)
      BY <1>1
    <3> HIDE DEF held, Next1
    <3> QED BY <1>6, <3>1
  <2> HIDE DEF held
  <2>2. held[0] = s
    BY <2>1
  <2>3. held[1] = One
    BY <2>1, <2>2
  <2> QED BY <2>1, <2>3
<1>8. t \in IF Two.ok THEN Save(Two) ELSE {Two}
  <2>1. t \in IF held[Len(Profile)].ok THEN Save(held[Len(Profile)]) ELSE {held[Len(Profile)]}
    BY DEF SetMany
  <2> HIDE DEF held, Two
  <2> QED BY <1>1, <1>7, <2>1
<1>9. \A j \in Plain : s.mem[j] = Contents(s)[j]
  BY DEF Good
<1> HIDE DEF Two
<1>10. /\ t \in Store /\ t.mem = Two.mem /\ t.opened
       /\ t.file = Two.mem \/ t.file = s.file
  BY <1>4, <1>8, SaveIs DEF Save, Alike
<1>11. \A j \in Plain : t.mem[j] = s.mem[j]
  BY <1>4, <1>10 DEF Alike
<1>12. \A j \in Plain : Contents(t)[j] = Contents(s)[j]
  <2>1. CASE t.file = s.file
    BY <2>1 DEF Contents
  <2>2. CASE t.file = t.mem
    BY <1>9, <1>10, <1>11, <2>2, StoreFields, Constants DEF Contents
  <2> QED BY <1>10, <2>1, <2>2
<1> QED BY <1>9, <1>10, <1>11, <1>12 DEF Reaches, Good, InFile

-------------------------------------------------------------------------------
(* The identity.                                                               *)

\* A call leaves an effect that is sound.
Sound(e) == e = Effect(e.s, e.id, e.ret, e.ans) /\ e.id.begun /\ IdentityOK(e.s, e.id, e.ret)

LEMMA Recorded ==
    ASSUME NEW id \in Identity, id.parts # {} => id.old \in Names
    PROVE  /\ Recording(id) \in Storable
           /\ id.parts = {} => Recording(id) = None
           /\ id.parts # {} => /\ Recording(id) \in Records
                               /\ Recording(id).old = id.old /\ Recording(id).parts = id.parts
BY DEF Recording, Identity, Records, Storable

LEMMA PersistIs ==
    ASSUME Dependable, NEW s, Good(s), s.opened, ~s.dead,
           NEW id \in Identity, id.parts # {} => id.old \in Names,
           NEW t \in PersistPending(s, id)
    PROVE  /\ Reaches(s, t, {"record"}) /\ (~t.dead => t.opened)
           /\ NextRecord(t) \in {NextRecord(s), Recording(id)}
           /\ ~t.dead => NextRecord(t) = IF t.ok THEN Recording(id) ELSE NextRecord(s)
           /\ ~t.dead /\ id.parts = {} => t.ok
<1>1. "record" \in Keys /\ "record" \in Plain
  BY Constants DEF Plain
<1>2. CASE id.parts # {}
  <2>1. t \in Set(s, "record", Recording(id))
    BY <1>2 DEF PersistPending, Recording
  <2> QED BY <1>1, <1>2, <2>1, Recorded, SetIs DEF NextRecord, InFile
<1>3. CASE id.parts = {} /\ Has(s, "record")
  <2>1. t \in RemoveKey(s, "record")
    BY <1>3 DEF PersistPending
  <2>2. s.mem["record"] = NextRecord(s)
    BY <1>1 DEF Good, NextRecord
  <2>3. NextRecord(s) # None
    BY <1>3, <2>2 DEF Has
  <2> QED BY <1>1, <1>3, <2>1, <2>3, Recorded, RemoveIs DEF NextRecord, InFile
<1>4. CASE id.parts = {} /\ ~Has(s, "record")
  <2>1. t = [s EXCEPT !.ok = TRUE]
    BY <1>4 DEF PersistPending
  <2>2. t \in Store /\ t.mem = s.mem /\ t.file = s.file /\ t.opened /\ ~t.dead /\ t.ok
    BY <2>1, StoreFields DEF Store
  <2>3. Contents(t) = Contents(s)
    BY <2>2 DEF Contents
  <2>4. s.mem["record"] = NextRecord(s)
    BY <1>1 DEF Good, NextRecord
  <2>5. NextRecord(s) = None
    BY <1>4, <2>4 DEF Has
  <2>6. Good(t)
    BY <2>2, <2>3 DEF Good
  <2> QED BY <1>4, <2>2, <2>3, <2>5, <2>6, Recorded DEF Reaches, InFile, NextRecord
<1> QED BY <1>2, <1>3, <1>4

\* What touches neither the name nor the record leaves the identity sound.
LEMMA IdentityAway ==
    ASSUME NEW s, NEW t, NEW K, Reaches(s, t, K), "name" \notin K, "record" \notin K,
           NEW id, NEW j \in Identity, NEW ret, IdentityOK(s, id, ret),
           j.begun = id.begun, j.name = id.name, j.old = id.old, j.parts = id.parts
    PROVE  IdentityOK(t, j, ret)
<1>1. NextName(t) = NextName(s) /\ NextRecord(t) = NextRecord(s)
  BY Constants DEF Reaches, InFile, NextName, NextRecord
<1>2. Foreseen(t, ret) /\ Good(t)
  BY <1>1 DEF IdentityOK, Foreseen, Reaches
<1>3. ASSUME j.begun, ~t.dead PROVE Linked(t, j) /\ Known(j, ret)
  <2>1. Linked(s, id) /\ Known(id, ret) /\ ~s.dead
    BY <1>3 DEF IdentityOK, Reaches
  <2>2. t.opened
    BY <1>3, <2>1 DEF Linked, Reaches
  <2> QED BY <1>1, <2>1, <2>2 DEF Linked, Known, Recording
<1> QED BY <1>2, <1>3 DEF IdentityOK

\* begin() of the identity, once the store is open.
LEMMA CorrectedIs ==
    ASSUME Dependable, NEW s, Good(s), NEW k \in Plain, NEW v \in Storable, NEW t \in Corrected(s, k, v)
    PROVE  /\ Reaches(s, t, {k}) /\ InFile(t, k) \in {InFile(s, k), v}
<1>1. CASE s.dead \/ s.mem[k] = v
  <2>1. t = s
    BY <1>1 DEF Corrected
  <2> QED BY <2>1 DEF Reaches
<1>2. CASE ~(s.dead \/ s.mem[k] = v)
  <2>1. t \in Set(s, k, v) /\ k \in Keys
    BY <1>2 DEF Corrected, Plain
  <2> QED BY <2>1, SetIs
<1> QED BY <1>1, <1>2

\* What is known of the store when its name has been corrected.
Named(s, id, ret) ==
    /\ Good(s) /\ (~s.dead => s.opened) /\ Foreseen(s, ret)
    /\ id \in Identity /\ id.begun /\ id.old = None /\ id.parts = {} /\ id.name = NextName(s)
    /\ ret \subseteq Names \X Parts

LEMMA LoadPendingIs ==
    ASSUME Dependable, NEW s, NEW id, Named(s, id, retained), NEW e \in LoadPending(s, id)
    PROVE  Sound(e) /\ Reaches(s, e.s, IdentityKeys)
<1>0. Good(s) /\ "record" \in Plain /\ "record" \in IdentityKeys /\ "name" \in Plain
      /\ id \in Identity /\ id.begun
  BY Constants DEF Named, IdentityKeys
<1>1. ASSUME ~s.dead PROVE s.mem["record"] = NextRecord(s) /\ s.opened
  BY <1>0, <1>1 DEF Good, NextRecord, Named
<1>2. Reaches(s, s, IdentityKeys)
  BY <1>0 DEF Reaches
<1>3. CASE s.dead
  <2>1. e = Effect(s, id, retained, TRUE)
    BY <1>3 DEF LoadPending
  <2>2. IdentityOK(s, id, retained)
    BY <1>3 DEF Named, IdentityOK
  <2> QED BY <1>0, <1>2, <2>1, <2>2 DEF Effect, Sound
<1>4. CASE ~s.dead /\ NextRecord(s) = None
  <2>1. e = Effect(s, id, retained, TRUE)
    BY <1>1, <1>4 DEF LoadPending, Has
  <2>2. Recording(id) = None
    BY DEF Recording, Named
  <2>3. Known(id, retained)
    BY <1>4, Constants DEF Known, Named, Foreseen
  <2>4. IdentityOK(s, id, retained)
    BY <1>1, <1>4, <2>2, <2>3 DEF Named, IdentityOK, Linked
  <2> QED BY <1>0, <1>2, <2>1, <2>4 DEF Effect, Sound
<1>5. CASE ~s.dead /\ Actionable(NextRecord(s), id.name)
  <2> DEFINE rec == NextRecord(s)
             j == [id EXCEPT !.old = rec.old, !.parts = rec.parts]
  <2>1. rec \in Records
    BY <1>5 DEF Actionable
  <2>2. rec # None
    BY <2>1, Constants
  <2>3. e = Effect(s, j, retained, TRUE)
    BY <1>1, <1>5, <2>2 DEF LoadPending, Has
  <2>4. rec.old \in Names /\ rec.parts \in SUBSET Parts /\ rec.parts # {}
        /\ rec = [old |-> rec.old, parts |-> rec.parts]
    BY <2>1 DEF Records
  <2> HIDE DEF rec
  <2>5. j \in Identity /\ j.begun /\ j.name = id.name /\ j.old = rec.old /\ j.parts = rec.parts
    BY <1>0, <2>4 DEF Identity
  <2>6. Recording(j) = rec
    BY <2>4, <2>5 DEF Recording
  <2>7. Known(j, retained)
    BY <2>5 DEF Known, Named, Foreseen, rec
  <2>8. IdentityOK(s, j, retained)
    BY <1>1, <1>5, <2>4, <2>5, <2>6, <2>7 DEF Named, IdentityOK, Linked, rec
  <2> QED BY <1>2, <2>3, <2>5, <2>8 DEF Effect, Sound
<1>6. CASE ~s.dead /\ NextRecord(s) # None /\ ~Actionable(NextRecord(s), id.name)
  <2>1. PICK t \in RemoveKey(s, "record") : e = Effect(t, id, retained, TRUE)
    BY <1>1, <1>6 DEF LoadPending, Has
  <2>2. /\ Reaches(s, t, {"record"}) /\ (~t.dead => t.opened)
        /\ NextRecord(t) \in {NextRecord(s), None} /\ (~t.dead => NextRecord(t) = None)
    BY <1>0, <1>1, <1>6, <2>1, RemoveIs DEF NextRecord, InFile
  <2>3. NextName(t) = NextName(s)
    BY <1>0, <2>2 DEF Reaches, InFile, NextName
  <2>4. \A r \in retained : r[1] = NextName(s)
    BY <1>6 DEF Named, Foreseen, Actionable
  <2>5. Foreseen(t, retained) /\ Known(id, retained)
    BY <2>3, <2>4 DEF Foreseen, Known, Named
  <2>6. IdentityOK(t, id, retained)
    <3>1. Recording(id) = None
      BY DEF Recording, Named
    <3> QED BY <2>2, <2>3, <2>5, <3>1 DEF Named, IdentityOK, Linked, Reaches
  <2>7. Reaches(s, t, IdentityKeys)
    BY <2>2 DEF Reaches, IdentityKeys
  <2> QED BY <1>0, <2>1, <2>6, <2>7 DEF Effect, Sound
<1> QED BY <1>3, <1>4, <1>5, <1>6

LEMMA IdentityBeginIs ==
    ASSUME Dependable, NEW s, NEW id, IdentityOK(s, id, retained), NEW e \in IdentityBegin(s)
    PROVE  Sound(e) /\ Reaches(s, e.s, IdentityKeys)
<1> DEFINE named(t) == [Unborn EXCEPT !.begun = TRUE,
                            !.name = Or(t.mem["name"], Names, DefaultName),
                            !.zone = Or(t.mem["zone"], Zones, DefaultZone)]
<1>0. /\ "record" \in Plain /\ "name" \in Plain /\ "zone" \in Plain
      /\ "name" # "zone" /\ "record" # "zone" /\ "record" # "name"
      /\ {"name", "zone", "record"} = IdentityKeys /\ Names \subseteq Storable /\ Zones \subseteq Storable
  BY Constants DEF IdentityKeys, Storable
<1>1. PICK t \in Begin(s) :
        e \in (IF t.dead \/ ~t.ok THEN {Effect(t, named(t), retained, TRUE)}
               ELSE UNION {UNION {LoadPending(v, named(t)) : v \in Corrected(u, "zone", named(t).zone)}
                           : u \in Corrected(t, "name", named(t).name)})
  BY DEF IdentityBegin
<1>2. Reaches(s, t, {}) /\ (~t.dead => t.ok /\ t.opened)
  BY BeginIs DEF IdentityOK
<1> DEFINE id0 == named(t)
<1>3. /\ id0 \in Identity /\ id0.begun /\ id0.old = None /\ id0.parts = {}
      /\ id0.name = Or(t.mem["name"], Names, DefaultName) /\ id0.name \in Names
      /\ id0.zone \in Zones
  BY Constants DEF Identity, Unborn, Or
<1>4. NextName(t) = NextName(s) /\ NextRecord(t) = NextRecord(s)
  BY <1>0, <1>2 DEF Reaches, InFile, NextName, NextRecord
<1>5. Foreseen(t, retained) /\ retained \subseteq Names \X Parts /\ Good(t)
  BY <1>2, <1>4 DEF IdentityOK, Foreseen, Reaches
<1>6. CASE t.dead
  <2>1. e = Effect(t, id0, retained, TRUE)
    BY <1>1, <1>6
  <2> HIDE DEF id0
  <2>2. IdentityOK(t, id0, retained)
    BY <1>3, <1>5, <1>6 DEF IdentityOK
  <2>3. Reaches(s, t, IdentityKeys)
    BY <1>2 DEF Reaches
  <2> QED BY <1>3, <2>1, <2>2, <2>3 DEF Effect, Sound
<1>7. CASE ~t.dead
  <2>1. PICK u \in Corrected(t, "name", id0.name) :
          e \in UNION {LoadPending(v, id0) : v \in Corrected(u, "zone", id0.zone)}
    BY <1>1, <1>2, <1>7
  <2>2. PICK v \in Corrected(u, "zone", id0.zone) : e \in LoadPending(v, id0)
    BY <2>1
  <2>3. id0.name = NextName(t)
    BY <1>0, <1>2, <1>3, <1>5, <1>7 DEF Good, NextName
  <2> HIDE DEF id0
  <2>4. Reaches(t, u, {"name"}) /\ InFile(u, "name") \in {InFile(t, "name"), id0.name}
    BY <1>0, <1>3, <1>5, <2>1, CorrectedIs
  <2>5. Reaches(u, v, {"zone"})
    BY <1>0, <1>3, <2>2, <2>4, CorrectedIs DEF Reaches
  <2>6. NextName(u) = NextName(t)
    BY <1>3, <2>3, <2>4 DEF InFile, NextName, Or
  <2>7. NextName(v) = NextName(t) /\ NextRecord(v) = NextRecord(t)
    BY <1>0, <2>4, <2>5, <2>6 DEF Reaches, InFile, NextName, NextRecord
  <2>8. ~v.dead => v.opened
    BY <1>2, <2>4, <2>5, StoreFields DEF Reaches, Store
  <2>9. Named(v, id0, retained)
    BY <1>3, <1>5, <2>3, <2>5, <2>7, <2>8 DEF Named, Foreseen, Reaches
  <2>10. Sound(e) /\ Reaches(v, e.s, IdentityKeys)
    BY <2>2, <2>9, LoadPendingIs
  <2>11. Reaches(s, e.s, IdentityKeys)
    BY <1>0, <1>2, <2>4, <2>5, <2>10 DEF Reaches
  <2> QED BY <2>10, <2>11
<1> QED BY <1>6, <1>7

\* The adoption of a name: the record first, then the name, then neither.
LEMMA AdoptionIs ==
    ASSUME Dependable, IdentityOK(store, identity, retained), identity.begun, ~store.dead,
           NEW n \in Names, NEW e \in BeginAdoption(n)
    PROVE  Sound(e) /\ Reaches(store, e.s, IdentityKeys)
<1> DEFINE id == [identity EXCEPT !.old = identity.name, !.parts = Parts]
           name == identity.name
           rec == Recording(id)
<1>0. /\ "record" \in Plain /\ "name" \in Plain /\ "name" \in Keys /\ "record" # "name"
      /\ {"name", "zone", "record"} = IdentityKeys /\ Names \subseteq Storable
      /\ Parts # {} /\ None \notin Records
  BY Constants DEF IdentityKeys, Storable, Plain, Parts
<1>1. Linked(store, identity) /\ Known(identity, retained) /\ Good(store)
      /\ identity \in Identity /\ retained \subseteq Names \X Parts /\ Foreseen(store, retained)
  BY DEF IdentityOK
<1>2. CASE identity.parts # {} \/ n = name
  <2>1. e = Effect(store, identity, retained, identity.parts = {})
    BY <1>2 DEF BeginAdoption
  <2> QED BY <1>1, <2>1 DEF Effect, Sound, Reaches
<1>3. CASE ~(identity.parts # {} \/ n = name)
  <2>1. identity.parts = {} /\ name = NextName(store) /\ NextRecord(store) = None /\ store.opened
    BY <1>0, <1>1, <1>3 DEF Linked, Recording
  <2>2. \A r \in retained : r[1] = name /\ r[2] \in Parts
    BY <1>1, <2>1 DEF Known
  <2>3. /\ id \in Identity /\ id.begun /\ id.name = name /\ id.old = name /\ id.parts = Parts
        /\ id.locked = identity.locked /\ name \in Names
    BY <1>1 DEF Identity
  <2>4. /\ rec = [old |-> name, parts |-> Parts] /\ rec \in Records
        /\ rec.old = name /\ rec.parts = Parts
    BY <1>0, <2>3 DEF Recording, Records
  <2>5. PICK t \in PersistPending(store, id) :
           e \in (IF t.ok /\ ~t.dead THEN Rename(t, id, n) ELSE {Effect(t, identity, retained, FALSE)})
    BY <1>3 DEF BeginAdoption
  <2> HIDE DEF id, rec
  <2>6. /\ Reaches(store, t, {"record"}) /\ (~t.dead => t.opened)
        /\ NextRecord(t) \in {None, rec}
        /\ ~t.dead => NextRecord(t) = IF t.ok THEN rec ELSE None
    <3>1. id.parts # {} => id.old \in Names
      BY <2>3
    <3> QED BY <1>1, <2>1, <2>3, <2>5, <3>1, PersistIs DEF rec
  <2>7. NextName(t) = name /\ Good(t) /\ Reaches(store, t, IdentityKeys)
    BY <1>0, <2>1, <2>6 DEF Reaches, InFile, NextName
  <2>8. CASE ~(t.ok /\ ~t.dead)
    <3>1. e = Effect(t, identity, retained, FALSE)
      BY <2>5, <2>8
    <3>2. Foreseen(t, retained)
      BY <2>2, <2>7 DEF Foreseen
    <3>3. ~t.dead => Linked(t, identity)
      BY <2>1, <2>6, <2>7, <2>8 DEF Linked, Recording
    <3> QED BY <1>1, <2>7, <3>1, <3>2, <3>3 DEF Effect, Sound, IdentityOK
  <2>9. CASE t.ok /\ ~t.dead
    <3>1. PICK u \in Set(t, "name", n) :
             e \in (IF u.ok THEN {Effect(u, IF id.locked THEN id ELSE [id EXCEPT !.name = n], retained, TRUE)}
                    ELSE {Effect(v, NoPending(id), retained, FALSE)
                          : v \in IF u.dead THEN {u} ELSE PersistPending(u, NoPending(id))})
      BY <2>5, <2>9 DEF Rename
    <3>2. /\ Reaches(t, u, {"name"}) /\ (~u.dead => u.opened) /\ InFile(u, "name") \in {InFile(t, "name"), n}
          /\ ~u.dead => InFile(u, "name") = IF u.ok THEN n ELSE InFile(t, "name")
      BY <1>0, <2>7, <3>1, SetIs
    <3>3. NextRecord(u) = rec /\ Good(u) /\ Reaches(store, u, IdentityKeys)
      BY <1>0, <2>6, <2>7, <2>9, <3>2 DEF Reaches, InFile, NextRecord
    <3>4. Foreseen(u, retained)
      BY <2>2, <2>4, <3>3 DEF Foreseen
    <3>5. CASE u.ok
      <4> DEFINE j == IF id.locked THEN id ELSE [id EXCEPT !.name = n]
      <4>1. e = Effect(u, j, retained, TRUE)
        BY <3>1, <3>5
      <4>2. j \in Identity /\ j.begun /\ j.old = name /\ j.parts = Parts /\ j.name \in {name, n}
        BY <2>3 DEF Identity
      <4>3. Known(j, retained)
        BY <2>2, <4>2 DEF Known
      <4>4. j.name = name \/ j.name = n
        BY <4>2
      <4>5. ~u.dead => NextName(u) = n
        BY <3>2, <3>5 DEF InFile, NextName, Or
      <4>6. Recording(j) = rec
        BY <1>0, <2>4, <4>2 DEF Recording
      <4> HIDE DEF j
      <4>7. ~u.dead => Linked(u, j)
        BY <2>3, <3>2, <3>3, <4>2, <4>4, <4>5, <4>6 DEF Linked
      <4> QED BY <1>1, <3>3, <3>4, <4>1, <4>2, <4>3, <4>7 DEF Effect, Sound, IdentityOK
    <3>6. CASE ~u.ok
      <4> DEFINE j == NoPending(id)
      <4>1. j \in Identity /\ j.begun /\ j.old = None /\ j.parts = {} /\ j.name = name
        BY <2>3 DEF Identity, NoPending
      <4>2. Recording(j) = None
        BY <4>1 DEF Recording
      <4>3. Known(j, retained)
        BY <2>2, <4>1 DEF Known
      <4>4. PICK v \in IF u.dead THEN {u} ELSE PersistPending(u, j) : e = Effect(v, j, retained, FALSE)
        BY <3>1, <3>6
      <4> HIDE DEF j
      <4>5. CASE u.dead
        BY <1>1, <3>3, <3>4, <4>1, <4>4, <4>5 DEF Effect, Sound, IdentityOK
      <4>6. CASE ~u.dead
        <5>1. /\ Reaches(u, v, {"record"}) /\ (~v.dead => v.opened)
              /\ ~v.dead => NextRecord(v) = None
          BY <3>2, <3>3, <4>1, <4>2, <4>4, <4>6, PersistIs
        <5>2. NextName(v) = NextName(u) /\ Good(v) /\ Reaches(store, v, IdentityKeys)
          BY <1>0, <3>3, <5>1 DEF Reaches, InFile, NextName
        <5>3. NextName(u) = name
          BY <2>7, <3>2, <3>6, <4>6 DEF InFile, NextName
        <5>4. Foreseen(v, retained)
          BY <2>2, <5>2, <5>3 DEF Foreseen
        <5>5. ~v.dead => Linked(v, j)
          BY <4>1, <4>2, <5>1, <5>2, <5>3 DEF Linked
        <5> QED BY <1>1, <4>1, <4>3, <4>4, <5>2, <5>4, <5>5 DEF Effect, Sound, IdentityOK
      <4> QED BY <4>5, <4>6
    <3> QED BY <3>5, <3>6
  <2> QED BY <2>8, <2>9
<1> QED BY <1>2, <1>3

\* What the cleanup needs to know before it takes a part, and what it leaves for
\* the other: with the parts asked for at first, all of the former name.
Cleaning(e, due, old, part) ==
    /\ Sound(e)
    /\ part \in due => e.id.old = old /\ part \in e.id.parts /\ old # e.id.name

LEMMA MarkCompleteIs ==
    ASSUME Dependable, NEW e, Sound(e), e.id.begun, ~e.s.dead, NEW part \in e.id.parts,
           e.id.old # e.id.name, <<e.id.old, part>> \notin e.ret, NEW f \in MarkComplete(e, part)
    PROVE  /\ Sound(f) /\ Reaches(e.s, f.s, IdentityKeys)
           /\ f.id.begun /\ f.id.name = e.id.name
           /\ f.id.parts \in {e.id.parts, e.id.parts \ {part}}
           /\ f.id.parts # {} => f.id.old = e.id.old
           /\ f.id.locked = e.id.locked /\ f.id.job = e.id.job
<1> DEFINE id == e.id
           left == [e.id EXCEPT !.parts = @ \ {part},
                                !.old = IF e.id.parts \ {part} = {} THEN None ELSE @]
<1>0. /\ "record" \in Plain /\ "name" \in Plain /\ "record" # "name"
      /\ {"name", "zone", "record"} = IdentityKeys /\ None \notin Records
  BY Constants DEF IdentityKeys
<1>1. /\ IdentityOK(e.s, id, e.ret) /\ Linked(e.s, id) /\ Known(id, e.ret) /\ Good(e.s)
      /\ id \in Identity /\ e.ret \subseteq Names \X Parts
  BY DEF Sound, IdentityOK
<1>2. PICK s \in PersistPending(e.s, left) : f = Effect(s, IF s.ok THEN left ELSE e.id, e.ret, e.ans)
  BY DEF MarkComplete
<1>3. /\ id.old \in Names /\ NextRecord(e.s) = Recording(id) /\ id.name = NextName(e.s) /\ e.s.opened
      /\ id.parts \in SUBSET Parts
  BY <1>1 DEF Linked, Identity
<1>4. /\ left \in Identity /\ left.begun = id.begun /\ left.name = id.name /\ left.locked = id.locked
      /\ left.job = id.job /\ left.parts = id.parts \ {part}
      /\ left.parts # {} => left.old = id.old
  BY <1>1, <1>3 DEF Identity
<1> HIDE DEF left
<1>5. /\ Reaches(e.s, s, {"record"}) /\ (~s.dead => s.opened)
      /\ NextRecord(s) \in {Recording(id), Recording(left)}
      /\ ~s.dead => NextRecord(s) = IF s.ok THEN Recording(left) ELSE Recording(id)
  <2>1. left.parts # {} => left.old \in Names
    BY <1>3, <1>4
  <2> HIDE DEF id
  <2>2. e.s.opened /\ Good(e.s)
    BY <1>1, <1>3
  <2> QED BY <1>2, <1>3, <1>4, <2>1, <2>2, PersistIs
<1>6. Known(left, e.ret)
  <2>1. ASSUME NEW r \in e.ret, r[1] # id.name PROVE r[1] = left.old /\ r[2] \in left.parts
    <3>1. r[1] = id.old /\ r[2] \in id.parts
      BY <1>1, <2>1 DEF Known
    <3>2. r = <<r[1], r[2]>>
      BY <1>1
    <3>3. r[2] # part
      BY <3>1, <3>2
    <3> QED BY <1>4, <3>1, <3>3
  <2> QED BY <1>4, <2>1 DEF Known
<1>7. NextName(s) = id.name /\ Good(s) /\ Reaches(e.s, s, IdentityKeys)
  BY <1>0, <1>3, <1>5 DEF Reaches, InFile, NextName
<1>8. Foreseen(s, e.ret)
  <2>1. ASSUME NEW r \in e.ret, r[1] # id.name
        PROVE  NextRecord(s) \in Records /\ r[1] = NextRecord(s).old /\ r[2] \in NextRecord(s).parts
    <3>1. r[1] = left.old /\ r[2] \in left.parts /\ left.parts # {} /\ id.parts # {}
      BY <1>4, <1>6, <2>1 DEF Known
    <3>2. left.old = id.old /\ left.old \in Names /\ left.parts \subseteq id.parts
      BY <1>3, <1>4, <3>1
    <3>3. CASE NextRecord(s) = Recording(left)
      BY <1>4, <3>1, <3>2, <3>3, Recorded
    <3>4. CASE NextRecord(s) = Recording(id)
      BY <1>1, <1>3, <3>1, <3>2, <3>4, Recorded
    <3> QED BY <1>5, <3>3, <3>4
  <2> QED BY <1>7, <2>1 DEF Foreseen
<1> DEFINE j == IF s.ok THEN left ELSE id
<1>9. ~s.dead => Linked(s, j)
  BY <1>3, <1>4, <1>5, <1>7 DEF Linked
<1>10. /\ Known(j, e.ret) /\ j \in Identity /\ j.begun /\ j.name = id.name
       /\ j.locked = id.locked /\ j.job = id.job
       /\ j.parts \in {id.parts, id.parts \ {part}} /\ (j.parts # {} => j.old = id.old)
  BY <1>1, <1>4, <1>6
<1>11. f = Effect(s, j, e.ret, e.ans)
  BY <1>2
<1>12. IdentityOK(s, j, e.ret)
  <2> HIDE DEF j
  <2> QED BY <1>1, <1>7, <1>8, <1>9, <1>10 DEF IdentityOK
<1> HIDE DEF j
<1>13. f.s = s /\ f.id = j /\ f.ret = e.ret /\ f.ans = e.ans /\ f = Effect(f.s, f.id, f.ret, f.ans)
  BY <1>11 DEF Effect
<1> QED BY <1>7, <1>10, <1>12, <1>13 DEF Sound

LEMMA CleanPartIs ==
    ASSUME Dependable, NEW due, NEW old, NEW part \in Parts, NEW e, Cleaning(e, due, old, part),
           NEW f \in CleanPart(e, due, old, part)
    PROVE  /\ Sound(f) /\ Reaches(e.s, f.s, IdentityKeys)
           /\ f.id.begun /\ f.id.name = e.id.name
           /\ f.id.locked = e.id.locked /\ f.id.job = e.id.job
           /\ part \notin due => f.id = e.id
           /\ \A q \in Parts \ {part} :
                  q \in e.id.parts => f.id.old = e.id.old /\ q \in f.id.parts
<1>1. Sound(e) /\ e.id.begun /\ IdentityOK(e.s, e.id, e.ret) /\ Good(e.s)
  BY DEF Cleaning, Sound, IdentityOK
<1>2. CASE e.s.dead \/ part \notin due
  <2>1. f = e
    BY <1>2 DEF CleanPart
  <2> QED BY <1>1, <2>1 DEF Reaches
<1>3. CASE ~(e.s.dead \/ part \notin due)
  <2>1. PICK g \in Withdrawn(e, old, part) : f \in (IF g.ans THEN MarkComplete(g, part) ELSE {g})
    BY <1>3 DEF CleanPart
  <2>2. /\ e.id.old = old /\ part \in e.id.parts /\ old # e.id.name
        /\ e = [s |-> e.s, id |-> e.id, ret |-> e.ret, ans |-> e.ans]
    BY <1>1, <1>3 DEF Cleaning, Sound, Effect
  <2>3. /\ g.s = e.s /\ g.id = e.id /\ g = Effect(g.s, g.id, g.ret, g.ans)
        /\ g.ret \subseteq e.ret \cup {<<old, part>>} /\ (g.ans => <<old, part>> \notin g.ret)
    BY <2>1, <2>2 DEF Withdrawn, Effect
  <2>4. /\ Linked(e.s, e.id) /\ Known(e.id, e.ret) /\ e.id.old \in Names
        /\ NextRecord(e.s) = Recording(e.id) /\ e.id \in Identity /\ Foreseen(e.s, e.ret)
        /\ e.ret \subseteq Names \X Parts
    BY <1>1, <1>3, <2>2 DEF IdentityOK, Linked
  <2>5. /\ Recording(e.id) \in Records /\ Recording(e.id).old = old /\ Recording(e.id).parts = e.id.parts
    BY <2>2, <2>4, Recorded
  <2>6. Known(e.id, g.ret) /\ Foreseen(e.s, g.ret) /\ g.ret \subseteq Names \X Parts
    BY <2>2, <2>3, <2>4, <2>5 DEF Known, Foreseen
  <2>7. IdentityOK(e.s, e.id, g.ret)
    BY <1>1, <1>3, <2>4, <2>6 DEF IdentityOK
  <2>8. Sound(g)
    BY <1>1, <2>3, <2>7 DEF Sound
  <2>9. CASE ~g.ans
    <3>1. f = g
      BY <2>1, <2>9
    <3> QED BY <1>1, <2>3, <2>8, <3>1 DEF Reaches
  <2>10. CASE g.ans
    <3>1. f \in MarkComplete(g, part)
      BY <2>1, <2>10
    <3>2. g.id.begun /\ ~g.s.dead /\ part \in g.id.parts /\ g.id.old # g.id.name
          /\ <<g.id.old, part>> \notin g.ret
      BY <1>1, <1>3, <2>2, <2>3, <2>10
    <3>3. /\ Sound(f) /\ Reaches(g.s, f.s, IdentityKeys)
          /\ f.id.begun /\ f.id.name = g.id.name
          /\ f.id.parts \in {g.id.parts, g.id.parts \ {part}}
          /\ f.id.parts # {} => f.id.old = g.id.old
          /\ f.id.locked = g.id.locked /\ f.id.job = g.id.job
      BY <2>8, <3>1, <3>2, MarkCompleteIs
    <3> QED BY <1>3, <2>3, <3>3
  <2> QED BY <2>9, <2>10
<1> QED BY <1>2, <1>3

\* processPendingIdentityCleanup(), whatever the broker and the file accept.
LEMMA CleanupIs ==
    ASSUME Dependable, IdentityOK(store, identity, retained), identity.begun,
           NEW e \in ProcessCleanup
    PROVE  /\ Sound(e) /\ Reaches(store, e.s, IdentityKeys)
           /\ e.id.begun /\ e.id.locked = identity.locked
<1> DEFINE due == CleanupDue(identity)
           old == identity.old
           e0 == Effect(store, identity, retained, TRUE)
<1>1. PICK f \in CleanPart(e0, due, old, "resources") : e \in CleanPart(f, due, old, "status")
  BY DEF ProcessCleanup
<1>2. /\ due \subseteq identity.parts /\ (due # {} => old # identity.name)
      /\ "resources" \in Parts /\ "status" \in Parts /\ "status" # "resources"
  BY DEF CleanupDue, Parts
<1>3. e0.s = store /\ e0.id = identity /\ Sound(e0)
  BY DEF Effect, Sound
<1> HIDE DEF due, e0, old
<1>4. Cleaning(e0, due, old, "resources")
  BY <1>2, <1>3 DEF Cleaning, old
<1>5. /\ Sound(f) /\ Reaches(e0.s, f.s, IdentityKeys)
      /\ f.id.begun /\ f.id.name = e0.id.name /\ f.id.locked = e0.id.locked
      /\ \A q \in Parts \ {"resources"} :
             q \in e0.id.parts => f.id.old = e0.id.old /\ q \in f.id.parts
  BY <1>1, <1>2, <1>4, CleanPartIs
<1>6. Cleaning(f, due, old, "status")
  BY <1>2, <1>3, <1>5 DEF Cleaning, old
<1>7. Sound(e) /\ Reaches(f.s, e.s, IdentityKeys) /\ e.id.begun /\ e.id.locked = f.id.locked
  BY <1>1, <1>2, <1>6, CleanPartIs
<1> QED BY <1>3, <1>5, <1>7 DEF Reaches

\* A timezone is stored or the former one is kept; the name is not touched.
LEMMA ZoneIs ==
    ASSUME Dependable, IdentityOK(store, identity, retained), identity.begun,
           NEW z \in Zones, NEW e \in SetZone(z)
    PROVE  Sound(e) /\ Reaches(store, e.s, IdentityKeys)
<1>0. /\ "zone" \in Keys /\ "name" # "zone" /\ "record" # "zone" /\ "zone" \in IdentityKeys
      /\ z \in Storable
  BY Constants DEF IdentityKeys, Storable, Plain
<1>1. identity \in Identity /\ identity.zone \in Storable /\ Good(store)
  BY DEF IdentityOK, Identity, Storable
<1>2. PICK s \in Set(store, "zone", z) :
         e \in (IF s.ok \/ s.dead THEN {Effect(s, [identity EXCEPT !.zone = z], retained, TRUE)}
                ELSE {Effect(t, identity, retained, FALSE) : t \in Set(s, "zone", identity.zone)})
  BY DEF SetZone
<1>3. Reaches(store, s, {"zone"})
  BY <1>0, <1>1, <1>2, SetIs
<1>4. CASE s.ok \/ s.dead
  <2> DEFINE j == [identity EXCEPT !.zone = z]
  <2>1. e = Effect(s, j, retained, TRUE)
    BY <1>2, <1>4
  <2>2. /\ j \in Identity /\ j.begun = identity.begun /\ j.name = identity.name
        /\ j.old = identity.old /\ j.parts = identity.parts
    BY <1>1 DEF Identity
  <2> HIDE DEF j
  <2>3. IdentityOK(s, j, retained)
    BY <1>0, <1>3, <2>2, IdentityAway
  <2> QED BY <1>0, <1>3, <2>1, <2>2, <2>3 DEF Effect, Sound, Reaches
<1>5. CASE ~(s.ok \/ s.dead)
  <2>1. PICK t \in Set(s, "zone", identity.zone) : e = Effect(t, identity, retained, FALSE)
    BY <1>2, <1>5
  <2>2. Reaches(s, t, {"zone"})
    <3>1. Good(s)
      BY <1>3 DEF Reaches
    <3> QED BY <1>0, <1>1, <2>1, <3>1, SetIs
  <2>3. Reaches(store, t, {"zone"})
    BY <1>3, <2>2 DEF Reaches
  <2>4. IdentityOK(t, identity, retained)
    BY <1>0, <1>1, <2>3, IdentityAway
  <2> QED BY <1>0, <2>1, <2>3, <2>4 DEF Effect, Sound, Reaches
<1> QED BY <1>4, <1>5

-------------------------------------------------------------------------------
(* What a call leaves when it ends or the power is lost in it.                  *)

LEMMA SettledIs ==
    ASSUME NEW s, Good(s)
    PROVE  /\ Good(Settled(s)) /\ Contents(Settled(s)) = Contents(s)
           /\ Settled(s).dead = s.dead /\ (~s.dead => Settled(s).opened = s.opened)
           /\ s.dead => ~Settled(s).opened
<1>0. s \in Store
  BY StoreFields
<1>1. CASE s.dead
  BY <1>0, <1>1, Constants, StoreFields DEF Settled, Off, Good, Contents, Store
<1>2. CASE ~s.dead
  <2> DEFINE t == [s EXCEPT !.ok = TRUE]
  <2>1. t \in Store /\ t.mem = s.mem /\ t.file = s.file /\ t.opened = s.opened /\ t.dead = s.dead
    BY <1>0, StoreFields DEF Store
  <2>2. Settled(s) = t
    BY <1>2 DEF Settled
  <2> HIDE DEF t
  <2>3. Contents(t) = Contents(s)
    BY <2>1 DEF Contents
  <2> QED BY <1>2, <2>1, <2>2, <2>3 DEF Good
<1> QED BY <1>1, <1>2

LEMMA SettledReaches ==
    ASSUME NEW s, NEW t, NEW K, Reaches(s, t, K)
    PROVE  Reaches(s, Settled(t), K)
<1>1. Good(t)
  BY DEF Reaches
<1>2. /\ Good(Settled(t)) /\ Contents(Settled(t)) = Contents(t)
      /\ Settled(t).dead = t.dead /\ (~t.dead => Settled(t).opened = t.opened)
  BY <1>1, SettledIs
<1> QED BY <1>2 DEF Reaches, InFile

LEMMA UnbornIs ==
    /\ Unborn \in Identity /\ ~Unborn.begun /\ ~Unborn.locked
BY Constants DEF Unborn, Identity

\* A sound effect is sound when it is done.
LEMMA DoneIs ==
    ASSUME NEW e, Sound(e), Done(e)
    PROVE  /\ IdentityOK(store, identity, retained)'
           /\ store'.dead => ~identity'.begun
           /\ identity'.locked => identity'.begun
<1>1. /\ Good(e.s) /\ IdentityOK(e.s, e.id, e.ret) /\ e.id.begun
  BY DEF Sound, IdentityOK
<1>2. /\ Good(store') /\ Contents(store') = Contents(e.s)
      /\ store'.dead = e.s.dead /\ (~e.s.dead => store'.opened = e.s.opened)
  BY <1>1, SettledIs DEF Done
<1>3. NextName(store') = NextName(e.s) /\ NextRecord(store') = NextRecord(e.s)
  BY <1>2 DEF NextName, NextRecord
<1>4. Foreseen(store', e.ret) /\ (Linked(e.s, e.id) /\ ~e.s.dead => Linked(store', e.id))
  BY <1>1, <1>2, <1>3 DEF IdentityOK, Foreseen, Linked
<1>5. retained' = e.ret /\ identity' = IF e.s.dead THEN Unborn ELSE e.id
  BY DEF Done
<1>6. IdentityOK(store', identity', retained')
  BY <1>1, <1>2, <1>4, <1>5, UnbornIs DEF IdentityOK
<1> QED BY <1>1, <1>2, <1>5, <1>6, UnbornIs

\* The Configs are not touched by what the identity and the profile store.
LEMMA ConfigsAway ==
    ASSUME ConfigOK(store), NEW t, NEW K, Reaches(store, t, K), K \cap Configs = {},
           Keep(t, value, bound, restored)
    PROVE  ConfigOK(store)' /\ (store'.dead => ~restored' /\ ~store'.opened)
<1>1. /\ Good(t) /\ \A c \in Configs : Contents(t)[c] = Contents(store)[c]
      /\ (store.opened /\ ~t.dead => t.opened) /\ Configs \subseteq Plain
  BY Constants DEF Reaches, InFile
<1>2. /\ Good(store') /\ Contents(store') = Contents(t) /\ store'.dead = t.dead
      /\ (~t.dead => store'.opened = t.opened) /\ (t.dead => ~store'.opened)
  BY <1>1, SettledIs DEF Keep
<1>3. /\ value' = IF t.dead THEN [c \in Configs |-> FirmwareDefault] ELSE value
      /\ bound' = IF t.dead THEN {} ELSE bound
      /\ restored' = (restored /\ ~t.dead)
  BY DEF Keep
<1>4. value' \in [Configs -> Values] /\ bound' \subseteq Configs /\ IsFiniteSet(bound')
  BY <1>3, FS_EmptySet, Constants DEF ConfigOK
<1>5. restored' => store'.opened /\ \A c \in bound' : value'[c] = Contents(store')[c]
  BY <1>1, <1>2, <1>3 DEF ConfigOK
<1> QED BY <1>2, <1>3, <1>4, <1>5 DEF ConfigOK

\* Neither is the identity by what stores other keys.
LEMMA IdentityKept ==
    ASSUME SettingsInv, NEW t, NEW K, Reaches(store, t, K), K \cap IdentityKeys = {},
           NEW ans, Done(Effect(t, identity, retained, ans))
    PROVE  /\ IdentityOK(store, identity, retained)' /\ (store'.dead => ~identity'.begun)
           /\ identity'.locked => identity'.begun
<1>1. "name" \notin K /\ "record" \notin K /\ identity \in Identity
  BY DEF IdentityKeys, SettingsInv, IdentityOK
<1>2. IdentityOK(t, identity, retained)
  BY <1>1, IdentityAway DEF SettingsInv
<1> DEFINE e == Effect(t, identity, retained, ans)
<1>3. e.s = t /\ e.id = identity /\ e.ret = retained
  BY DEF Effect
<1>4. CASE identity.begun
  <2>1. Sound(e)
    BY <1>2, <1>4 DEF Sound, Effect
  <2> QED
    <3> HIDE DEF e
    <3> QED BY <2>1, DoneIs DEF e
<1>5. CASE ~identity.begun
  <2>1. store' = Settled(t) /\ retained' = retained /\ identity' = IF t.dead THEN Unborn ELSE identity
    BY <1>3 DEF Done
  <2>2. Good(t) /\ Good(store') /\ Contents(store') = Contents(t) /\ store'.dead = t.dead
    BY <1>2, <2>1, SettledIs DEF IdentityOK
  <2>3. ~identity'.begun /\ identity' \in Identity /\ ~identity'.locked
    BY <1>1, <1>5, <2>1, UnbornIs DEF SettingsInv
  <2>4. Foreseen(store', retained)
    BY <1>2, <2>2 DEF IdentityOK, Foreseen, NextName, NextRecord
  <2>5. IdentityOK(store', identity', retained')
    BY <1>2, <2>1, <2>2, <2>3, <2>4 DEF IdentityOK
  <2> QED BY <2>3, <2>5
<1> QED BY <1>4, <1>5

-------------------------------------------------------------------------------
(* The Configs.                                                                *)

\* One Config is restored.
LEMMA RestoreOneIs ==
    ASSUME Dependable, NEW s, Good(s), ~s.dead => s.opened, value \in [Configs -> Values],
           NEW c \in Configs, NEW h \in RestoreOne(s, c)
    PROVE  /\ Reaches(s, h.s, {c}) /\ h.v \in Values /\ h.good \in BOOLEAN
           /\ h.good /\ ~h.s.dead => h.v = InFile(h.s, c)
           /\ ~h.s.dead => h.s.opened
<1>0. c \in Keys /\ c \in Plain /\ FirmwareDefault \in Values /\ FirmwareDefault \in Storable
  BY Constants DEF Plain, Storable
<1>1. CASE s.dead
  <2>1. h = Holding(s, value[c], FALSE)
    BY <1>1 DEF RestoreOne
  <2>2. h.s = s /\ h.v = value[c] /\ h.good = FALSE
    BY <2>1 DEF Holding
  <2> QED BY <1>1, <2>2 DEF Reaches
<1>2. CASE ~s.dead /\ s.mem[c] \in Values
  <2>1. h = Holding(s, s.mem[c], TRUE)
    BY <1>2 DEF RestoreOne
  <2>2. h.s = s /\ h.v = s.mem[c] /\ h.good = TRUE
    BY <2>1 DEF Holding
  <2> QED BY <1>0, <1>2, <2>2 DEF Reaches, Good, InFile
<1>3. CASE ~s.dead /\ s.mem[c] \notin Values
  <2>1. PICK t \in Set(s, c, FirmwareDefault) : h = Holding(t, FirmwareDefault, t.ok)
    BY <1>3 DEF RestoreOne
  <2>2. h.s = t /\ h.v = FirmwareDefault /\ h.good = t.ok
    BY <2>1 DEF Holding
  <2>3. /\ Reaches(s, t, {c}) /\ (~t.dead => t.opened)
        /\ ~t.dead => InFile(t, c) = IF t.ok THEN FirmwareDefault ELSE InFile(s, c)
    BY <1>0, <2>1, SetIs
  <2>4. t.ok \in BOOLEAN
    BY <2>3, StoreFields DEF Reaches
  <2> QED BY <1>0, <2>2, <2>3, <2>4
<1> QED BY <1>1, <1>2, <1>3

\* A set of numbers that is not empty has a least one.
LEMMA LeastNumber ==
    ASSUME NEW T, T \subseteq Nat, T # {}
    PROVE  \E x \in T : \A y \in T : x <= y
<1>1. IsWellFoundedOn(OpToRel(<, Nat), Nat)
  BY NatLessThanWellFounded
<1>2. PICK x \in T : \A y \in T : ~(<<y, x>> \in OpToRel(<, Nat))
  BY <1>1, WFMin
<1>3. \A y \in T : ~(y < x)
  BY <1>2 DEF OpToRel
<1> QED
  BY <1>3

\* What holds of 0 and, if it holds of k < n, of k + 1, holds of all of 0 .. n.
LEMMA UpTo ==
    ASSUME NEW T, NEW n \in Nat, 0 \in T, \A k \in 0 .. n - 1 : k \in T => k + 1 \in T
    PROVE  0 .. n \subseteq T
<1> DEFINE Out == {k \in 0 .. n : k \notin T}
<1>1. SUFFICES ASSUME Out # {} PROVE FALSE
  OBVIOUS
<1>2. Out \subseteq Nat
  OBVIOUS
<1>3. PICK x \in Out : \A y \in Out : x <= y
  <2> HIDE DEF Out
  <2> QED BY <1>1, <1>2, LeastNumber
<1>4. x # 0 /\ x - 1 \in 0 .. n - 1
  BY <1>3
<1>5. x - 1 \in T
  BY <1>3, <1>4
<1> QED
  BY <1>3, <1>4, <1>5

\* The recursion over the bound Configs, for those sets of them that have at most
\* k members.
Adding(r, c) == {[s |-> h.s, vals |-> [r.vals EXCEPT ![c] = h.v], good |-> r.good /\ h.good] :
                     h \in RestoreOne(r.s, c)}
Reopened(s) == [s |-> s, vals |-> value, good |-> TRUE]
Step(s, f, B) ==
    IF B = {} THEN {Reopened(s)}
    ELSE LET c == CHOOSE c \in B : TRUE IN UNION {Adding(r, c) : r \in f[B \ {c}]}
UpToSize(k) == {B \in SUBSET bound : Cardinality(B) <= k}
Partial(s, k, f) == f = [B \in UpToSize(k) |-> Step(s, f, B)]
All(s) == CHOOSE f : f = [B \in SUBSET bound |-> Step(s, f, B)]

LEMMA Smaller ==
    ASSUME IsFiniteSet(bound), NEW B \in SUBSET bound
    PROVE  /\ Cardinality(B) \in Nat /\ Cardinality(bound) \in Nat
           /\ Cardinality(B) <= Cardinality(bound)
           /\ Cardinality(B) = 0 => B = {}
           /\ Cardinality({}) = 0
           /\ \A c \in B : B \ {c} \in SUBSET bound /\ Cardinality(B \ {c}) = Cardinality(B) - 1
<1>1. IsFiniteSet(B) /\ Cardinality(B) <= Cardinality(bound)
  BY FS_Subset
<1>2. Cardinality(B) \in Nat /\ Cardinality(bound) \in Nat
  BY <1>1, FS_CardinalityType
<1>3. Cardinality(B) = 0 => B = {}
  BY <1>1, FS_EmptySet
<1>4. Cardinality({}) = 0
  BY FS_EmptySet
<1>5. ASSUME NEW c \in B PROVE Cardinality(B \ {c}) = Cardinality(B) - 1
  BY <1>1, FS_RemoveElement
<1> QED BY <1>1, <1>2, <1>3, <1>4, <1>5

LEMMA PartialExists ==
    ASSUME IsFiniteSet(bound), NEW s
    PROVE  \E f : Partial(s, Cardinality(bound), f)
<1> DEFINE n == Cardinality(bound)
           T == {k \in Nat : \E f : Partial(s, k, f)}
<1>0. n \in Nat
  BY Smaller
<1>1. 0 \in T
  <2> DEFINE f == [B \in UpToSize(0) |-> {Reopened(s)}]
  <2>1. \A B \in UpToSize(0) : B = {}
    BY Smaller DEF UpToSize
  <2>2. \A B \in UpToSize(0) : Step(s, f, B) = {Reopened(s)}
    BY <2>1 DEF Step
  <2>3. Partial(s, 0, f)
    BY <2>2 DEF Partial
  <2> QED BY <2>3
<1>2. ASSUME NEW k \in 0 .. n - 1, k \in T PROVE k + 1 \in T
  <2>1. PICK f : Partial(s, k, f)
    BY <1>2
  <2> DEFINE g == [B \in UpToSize(k + 1) |-> Step(s, f, B)]
  <2>2. \A B \in UpToSize(k) : B \in UpToSize(k + 1) /\ g[B] = f[B]
    <3>1. \A B \in UpToSize(k) : B \in UpToSize(k + 1)
      BY <1>0, Smaller DEF UpToSize
    <3> QED BY <2>1, <3>1 DEF Partial
  <2> HIDE DEF g
  <2>3. ASSUME NEW B \in UpToSize(k + 1) PROVE Step(s, g, B) = Step(s, f, B)
    <3>1. CASE B = {}
      BY <3>1 DEF Step
    <3>2. CASE B # {}
      <4> DEFINE c == CHOOSE c \in B : TRUE
      <4>1. B \in SUBSET bound /\ Cardinality(B) <= k + 1
        BY DEF UpToSize
      <4>2. c \in B
        BY <3>2
      <4>6. B \ {c} \in SUBSET bound /\ Cardinality(B \ {c}) = Cardinality(B) - 1
        <5> HIDE DEF c
        <5> QED BY <4>1, <4>2, Smaller
      <4>3. Cardinality(B) \in Nat
        BY <1>0, <4>1, Smaller
      <4>4. B \ {c} \in UpToSize(k)
        <5> HIDE DEF c
        <5> QED BY <1>0, <4>1, <4>3, <4>6 DEF UpToSize
      <4>5. g[B \ {c}] = f[B \ {c}]
        BY <2>2, <4>4
      <4> QED BY <3>2, <4>5 DEF Step
    <3> QED BY <3>1, <3>2
  <2>4. Partial(s, k + 1, g)
    BY <2>3 DEF Partial, g
  <2> QED BY <1>0, <2>4
<1>3. 0 .. n \subseteq T
  <2> HIDE DEF T, n
  <2> QED BY <1>0, <1>1, <1>2, UpTo
<1> QED BY <1>0, <1>3

LEMMA AllDef ==
    ASSUME IsFiniteSet(bound), NEW s
    PROVE  /\ RestoreAll(s) = All(s)[bound]
           /\ All(s) = [B \in SUBSET bound |-> Step(s, All(s), B)]
<1>1. RestoreAll(s) = All(s)[bound]
  BY DEF RestoreAll, All, Step, Adding, Reopened
<1>2. UpToSize(Cardinality(bound)) = SUBSET bound
  BY Smaller DEF UpToSize
<1>3. \E f : f = [B \in SUBSET bound |-> Step(s, f, B)]
  BY <1>2, PartialExists DEF Partial
<1>4. All(s) = [B \in SUBSET bound |-> Step(s, All(s), B)]
  BY <1>3 DEF All
<1> QED BY <1>1, <1>4

\* What restoring the Configs B of s leaves.
Result(s, r, B) ==
    /\ Reaches(s, r.s, B) /\ (~r.s.dead => r.s.opened)
    /\ r.vals \in [Configs -> Values] /\ r.good \in BOOLEAN
    /\ r.good /\ ~r.s.dead => \A c \in B : r.vals[c] = InFile(r.s, c)

LEMMA AddingIs ==
    ASSUME Dependable, value \in [Configs -> Values], NEW s, NEW B \in SUBSET Configs, NEW c \in B,
           NEW r, Result(s, r, B \ {c}), NEW q \in Adding(r, c)
    PROVE  Result(s, q, B)
<1>1. PICK h \in RestoreOne(r.s, c) :
         q = [s |-> h.s, vals |-> [r.vals EXCEPT ![c] = h.v], good |-> r.good /\ h.good]
  BY DEF Adding
<1>2. Good(r.s) /\ (~r.s.dead => r.s.opened) /\ r.s.dead \in BOOLEAN
  BY StoreFields DEF Result, Reaches
<1>3. /\ Reaches(r.s, h.s, {c}) /\ h.v \in Values /\ h.good \in BOOLEAN
      /\ h.good /\ ~h.s.dead => h.v = InFile(h.s, c)
      /\ ~h.s.dead => h.s.opened
  BY <1>1, <1>2, RestoreOneIs
<1>4. q.s = h.s /\ q.vals = [r.vals EXCEPT ![c] = h.v] /\ q.good = (r.good /\ h.good)
  BY <1>1
<1>5. Reaches(s, q.s, B)
  BY <1>3, <1>4 DEF Result, Reaches
<1>6. q.vals \in [Configs -> Values] /\ q.good \in BOOLEAN
  BY <1>3, <1>4 DEF Result
<1>7. ASSUME q.good, ~q.s.dead, NEW b \in B PROVE q.vals[b] = InFile(q.s, b)
  <2>1. CASE b = c
    BY <1>3, <1>4, <1>7, <2>1 DEF Result
  <2>2. CASE b # c
    <3>1. r.vals[b] = InFile(r.s, b)
      <4>1. r.good /\ ~r.s.dead
        BY <1>2, <1>3, <1>4, <1>7 DEF Reaches, Result
      <4> QED BY <2>2, <4>1 DEF Result
    <3>2. InFile(h.s, b) = InFile(r.s, b)
      BY <1>3, <2>2, Constants DEF Reaches
    <3> QED BY <1>4, <2>2, <3>1, <3>2 DEF Result
  <2> QED BY <2>1, <2>2
<1> QED BY <1>3, <1>4, <1>5, <1>6, <1>7 DEF Result

LEMMA RestoreAllIs ==
    ASSUME Dependable, NEW s, Good(s), ~s.dead => s.opened, ConfigOK(store), NEW r \in RestoreAll(s)
    PROVE  Result(s, r, bound)
<1> DEFINE n == Cardinality(bound)
           all == All(s)
           Ok(B) == \A q \in all[B] : Result(s, q, B)
           T == {k \in Nat : \A B \in SUBSET bound : Cardinality(B) = k => Ok(B)}
<1>0. IsFiniteSet(bound) /\ bound \subseteq Configs /\ value \in [Configs -> Values] /\ n \in Nat
  BY Smaller DEF ConfigOK
<1>1. \A B \in SUBSET bound : all[B] = Step(s, all, B)
  <2>1. all = [B \in SUBSET bound |-> Step(s, all, B)]
    BY <1>0, AllDef
  <2> HIDE DEF all
  <2> QED BY <2>1
<1> HIDE DEF all
<1>2. 0 \in T
  <2>1. ASSUME NEW B \in SUBSET bound, Cardinality(B) = 0, NEW q \in all[B] PROVE Result(s, q, B)
    <3>1. B = {}
      BY <1>0, <2>1, Smaller
    <3>2. q = Reopened(s)
      <4>1. all[B] = Step(s, all, B)
        BY <1>1
      <4>2. Step(s, all, B) = {Reopened(s)}
        BY <3>1 DEF Step
      <4> QED BY <2>1, <4>1, <4>2
    <3>3. q.s = s /\ q.vals = value /\ q.good = TRUE
      BY <3>2 DEF Reopened
    <3>4. Reaches(s, q.s, B)
      BY <3>3 DEF Reaches
    <3> QED BY <1>0, <3>1, <3>3, <3>4 DEF Result
  <2> QED BY <2>1
<1>3. ASSUME NEW k \in 0 .. n - 1, k \in T PROVE k + 1 \in T
  <2>1. ASSUME NEW B \in SUBSET bound, Cardinality(B) = k + 1, NEW q \in all[B] PROVE Result(s, q, B)
    <3> DEFINE c == CHOOSE c \in B : TRUE
    <3>1. B # {}
      <4>1. k \in Nat
        BY <1>0, <1>3
      <4>2. Cardinality({}) = 0
        BY FS_EmptySet
      <4> QED BY <2>1, <4>1, <4>2
    <3>2. c \in B
      BY <3>1
    <3>3. PICK p \in all[B \ {c}] : q \in Adding(p, c)
      <4>1. all[B] = Step(s, all, B)
        BY <1>1
      <4>2. Step(s, all, B) = UNION {Adding(p, c) : p \in all[B \ {c}]}
        BY <3>1 DEF Step
      <4> HIDE DEF c
      <4> QED BY <2>1, <4>1, <4>2
    <3> HIDE DEF c
    <3>4. B \ {c} \in SUBSET bound /\ Cardinality(B \ {c}) = k
      BY <1>0, <2>1, <3>2, Smaller
    <3>5. Result(s, p, B \ {c})
      BY <1>3, <3>3, <3>4
    <3>6. B \in SUBSET Configs
      BY <1>0
    <3> QED BY <1>0, <3>2, <3>3, <3>5, <3>6, AddingIs
  <2> QED BY <1>0, <2>1
<1>4. 0 .. n \subseteq T
  <2> HIDE DEF T, n
  <2> QED BY <1>0, <1>2, <1>3, UpTo
<1>5. Ok(bound)
  <2>1. n \in T
    BY <1>0, <1>4
  <2> HIDE DEF Ok
  <2> QED BY <2>1
<1>6. r \in all[bound]
  BY <1>0, AllDef DEF all
<1> QED BY <1>5, <1>6

\* What a call on the Configs leaves them with.
LEMMA KeepIs ==
    ASSUME NEW t, Good(t), NEW vals \in [Configs -> Values], NEW b \in SUBSET Configs, IsFiniteSet(b),
           NEW r \in BOOLEAN, r /\ ~t.dead => t.opened /\ \A c \in b : vals[c] = InFile(t, c),
           Keep(t, vals, b, r)
    PROVE  ConfigOK(store)' /\ (store'.dead => ~restored' /\ ~store'.opened)
<1>1. /\ Good(store') /\ Contents(store') = Contents(t) /\ store'.dead = t.dead
      /\ (~t.dead => store'.opened = t.opened) /\ (t.dead => ~store'.opened)
  BY SettledIs DEF Keep
<1>2. /\ value' = IF t.dead THEN [c \in Configs |-> FirmwareDefault] ELSE vals
      /\ bound' = IF t.dead THEN {} ELSE b
      /\ restored' = (r /\ ~t.dead)
  BY DEF Keep
<1>3. value' \in [Configs -> Values] /\ bound' \subseteq Configs /\ IsFiniteSet(bound')
  BY <1>2, FS_EmptySet, Constants
<1>4. restored' => store'.opened /\ \A c \in bound' : value'[c] = Contents(store')[c]
  BY <1>1, <1>2 DEF InFile
<1> QED BY <1>1, <1>2, <1>3, <1>4 DEF ConfigOK

-------------------------------------------------------------------------------
(* The steps.                                                                  *)

\* A call to the identity, of which DoneIs or the like has shown its part.
LEMMA IdentityStepIs ==
    ASSUME SettingsInv, NEW e, Sound(e), Reaches(store, e.s, IdentityKeys), Done(e),
           Keep(store', value, bound, restored)
    PROVE  SettingsInv'
<1>1. IdentityOK(store, identity, retained)' /\ (store'.dead => ~identity'.begun)
      /\ (identity'.locked => identity'.begun)
  BY DoneIs
<1>2. Reaches(store, store', IdentityKeys)
  BY SettledReaches DEF Done
<1>3. IdentityKeys \cap Configs = {}
  BY SettingsAssumption DEF IdentityKeys
<1>4. ConfigOK(store)' /\ (store'.dead => ~restored' /\ ~store'.opened)
  BY <1>2, <1>3, ConfigsAway DEF SettingsInv
<1> QED BY <1>1, <1>4 DEF SettingsInv

LEMMA StartStep ==
    ASSUME Dependable, SettingsInv, OfIdentity(IdentityStart)
    PROVE  SettingsInv'
<1>1. PICK e \in IdentityBegin(store) : Done(e)
  BY DEF OfIdentity, IdentityStart
<1>2. Sound(e) /\ Reaches(store, e.s, IdentityKeys)
  BY IdentityBeginIs DEF SettingsInv
<1> QED BY <1>1, <1>2, IdentityStepIs DEF OfIdentity

LEMMA AdoptStep ==
    ASSUME Dependable, SettingsInv, NEW n \in Names, OfIdentity(Adopt(n))
    PROVE  SettingsInv'
<1>1. PICK e \in BeginAdoption(n) : Done(e)
  BY DEF OfIdentity, Adopt
<1>2. identity.begun /\ ~store.dead
  BY DEF OfIdentity, Adopt, SettingsInv
<1>3. Sound(e) /\ Reaches(store, e.s, IdentityKeys)
  BY <1>2, AdoptionIs DEF SettingsInv
<1> QED BY <1>1, <1>3, IdentityStepIs DEF OfIdentity

LEMMA ZoneStep ==
    ASSUME Dependable, SettingsInv, NEW z \in Zones, OfIdentity(SetTimezone(z))
    PROVE  SettingsInv'
<1>1. PICK e \in SetZone(z) : Done(e)
  BY DEF OfIdentity, SetTimezone
<1>2. identity.begun
  BY DEF OfIdentity, SetTimezone
<1>3. Sound(e) /\ Reaches(store, e.s, IdentityKeys)
  BY <1>2, ZoneIs DEF SettingsInv
<1> QED BY <1>1, <1>3, IdentityStepIs DEF OfIdentity

LEMMA CleanupStep ==
    ASSUME Dependable, SettingsInv, OfIdentity(Cleanup)
    PROVE  SettingsInv'
<1>1. PICK e \in ProcessCleanup : Done([e EXCEPT !.id.job = @ /\ e.id.parts # {}])
  BY DEF OfIdentity, Cleanup
<1>2. identity.begun
  BY DEF OfIdentity, Cleanup, SettingsInv
<1>3. Sound(e) /\ Reaches(store, e.s, IdentityKeys)
  BY <1>2, CleanupIs DEF SettingsInv
<1> DEFINE j == [e.id EXCEPT !.job = @ /\ e.id.parts # {}]
           f == [e EXCEPT !.id.job = @ /\ e.id.parts # {}]
<1>4. /\ e.id \in Identity /\ e.id.begun /\ IdentityOK(e.s, e.id, e.ret)
      /\ e = Effect(e.s, e.id, e.ret, e.ans) /\ Good(e.s)
  BY <1>3 DEF Sound, IdentityOK
<1>5. /\ j \in Identity /\ j.begun = e.id.begun /\ j.name = e.id.name
      /\ j.old = e.id.old /\ j.parts = e.id.parts
  BY <1>4 DEF Identity
<1>6. f.s = e.s /\ f.id = j /\ f.ret = e.ret /\ f = Effect(f.s, f.id, f.ret, f.ans)
  BY <1>4 DEF Effect
<1> HIDE DEF j, f
<1>7. Reaches(e.s, e.s, {})
  BY <1>4 DEF Reaches
<1>8. IdentityOK(e.s, j, e.ret)
  BY <1>4, <1>5, <1>7, IdentityAway
<1>9. Sound(f) /\ Reaches(store, f.s, IdentityKeys) /\ Done(f)
  BY <1>1, <1>3, <1>4, <1>5, <1>6, <1>8 DEF Sound, f
<1> QED BY <1>9, IdentityStepIs DEF OfIdentity

\* The store is as it was.
LEMMA SameStore ==
    ASSUME SettingsInv, UNCHANGED store, Keep(store', value, bound, restored)
    PROVE  ConfigOK(store)' /\ (store'.dead => ~restored' /\ ~store'.opened)
<1>1. Reaches(store, store', {}) /\ {} \cap Configs = {}
  BY DEF SettingsInv, IdentityOK, Reaches
<1> QED BY <1>1, ConfigsAway DEF SettingsInv

LEMMA LockStep ==
    ASSUME Dependable, SettingsInv, OfIdentity(LockAddress)
    PROVE  SettingsInv'
<1>1. /\ identity.begun /\ store' = store /\ retained' = retained
      /\ identity' = [identity EXCEPT !.locked = TRUE, !.job = identity.parts # {}]
      /\ Keep(store', value, bound, restored)
  BY DEF OfIdentity, LockAddress
<1>2. identity \in Identity /\ IdentityOK(store, identity, retained) /\ Good(store)
  BY DEF SettingsInv, IdentityOK
<1>3. /\ identity' \in Identity /\ identity'.begun = identity.begun /\ identity'.name = identity.name
      /\ identity'.old = identity.old /\ identity'.parts = identity.parts
  BY <1>1, <1>2 DEF Identity
<1>4. Reaches(store, store, {})
  BY <1>2 DEF Reaches
<1>5. IdentityOK(store', identity', retained')
  BY <1>1, <1>2, <1>3, <1>4, IdentityAway
<1>6. ConfigOK(store)' /\ (store'.dead => ~restored' /\ ~store'.opened)
  BY <1>1, SameStore
<1> QED BY <1>1, <1>3, <1>5, <1>6 DEF SettingsInv

LEMMA PublishStep ==
    ASSUME Dependable, SettingsInv, NEW p \in Parts, OfIdentity(Publish(p))
    PROVE  SettingsInv'
<1>1. /\ identity.locked /\ store' = store /\ identity' = identity
      /\ retained' = retained \cup {<<identity.name, p>>}
      /\ Keep(store', value, bound, restored)
  BY DEF OfIdentity, Publish
<1>2. /\ IdentityOK(store, identity, retained) /\ identity.begun /\ ~store.dead
      /\ identity \in Identity /\ Linked(store, identity) /\ Known(identity, retained)
      /\ Foreseen(store, retained) /\ retained \subseteq Names \X Parts /\ Good(store)
  BY <1>1 DEF SettingsInv, IdentityOK
<1>3. Known(identity, retained') /\ retained' \subseteq Names \X Parts
  BY <1>1, <1>2 DEF Known, Identity
<1>4. Foreseen(store, {<<identity.name, p>>})
  <2>1. CASE identity.name = NextName(store)
    BY <2>1 DEF Foreseen
  <2>2. CASE identity.old = identity.name /\ identity.parts = Parts
    <3>1. identity.parts # {} /\ identity.old \in Names
      BY <1>2, <2>2 DEF Linked, Parts
    <3>2. /\ NextRecord(store) \in Records
          /\ NextRecord(store).old = identity.old /\ NextRecord(store).parts = identity.parts
      BY <1>2, <3>1, Recorded DEF Linked
    <3> QED BY <2>2, <3>2 DEF Foreseen
  <2> QED BY <1>2, <2>1, <2>2 DEF Linked
<1>5. Foreseen(store, retained')
  BY <1>1, <1>2, <1>4 DEF Foreseen
<1>6. IdentityOK(store', identity', retained')
  BY <1>1, <1>2, <1>3, <1>5 DEF IdentityOK
<1>7. ConfigOK(store)' /\ (store'.dead => ~restored' /\ ~store'.opened)
  BY <1>1, SameStore
<1> QED BY <1>1, <1>2, <1>6, <1>7 DEF SettingsInv

LEMMA PowerLossStep ==
    ASSUME Dependable, SettingsInv, OfIdentity(PowerLoss)
    PROVE  SettingsInv'
<1>1. /\ store' = Off(store.file) /\ identity' = Unborn /\ retained' = retained
      /\ Keep(store', value, bound, restored)
  BY DEF OfIdentity, PowerLoss
<1>2. IdentityOK(store, identity, retained) /\ store \in Store
  BY StoreFields DEF SettingsInv, IdentityOK
<1>3. Good(store') /\ Contents(store') = Contents(store) /\ store'.dead
  BY <1>1, <1>2, Constants, StoreFields DEF Off, Good, Store, Contents
<1>4. Foreseen(store', retained')
  BY <1>1, <1>2, <1>3 DEF IdentityOK, Foreseen, NextName, NextRecord
<1>5. IdentityOK(store', identity', retained')
  BY <1>1, <1>2, <1>3, <1>4, UnbornIs DEF IdentityOK
<1>6. Reaches(store, store', {}) /\ {} \cap Configs = {}
  BY <1>3 DEF Reaches, InFile
<1>7. ConfigOK(store)' /\ (store'.dead => ~restored' /\ ~store'.opened)
  BY <1>1, <1>6, ConfigsAway DEF SettingsInv
<1> QED BY <1>1, <1>5, <1>7, UnbornIs DEF SettingsInv

LEMMA PowerOnStep ==
    ASSUME SettingsInv, PowerOn
    PROVE  SettingsInv'
<1>1. /\ store' = [store EXCEPT !.dead = FALSE] /\ ~identity.begun /\ ~restored /\ ~store.opened
      /\ identity' = identity /\ retained' = retained
      /\ value' = value /\ bound' = bound /\ restored' = restored
  BY DEF PowerOn, configVars, SettingsInv
<1>2. IdentityOK(store, identity, retained) /\ store \in Store
  BY StoreFields DEF SettingsInv, IdentityOK
<1>3. store' \in Store /\ store'.file = store.file /\ ~store'.opened /\ ~store'.dead
  BY <1>1, <1>2, StoreFields DEF Store
<1>4. Contents(store') = Contents(store) /\ Good(store')
  BY <1>3 DEF Contents, Good
<1>5. IdentityOK(store', identity', retained')
  BY <1>1, <1>2, <1>4 DEF IdentityOK, Foreseen, NextName, NextRecord
<1>6. ConfigOK(store)'
  BY <1>1 DEF SettingsInv, ConfigOK
<1> QED BY <1>1, <1>3, <1>5, <1>6 DEF SettingsInv

\* A call to the Configs or the profile: the keys of others stay as they are.
LEMMA OthersStepIs ==
    ASSUME SettingsInv, NEW t, NEW K, Reaches(store, t, K), K \cap IdentityKeys = {},
           NEW ans, Done(Effect(t, identity, retained, ans)),
           ConfigOK(store)', store'.dead => ~restored' /\ ~store'.opened
    PROVE  SettingsInv'
BY IdentityKept DEF SettingsInv

LEMMA ConfigStepIs ==
    ASSUME SettingsInv, NEW t, NEW K \in SUBSET Configs, Reaches(store, t, K), store' = Settled(t),
           Done(Effect(store', identity, retained, TRUE)),
           ConfigOK(store)', store'.dead => ~restored' /\ ~store'.opened
    PROVE  SettingsInv'
<1>1. Reaches(store, store', K)
  BY SettledReaches
<1>2. K \cap IdentityKeys = {}
  BY SettingsAssumption DEF IdentityKeys
<1> QED BY <1>1, <1>2, OthersStepIs

LEMMA BindStep ==
    ASSUME Dependable, SettingsInv, NEW c \in Configs, OfConfigs(Bind(c))
    PROVE  SettingsInv'
<1>1. /\ ~store.dead /\ c \notin bound /\ Good(store) /\ ConfigOK(store)
      /\ Done(Effect(store', identity, retained, TRUE))
  BY DEF OfConfigs, Bind, SettingsInv, IdentityOK
<1>2. /\ value \in [Configs -> Values] /\ bound \subseteq Configs /\ IsFiniteSet(bound)
      /\ IsFiniteSet(bound \cup {c}) /\ bound \cup {c} \in SUBSET Configs
  BY <1>1, FS_AddElement DEF ConfigOK
<1>3. CASE ~restored
  <2>1. Keep(store, value, bound \cup {c}, FALSE)
    BY <1>3 DEF OfConfigs, Bind
  <2>2. ConfigOK(store)' /\ (store'.dead => ~restored' /\ ~store'.opened)
    BY <1>1, <1>2, <2>1, KeepIs
  <2>3. Reaches(store, store, {}) /\ {} \in SUBSET Configs
    BY <1>1 DEF Reaches
  <2> QED BY <1>1, <2>1, <2>2, <2>3, ConfigStepIs DEF Keep
<1>4. CASE restored
  <2>1. PICK h \in RestoreOne(store, c) :
           Keep(h.s, [value EXCEPT ![c] = h.v], IF h.good THEN bound \cup {c} ELSE bound, TRUE)
    BY <1>4 DEF OfConfigs, Bind
  <2>2. store.opened /\ \A b \in bound : value[b] = InFile(store, b)
    BY <1>1, <1>4 DEF ConfigOK, InFile
  <2>3. /\ Reaches(store, h.s, {c}) /\ h.v \in Values /\ h.good \in BOOLEAN
        /\ h.good /\ ~h.s.dead => h.v = InFile(h.s, c)
        /\ ~h.s.dead => h.s.opened
    BY <1>1, <1>2, <2>1, <2>2, RestoreOneIs
  <2> DEFINE vals == [value EXCEPT ![c] = h.v]
             b == IF h.good THEN bound \cup {c} ELSE bound
  <2>4. vals \in [Configs -> Values] /\ b \in SUBSET Configs /\ IsFiniteSet(b)
    BY <1>2, <2>3
  <2>5. ASSUME ~h.s.dead, NEW d \in b PROVE vals[d] = InFile(h.s, d)
    <3>1. CASE d = c
      BY <1>1, <1>2, <2>3, <2>5, <3>1
    <3>2. CASE d # c
      BY <1>2, <2>2, <2>3, <3>2, Constants DEF Reaches
    <3> QED BY <3>1, <3>2
  <2> HIDE DEF vals, b
  <2>6. Keep(h.s, vals, b, TRUE) /\ Good(h.s) /\ TRUE \in BOOLEAN
    BY <2>1, <2>3 DEF Reaches, vals, b
  <2>7. ConfigOK(store)' /\ (store'.dead => ~restored' /\ ~store'.opened)
    BY <2>3, <2>4, <2>5, <2>6, KeepIs
  <2> QED BY <1>1, <2>3, <2>6, <2>7, ConfigStepIs DEF Keep
<1> QED BY <1>3, <1>4

LEMMA UnbindStep ==
    ASSUME Dependable, SettingsInv, NEW c \in Configs, OfConfigs(Unbind(c))
    PROVE  SettingsInv'
<1>1. /\ c \in bound /\ bound' = bound \ {c} /\ value' = [value EXCEPT ![c] = FirmwareDefault]
      /\ store' = store /\ restored' = restored
      /\ Done(Effect(store', identity, retained, TRUE)) /\ Good(store) /\ ConfigOK(store)
  BY DEF OfConfigs, Unbind, SettingsInv, IdentityOK
<1>2. IsFiniteSet(bound \ {c})
  BY <1>1, FS_RemoveElement DEF ConfigOK
<1>3. ConfigOK(store)'
  BY <1>1, <1>2, Constants DEF ConfigOK
<1>4. Reaches(store, store', {}) /\ {} \cap IdentityKeys = {}
  BY <1>1 DEF Reaches
<1>5. store'.dead => ~restored' /\ ~store'.opened
  BY <1>1 DEF SettingsInv
<1> QED BY <1>1, <1>3, <1>4, <1>5, OthersStepIs

LEMMA RestoreStep ==
    ASSUME Dependable, SettingsInv, OfConfigs(Restore)
    PROVE  SettingsInv'
<1>1. /\ Good(store) /\ ConfigOK(store) /\ Done(Effect(store', identity, retained, TRUE))
  BY DEF OfConfigs, Restore, SettingsInv, IdentityOK
<1>2. /\ value \in [Configs -> Values] /\ bound \in SUBSET Configs /\ IsFiniteSet(bound)
  BY <1>1 DEF ConfigOK
<1>3. PICK s \in Begin(store) :
         IF s.dead \/ ~s.ok THEN Keep(s, value, bound, FALSE)
         ELSE \E r \in RestoreAll(s) : Keep(r.s, r.vals, bound, r.good)
  BY DEF OfConfigs, Restore
<1>4. Reaches(store, s, {}) /\ (~s.dead => s.ok /\ s.opened) /\ Good(s)
  BY <1>1, <1>3, BeginIs DEF Reaches
<1>5. CASE s.dead
  <2>1. Keep(s, value, bound, FALSE)
    BY <1>3, <1>5
  <2>2. ConfigOK(store)' /\ (store'.dead => ~restored' /\ ~store'.opened)
    BY <1>2, <1>4, <2>1, KeepIs
  <2>3. {} \in SUBSET Configs
    OBVIOUS
  <2> QED BY <1>1, <1>4, <2>1, <2>2, <2>3, ConfigStepIs DEF Keep
<1>6. CASE ~s.dead
  <2>1. PICK r \in RestoreAll(s) : Keep(r.s, r.vals, bound, r.good)
    BY <1>3, <1>4, <1>6
  <2>2. Result(s, r, bound)
    BY <1>1, <1>4, <2>1, RestoreAllIs
  <2>3. /\ Good(r.s) /\ r.vals \in [Configs -> Values] /\ r.good \in BOOLEAN
        /\ r.good /\ ~r.s.dead => r.s.opened /\ \A c \in bound : r.vals[c] = InFile(r.s, c)
    BY <2>2 DEF Result, Reaches
  <2>4. ConfigOK(store)' /\ (store'.dead => ~restored' /\ ~store'.opened)
    BY <1>2, <2>1, <2>3, KeepIs
  <2>5. Reaches(store, r.s, bound)
    BY <1>4, <2>2 DEF Result, Reaches
  <2> QED BY <1>1, <1>2, <2>1, <2>4, <2>5, ConfigStepIs DEF Keep
<1> QED BY <1>5, <1>6

LEMMA PersistStep ==
    ASSUME Dependable, SettingsInv, NEW c \in Configs, NEW v \in Values, Persist(c, v),
           Done(Effect(store', identity, retained, TRUE))
    PROVE  SettingsInv'
<1>1. c \in bound /\ Good(store) /\ ConfigOK(store) /\ c \in Keys /\ c \in Plain /\ v \in Storable
  BY Constants DEF Persist, SettingsInv, IdentityOK, Storable, Plain
<1>2. /\ value \in [Configs -> Values] /\ bound \in SUBSET Configs /\ IsFiniteSet(bound)
      /\ restored \in BOOLEAN
  BY <1>1 DEF ConfigOK
<1>3. PICK s \in Set(store, c, v) :
         Keep(s, IF s.ok THEN [value EXCEPT ![c] = v] ELSE value, bound, restored)
  BY DEF Persist
<1>4. /\ Reaches(store, s, {c}) /\ (~s.dead => s.opened)
      /\ ~s.dead => InFile(s, c) = IF s.ok THEN v ELSE InFile(store, c)
  BY <1>1, <1>3, SetIs
<1> DEFINE vals == IF s.ok THEN [value EXCEPT ![c] = v] ELSE value
<1>5. vals \in [Configs -> Values]
  BY <1>2
<1>6. ASSUME restored, ~s.dead, NEW d \in bound PROVE vals[d] = InFile(s, d)
  <2>1. value[d] = InFile(store, d)
    BY <1>1, <1>6 DEF ConfigOK, InFile
  <2>2. CASE d = c
    BY <1>2, <1>4, <1>6, <2>1, <2>2
  <2>3. CASE d # c
    BY <1>2, <1>4, <2>1, <2>3, Constants DEF Reaches
  <2> QED BY <2>2, <2>3
<1>7. Keep(s, vals, bound, restored) /\ Good(s)
  BY <1>3, <1>4 DEF Reaches
<1> HIDE DEF vals
<1>8. ConfigOK(store)' /\ (store'.dead => ~restored' /\ ~store'.opened)
  BY <1>2, <1>4, <1>5, <1>6, <1>7, KeepIs
<1>9. {c} \in SUBSET Configs
  OBVIOUS
<1> QED BY <1>4, <1>7, <1>8, <1>9, ConfigStepIs DEF Keep

LEMMA ProfileStepIs ==
    ASSUME SettingsInv, NEW t, Reaches(store, t, {}), OfProfile(t)
    PROVE  SettingsInv'
<1>1. Keep(t, value, bound, restored) /\ Done(Effect(t, identity, retained, t.ok))
  BY DEF OfProfile
<1>2. {} \cap Configs = {} /\ {} \cap IdentityKeys = {}
  OBVIOUS
<1>3. ConfigOK(store)' /\ (store'.dead => ~restored' /\ ~store'.opened)
  BY <1>1, <1>2, ConfigsAway DEF SettingsInv
<1> QED BY <1>1, <1>2, <1>3, OthersStepIs

LEMMA ProfileStep ==
    ASSUME Dependable, SettingsInv, NEW v \in Values, SaveProfile(v) \/ StoredProfile(v)
    PROVE  SettingsInv'
<1>0. v \in Storable /\ Good(store) /\ Profile[1] \in ProfileKeys /\ Profile[2] \in ProfileKeys
  BY DEF Storable, SettingsInv, IdentityOK, Profile, ProfileKeys
<1>1. CASE SaveProfile(v)
  <2>1. PICK t \in SetMany(store, Profile, v) : OfProfile(t)
    BY <1>1 DEF SaveProfile
  <2>2. store.opened /\ ~store.dead
    BY <1>1 DEF SaveProfile, SettingsInv
  <2> QED BY <1>0, <2>1, <2>2, SetManyIs, ProfileStepIs
<1>2. CASE StoredProfile(v)
  <2>1. PICK s \in GetOrSave(store, Profile[1], v) :
           \E t \in GetOrSave(s, Profile[2], v) : OfProfile(t)
    BY <1>2 DEF StoredProfile
  <2>2. PICK t \in GetOrSave(s, Profile[2], v) : OfProfile(t)
    BY <2>1
  <2>3. Reaches(store, s, {}) /\ Good(s)
    BY <1>0, <2>1, GetOrSaveIs DEF Reaches
  <2>4. Reaches(s, t, {})
    BY <1>0, <2>2, <2>3, GetOrSaveIs
  <2>5. Reaches(store, t, {})
    BY <2>3, <2>4 DEF Reaches
  <2> QED BY <2>2, <2>5, ProfileStepIs
<1> QED BY <1>1, <1>2

LEMMA StutterStep ==
    ASSUME SettingsInv, UNCHANGED vars
    PROVE  SettingsInv'
BY DEF vars, configVars, SettingsInv, IdentityOK, ConfigOK

LEMMA FirstState ==
    ASSUME Init
    PROVE  SettingsInv
<1>1. PICK f \in {None, Earlier} : store = Off(f)
  BY DEF Init
<1>2. f \in [Keys -> Storable] \cup {None}
  BY Constants DEF Earlier, Storable
<1>3. /\ store = [mem |-> Empty, file |-> f, opened |-> FALSE, ok |-> TRUE, dead |-> TRUE]
      /\ Good(store)
  BY <1>1, <1>2, Constants DEF Off, Good, Store
<1>4. identity = Unborn /\ retained = {}
  BY DEF Init, IdentityInit
<1>5. IdentityOK(store, identity, retained)
  BY <1>3, <1>4, UnbornIs DEF IdentityOK, Foreseen
<1>6. ConfigOK(store) /\ ~restored
  BY FS_EmptySet, Constants DEF Init, ConfigInit, ConfigOK
<1> QED BY <1>3, <1>4, <1>5, <1>6, UnbornIs DEF SettingsInv

LEMMA EveryStep ==
    ASSUME Dependable, SettingsInv, [Next]_vars
    PROVE  SettingsInv'
<1>1. CASE PowerOn
  BY <1>1, PowerOnStep
<1>2. CASE OfIdentity(IdentityStart)
  BY <1>2, StartStep
<1>3. CASE OfIdentity(LockAddress)
  BY <1>3, LockStep
<1>4. ASSUME NEW n \in Names, OfIdentity(Adopt(n)) PROVE SettingsInv'
  BY <1>4, AdoptStep
<1>5. CASE OfIdentity(Cleanup)
  BY <1>5, CleanupStep
<1>6. ASSUME NEW p \in Parts, OfIdentity(Publish(p)) PROVE SettingsInv'
  BY <1>6, PublishStep
<1>7. ASSUME NEW z \in Zones, OfIdentity(SetTimezone(z)) PROVE SettingsInv'
  BY <1>7, ZoneStep
<1>8. CASE OfIdentity(PowerLoss)
  BY <1>8, PowerLossStep
<1>9. ASSUME NEW c \in Configs, OfConfigs(Bind(c)) \/ OfConfigs(Unbind(c)) PROVE SettingsInv'
  BY <1>9, BindStep, UnbindStep
<1>10. CASE OfConfigs(Restore)
  BY <1>10, RestoreStep
<1>11. ASSUME NEW c \in Configs, NEW v \in Values, OfConfigs(ConfigSet(c, v)) PROVE SettingsInv'
  BY <1>11, PersistStep DEF OfConfigs, ConfigSet
<1>12. ASSUME NEW c \in Configs, NEW v, NEW accepted, OfConfigs(ConfigCommand(c, v, accepted))
       PROVE  SettingsInv'
  BY <1>12, PersistStep DEF OfConfigs, ConfigCommand
<1>13. ASSUME NEW v \in Values, SaveProfile(v) PROVE SettingsInv'
  BY <1>13, ProfileStep
<1>14. CASE StoredProfile(FirmwareDefault)
  BY <1>14, Constants, ProfileStep
<1>15. CASE UNCHANGED vars
  BY <1>15, StutterStep
<1> QED BY <1>1, <1>2, <1>3, <1>4, <1>5, <1>6, <1>7, <1>8, <1>9, <1>10, <1>11, <1>12, <1>13, <1>14, <1>15 DEF Next

\* The memory and the file agree, on what is set one by one; the identity and the
\* Configs agree with the file; and what the broker still retains is on record.
THEOREM SettingsInvariant ==
    ASSUME Dependable
    PROVE  Spec => []SettingsInv
<1>1. Init => SettingsInv
  BY FirstState
<1>2. SettingsInv /\ [Next]_vars => SettingsInv'
  BY EveryStep
<1> QED BY <1>1, <1>2, PTL DEF Spec

LEMMA InvariantKnows ==
    ASSUME SettingsInv
    PROVE  NextStartKnows
<1>1. /\ Good(store) /\ identity \in Identity /\ Foreseen(store, retained)
      /\ identity.begun /\ ~store.dead => Known(identity, retained)
      /\ store.dead => ~identity.begun /\ ~store.opened
      /\ Contents(store) = Stored
  BY DEF SettingsInv, IdentityOK, Contents, Stored
<1>2. MemoryIsStored
  BY <1>1 DEF MemoryIsStored, Good, Plain
<1>3. ConfigIsStored
  BY <1>1 DEF SettingsInv, ConfigOK, ConfigIsStored
<1>4. NothingForgotten
  BY <1>1 DEF NothingForgotten, Foreseen, Known, NextName, NextRecord
<1> QED BY <1>2, <1>3, <1>4 DEF NextStartKnows

\* The next start, after a power loss inside any call, finds what the running device
\* has (ConfigManager, StateStore) and every name and part that it must still clean
\* up at the broker (DeviceIdentity).
THEOREM NextStartAlwaysKnows ==
    ASSUME Dependable
    PROVE  Spec => []NextStartKnows
BY SettingsInvariant, InvariantKnows, PTL

-------------------------------------------------------------------------------
(* What is withdrawn from the broker is of a former name.                       *)

\* Effects that leave alone what is retained.
Leaves(E, ret) == \A e \in E : e.ret = ret

LEMMA EffectRet == \A s, id, ret, ans : Effect(s, id, ret, ans).ret = ret
BY DEF Effect

LEMMA LeavesOne == ASSUME NEW e, NEW ret, e.ret = ret PROVE Leaves({e}, ret)
BY DEF Leaves

LEMMA LeavesEffect == \A s, id, ret, ans : Leaves({Effect(s, id, ret, ans)}, ret)
BY EffectRet, LeavesOne

LEMMA LeavesEach ==
    ASSUME NEW E, NEW ret, \A e \in E : \E s, id, ans : e = Effect(s, id, ret, ans)
    PROVE  Leaves(E, ret)
BY EffectRet DEF Leaves

LEMMA LoadLeaves == ASSUME NEW s, NEW id PROVE Leaves(LoadPending(s, id), retained)
<1>1. CASE s.dead \/ ~Has(s, "record")
  BY <1>1, LeavesEffect DEF LoadPending
<1>2. CASE ~(s.dead \/ ~Has(s, "record")) /\ Actionable(s.mem["record"], id.name)
  BY <1>2, LeavesEffect DEF LoadPending
<1>3. CASE ~(s.dead \/ ~Has(s, "record")) /\ ~Actionable(s.mem["record"], id.name)
  <2>1. \A e \in LoadPending(s, id) : \E t, j, ans : e = Effect(t, j, retained, ans)
    BY <1>3 DEF LoadPending
  <2> QED
    BY <2>1, LeavesEach
<1> QED
  BY <1>1, <1>2, <1>3

LEMMA BeginLeaves == ASSUME NEW s PROVE Leaves(IdentityBegin(s), retained)
<1> DEFINE named(t) == [Unborn EXCEPT !.begun = TRUE,
                            !.name = Or(t.mem["name"], Names, DefaultName),
                            !.zone = Or(t.mem["zone"], Zones, DefaultZone)]
           Loaded(t, u) == UNION {LoadPending(v, named(t)) : v \in Corrected(u, "zone", named(t).zone)}
           Of(t) == IF t.dead \/ ~t.ok THEN {Effect(t, named(t), retained, TRUE)}
                    ELSE UNION {Loaded(t, u) : u \in Corrected(t, "name", named(t).name)}
<1>1. IdentityBegin(s) = UNION {Of(t) : t \in Begin(s)}
  BY DEF IdentityBegin
<1> HIDE DEF named
<1>2. \A t, u : Leaves(Loaded(t, u), retained)
  BY LoadLeaves DEF Leaves
<1> HIDE DEF Loaded
<1>3. ASSUME NEW t PROVE Leaves(Of(t), retained)
  <2>1. CASE t.dead \/ ~t.ok
    BY <2>1, LeavesEffect
  <2>2. CASE ~(t.dead \/ ~t.ok)
    <3>1. Of(t) = UNION {Loaded(t, u) : u \in Corrected(t, "name", named(t).name)}
      BY <2>2
    <3> HIDE DEF Of
    <3> QED
      BY <1>2, <3>1 DEF Leaves
  <2> QED
    BY <2>1, <2>2
<1> HIDE DEF Of
<1> QED
  BY <1>1, <1>3 DEF Leaves

LEMMA RenameLeaves == ASSUME NEW t, NEW id, NEW n PROVE Leaves(Rename(t, id, n), retained)
<1> DEFINE Of(u) == IF u.ok THEN {Effect(u, IF id.locked THEN id ELSE [id EXCEPT !.name = n], retained, TRUE)}
                    ELSE {Effect(v, NoPending(id), retained, FALSE)
                          : v \in IF u.dead THEN {u} ELSE PersistPending(u, NoPending(id))}
<1>1. Rename(t, id, n) = UNION {Of(u) : u \in Set(t, "name", n)}
  BY DEF Rename
<1>2. ASSUME NEW u PROVE Leaves(Of(u), retained)
  <2>1. CASE u.ok
    BY <2>1, LeavesEffect
  <2>2. CASE ~u.ok
    <3>1. \A e \in Of(u) : \E s, j, ans : e = Effect(s, j, retained, ans)
      BY <2>2
    <3> HIDE DEF Of
    <3> QED
      BY <3>1, LeavesEach
  <2> QED
    BY <2>1, <2>2
<1> HIDE DEF Of
<1> QED
  BY <1>1, <1>2 DEF Leaves

LEMMA AdoptionLeaves == ASSUME NEW n PROVE Leaves(BeginAdoption(n), retained)
<1> DEFINE id == [identity EXCEPT !.old = identity.name, !.parts = Parts]
           Of(t) == IF t.ok /\ ~t.dead THEN Rename(t, id, n) ELSE {Effect(t, identity, retained, FALSE)}
<1>1. CASE identity.parts # {} \/ n = identity.name
  BY <1>1, LeavesEffect DEF BeginAdoption
<1>2. CASE ~(identity.parts # {} \/ n = identity.name)
  <2>1. BeginAdoption(n) = UNION {Of(t) : t \in PersistPending(store, id)}
    BY <1>2 DEF BeginAdoption
  <2> HIDE DEF id
  <2>2. ASSUME NEW t PROVE Leaves(Of(t), retained)
    <3>1. CASE t.ok /\ ~t.dead
      BY <3>1, RenameLeaves
    <3>2. CASE ~(t.ok /\ ~t.dead)
      BY <3>2, LeavesEffect
    <3> QED
      BY <3>1, <3>2
  <2> HIDE DEF Of
  <2> QED
    BY <2>1, <2>2 DEF Leaves
<1> QED
  BY <1>1, <1>2

LEMMA ZoneLeaves == ASSUME NEW z PROVE Leaves(SetZone(z), retained)
<1> DEFINE Of(s) == IF s.ok \/ s.dead THEN {Effect(s, [identity EXCEPT !.zone = z], retained, TRUE)}
                    ELSE {Effect(t, identity, retained, FALSE) : t \in Set(s, "zone", identity.zone)}
<1>1. SetZone(z) = UNION {Of(s) : s \in Set(store, "zone", z)}
  BY DEF SetZone
<1>2. ASSUME NEW s PROVE Leaves(Of(s), retained)
  <2>1. CASE s.ok \/ s.dead
    BY <2>1, LeavesEffect
  <2>2. CASE ~(s.ok \/ s.dead)
    <3>1. \A e \in Of(s) : \E t, j, ans : e = Effect(t, j, retained, ans)
      BY <2>2
    <3> HIDE DEF Of
    <3> QED
      BY <3>1, LeavesEach
  <2> QED
    BY <2>1, <2>2
<1> HIDE DEF Of
<1> QED
  BY <1>1, <1>2 DEF Leaves

LEMMA MarkLeaves == ASSUME NEW e, NEW part PROVE Leaves(MarkComplete(e, part), e.ret)
<1> DEFINE left == [e.id EXCEPT !.parts = @ \ {part}, !.old = IF e.id.parts \ {part} = {} THEN None ELSE @]
<1>1. CASE e.s.dead \/ part \notin e.id.parts
  BY <1>1, LeavesOne DEF MarkComplete
<1>2. CASE ~(e.s.dead \/ part \notin e.id.parts)
  <2>1. MarkComplete(e, part) = {Effect(s, IF s.ok THEN left ELSE e.id, e.ret, e.ans) : s \in PersistPending(e.s, left)}
    BY <1>2 DEF MarkComplete
  <2> HIDE DEF left
  <2> QED
    BY <2>1, EffectRet DEF Leaves
<1> QED
  BY <1>1, <1>2

IsEffect(e) == DOMAIN e = {"s", "id", "ret", "ans"}

LEMMA MarkShaped ==
    ASSUME NEW e, IsEffect(e), NEW part, NEW f \in MarkComplete(e, part) PROVE IsEffect(f)
<1>1. CASE e.s.dead \/ part \notin e.id.parts
  BY <1>1 DEF MarkComplete
<1>2. CASE ~(e.s.dead \/ part \notin e.id.parts)
  <2>1. PICK s, id : f = Effect(s, id, e.ret, e.ans)
    BY <1>2 DEF MarkComplete
  <2> QED
    BY <2>1 DEF Effect, IsEffect
<1> QED
  BY <1>1, <1>2

\* Withdrawing a part of the former name takes nothing else away.
LEMMA WithdrawnTakes ==
    ASSUME NEW e, IsEffect(e), NEW old, NEW part, NEW f \in Withdrawn(e, old, part)
    PROVE  IsEffect(f) /\ \A r \in e.ret \ f.ret : r = <<old, part>>
<1>1. \/ f = [e EXCEPT !.ret = @ \ {<<old, part>>}, !.ans = TRUE]
      \/ f = [e EXCEPT !.ans = FALSE]
      \/ f = [e EXCEPT !.ret = @ \cup {<<old, part>>}, !.ans = FALSE]
  BY DEF Withdrawn
<1>2. CASE f = [e EXCEPT !.ret = @ \ {<<old, part>>}, !.ans = TRUE]
  <2>1. f.ret = e.ret \ {<<old, part>>} /\ IsEffect(f)
    BY <1>2 DEF IsEffect
  <2> QED
    BY <2>1
<1>3. CASE f = [e EXCEPT !.ans = FALSE]
  <2>1. f.ret = e.ret /\ IsEffect(f)
    BY <1>3 DEF IsEffect
  <2> QED
    BY <2>1
<1>4. CASE f = [e EXCEPT !.ret = @ \cup {<<old, part>>}, !.ans = FALSE]
  <2>1. f.ret = e.ret \cup {<<old, part>>} /\ IsEffect(f)
    BY <1>4 DEF IsEffect
  <2> QED
    BY <2>1
<1> QED
  BY <1>1, <1>2, <1>3, <1>4

LEMMA CleanTakes ==
    ASSUME NEW e, IsEffect(e), NEW due, NEW old, NEW part, NEW f \in CleanPart(e, due, old, part)
    PROVE  IsEffect(f) /\ \A r \in e.ret \ f.ret : due # {} /\ r = <<old, part>>
<1>1. CASE e.s.dead \/ part \notin due
  BY <1>1 DEF CleanPart
<1>2. CASE ~(e.s.dead \/ part \notin due)
  <2>1. PICK g \in Withdrawn(e, old, part) : f \in IF g.ans THEN MarkComplete(g, part) ELSE {g}
    BY <1>2 DEF CleanPart
  <2>2. IsEffect(g) /\ \A r \in e.ret \ g.ret : r = <<old, part>>
    BY <2>1, WithdrawnTakes
  <2>3. f.ret = g.ret /\ IsEffect(f)
    BY <2>1, <2>2, MarkLeaves, MarkShaped DEF Leaves
  <2>4. due # {}
    BY <1>2
  <2> QED
    BY <2>2, <2>3, <2>4
<1> QED
  BY <1>1, <1>2

LEMMA CleanupTakes ==
    ASSUME NEW e \in ProcessCleanup
    PROVE  IsEffect(e) /\ \A r \in retained \ e.ret : r[1] # identity.name
<1> DEFINE due == CleanupDue(identity)
           old == identity.old
           first == Effect(store, identity, retained, TRUE)
<1>1. PICK f \in CleanPart(first, due, old, "resources") : e \in CleanPart(f, due, old, "status")
  BY DEF ProcessCleanup
<1>2. IsEffect(first) /\ first.ret = retained
  BY DEF Effect, IsEffect
<1>3. due # {} => old # identity.name
  BY DEF CleanupDue
<1> HIDE DEF due, old, first
<1>4. IsEffect(f) /\ \A r \in retained \ f.ret : due # {} /\ r = <<old, "resources">>
  BY <1>1, <1>2, CleanTakes
<1>5. IsEffect(e) /\ \A r \in f.ret \ e.ret : due # {} /\ r = <<old, "status">>
  BY <1>1, <1>4, CleanTakes
<1> QED
  BY <1>3, <1>4, <1>5

LEMMA DoneLeaves ==
    ASSUME NEW E, Leaves(E, retained), \E e \in E : Done(e)
    PROVE  retained' = retained
BY DEF Leaves, Done

LEMMA CleanupStays ==
    ASSUME Cleanup PROVE \A r \in retained \ retained' : r[1] # identity.name
<1>1. PICK e \in ProcessCleanup : Done([e EXCEPT !.id.job = @ /\ e.id.parts # {}])
  BY DEF Cleanup
<1>2. IsEffect(e)
  BY CleanupTakes
<1>3. retained' = e.ret
  BY <1>1, <1>2 DEF Done, IsEffect
<1> QED
  BY <1>1, <1>3, CleanupTakes

\* Every other step leaves what is retained alone or adds to it.
LEMMA OthersStay ==
    ASSUME Next, ~OfIdentity(Cleanup) PROVE retained \subseteq retained'
<1>1. CASE PowerOn
  BY <1>1 DEF PowerOn
<1>2. CASE OfIdentity(IdentityStart)
  BY <1>2, BeginLeaves, DoneLeaves DEF OfIdentity, IdentityStart
<1>3. CASE OfIdentity(LockAddress)
  BY <1>3 DEF OfIdentity, LockAddress
<1>4. CASE \E n \in Names : OfIdentity(Adopt(n))
  BY <1>4, AdoptionLeaves, DoneLeaves DEF OfIdentity, Adopt
<1>5. CASE \E p \in Parts : OfIdentity(Publish(p))
  BY <1>5 DEF OfIdentity, Publish
<1>6. CASE \E z \in Zones : OfIdentity(SetTimezone(z))
  BY <1>6, ZoneLeaves, DoneLeaves DEF OfIdentity, SetTimezone
<1>7. CASE OfIdentity(PowerLoss)
  BY <1>7 DEF OfIdentity, PowerLoss
<1>8. CASE \/ \E c \in Configs : OfConfigs(Bind(c)) \/ OfConfigs(Unbind(c))
           \/ OfConfigs(Restore)
           \/ \E c \in Configs, v \in Values : OfConfigs(ConfigSet(c, v))
           \/ \E c \in Configs, v \in Values \cup {Bad}, accepted \in BOOLEAN :
                  OfConfigs(ConfigCommand(c, v, accepted))
  <2>1. Done(Effect(store', identity, retained, TRUE))
    BY <1>8 DEF OfConfigs
  <2> QED
    <3>1. PICK s : Done(Effect(s, identity, retained, TRUE))
      BY <2>1
    <3>2. retained' = retained
      BY <3>1 DEF Done, Effect
    <3> QED
      BY <3>2
<1>9. CASE (\E v \in Values \ {FirmwareDefault} : SaveProfile(v)) \/ StoredProfile(FirmwareDefault)
  <2>1. PICK s : Done(Effect(s, identity, retained, s.ok))
    BY <1>9 DEF SaveProfile, StoredProfile, OfProfile
  <2>2. retained' = Effect(s, identity, retained, s.ok).ret
    BY <2>1 DEF Done
  <2> QED
    BY <2>2, EffectRet
<1> QED
  BY <1>1, <1>2, <1>3, <1>4, <1>5, <1>6, <1>7, <1>8, <1>9 DEF Next

\* Nothing is withdrawn of the name the device goes by, whatever fails and whenever
\* the power is lost: processPendingIdentityCleanup() asks for what is due once, and
\* nothing is as long as this boot has the former name.
THEOREM LiveNamesStay == Spec => LiveDataStays
<1>1. [Next]_vars => [\A r \in retained \ retained' : r[1] # identity.name]_vars
  <2> SUFFICES ASSUME Next PROVE \A r \in retained \ retained' : r[1] # identity.name
    OBVIOUS
  <2>1. CASE OfIdentity(Cleanup)
    BY <2>1, CleanupStays DEF OfIdentity
  <2>2. CASE ~OfIdentity(Cleanup)
    BY <2>2, OthersStay
  <2> QED
    BY <2>1, <2>2
<1> QED
  BY <1>1, PTL DEF Spec, LiveDataStays

-------------------------------------------------------------------------------
(* A file of Core/Storage.                                                      *)

LEMMA RecoveryKeepsContent ==
    ASSUME StorageTypeOK, NEW f \in Recovered(files)
    PROVE  Content(f) = Content(files) /\ f \in [name : Held, tmp : Held, bak : Held]
  BY DEF Recovered, Content, RecoverPrevious, StorageTypeOK, Held

\* What opening, filling or discarding the target changes.
LEMMA TargetHolds ==
    ASSUME StorageTypeOK, NEW content \in Held, Target(content)
    PROVE  /\ files' \in [name : Held, tmp : Held, bak : Held] /\ files'.bak = files.bak
           /\ op.atomic => files'.name = files.name /\ files'.tmp = content
           /\ ~op.atomic => files'.name = content /\ files'.tmp = files.tmp
  BY DEF StorageTypeOK, Target

\* The data are written, and the file before is moved aside if there is one.
Placing ==
    /\ op.at = "fill" /\ op.atomic /\ Target(op.data) /\ UNCHANGED answer
    /\ op' = [op EXCEPT !.at = IF files.name = Absent THEN "place"
                              ELSE IF files.bak = Absent THEN "aside" ELSE "clear",
                        !.had = files.name # Absent]

LEMMA ContinueMoves ==
    ASSUME StorageTypeOK, NEW at \in Steps, Continue(at)
    PROVE  /\ op' \in [at : Steps, data : Data \cup {Absent}, atomic : BOOLEAN, had : BOOLEAN]
           /\ op'.at = at /\ op'.data = op.data /\ op'.atomic = op.atomic /\ op'.had = op.had
           /\ answer' = answer
  BY DEF StorageTypeOK, Continue

LEMMA ReturnRests ==
    ASSUME NEW ok \in BOOLEAN, Return(ok)
    PROVE  /\ op' = NoRequest /\ answer' = IF ok THEN "true" ELSE "false"
           /\ op' \in [at : Steps, data : Data \cup {Absent}, atomic : BOOLEAN, had : BOOLEAN]
           /\ op'.at = "idle" /\ op'.data = Absent /\ op'.atomic = TRUE /\ op'.had = FALSE
  BY DEF Return, NoRequest, Steps

LEMMA TypeInit == StorageInit => StorageTypeOK
  BY DEF StorageInit, StorageTypeOK, NoRequest, Steps, Held

LEMMA TypeStep == ASSUME StorageTypeOK, [StorageNext]_storage PROVE StorageTypeOK'
<1> USE StorageAssumption DEF StorageTypeOK, Steps, Held
<1>1. CASE UNCHANGED storage
  BY <1>1 DEF storage
<1>2. ASSUME NEW data \in Data, NEW atomic \in Modes, Write(data, atomic) PROVE StorageTypeOK'
  BY <1>2, RecoveryKeepsContent DEF Write, Call
<1>3. CASE Open
  BY <1>3, TargetHolds, ContinueMoves, ReturnRests DEF Open
<1>4. CASE Fill
  <2>1. op.data \in Held
    OBVIOUS
  <2>2. CASE Placing
    BY <2>1, <2>2, TargetHolds DEF Placing
  <2>3. CASE Target(op.data) /\ (Continue("drop") \/ Continue("discard"))
    BY <2>1, <2>3, TargetHolds, ContinueMoves
  <2>4. CASE UNCHANGED files /\ Continue("discard")
    BY <2>4, ContinueMoves
  <2> QED
    BY <1>4, <2>2, <2>3, <2>4 DEF Fill, Placing
<1>5. CASE Clear
  BY <1>5 DEF Clear, Continue, Fail
<1>6. CASE Aside
  <2>1. CASE files' = MovedAside(files) /\ Continue("place")
    BY <2>1, ContinueMoves DEF MovedAside
  <2>2. CASE Fail("discard")
    BY <2>2, ContinueMoves DEF Fail
  <2> QED
    BY <1>6, <2>1, <2>2 DEF Aside
<1>7. CASE Place
  <2>1. CASE Continue("drop") /\ files' = [files EXCEPT !.name = files.tmp, !.tmp = Absent]
    BY <2>1, ContinueMoves
  <2>2. CASE Fail(IF op.had THEN "restore" ELSE "discard")
    BY <2>2, ContinueMoves DEF Fail
  <2> QED
    BY <1>7, <2>1, <2>2 DEF Place
<1>8. CASE PutBack
  BY <1>8, ContinueMoves DEF PutBack
<1>9. CASE Discard
  BY <1>9, TargetHolds, ReturnRests DEF Discard
<1>10. CASE Drop
  BY <1>10, ReturnRests DEF Drop
<1>11. CASE RemoveFile
  BY <1>11 DEF RemoveFile, Call
<1>12. CASE Unname
  <2>1. CASE files.name # Absent /\ files' = [files EXCEPT !.name = Absent]
                                /\ Continue(IF files.bak = Absent THEN "drop" ELSE "unback")
    BY <2>1, ContinueMoves
  <2>2. CASE UNCHANGED files /\ Return(FALSE)
    BY <2>2, ReturnRests
  <2> QED
    BY <1>12, <2>1, <2>2 DEF Unname
<1>13. CASE Unback
  <2>1. CASE files' = [files EXCEPT !.bak = Absent] /\ Continue("drop")
    BY <2>1, ContinueMoves
  <2>2. CASE UNCHANGED files /\ Return(FALSE)
    BY <2>2, ReturnRests
  <2> QED
    BY <1>13, <2>1, <2>2 DEF Unback
<1>14. CASE Access
  BY <1>14, RecoveryKeepsContent DEF Access
<1>15. CASE CallCut
  BY <1>15 DEF CallCut, NoRequest
<1> QED
  BY <1>1, <1>2, <1>3, <1>4, <1>5, <1>6, <1>7, <1>8, <1>9, <1>10, <1>11, <1>12, <1>13, <1>14, <1>15
  DEF StorageNext

\* The names, the call in progress and its answer keep their types.
THEOREM StorageTypeCorrect == StorageSpec => []StorageTypeOK
  BY TypeInit, TypeStep, PTL DEF StorageSpec

-------------------------------------------------------------------------------

LEMMA InStepInit == StorageInit => InStep
  BY DEF StorageInit, InStep, NoRequest

LEMMA InStepStep == ASSUME StorageTypeOK, InStep, [StorageNext]_storage PROVE InStep'
<1> USE StorageAssumption DEF StorageTypeOK, InStep, Steps, Held
<1>1. CASE UNCHANGED storage
  BY <1>1 DEF storage
<1>2. ASSUME NEW data \in Data, NEW atomic \in Modes, Write(data, atomic) PROVE InStep'
  BY <1>2 DEF Write, Call
<1>3. CASE Open
  BY <1>3 DEF Open, Target, Continue, Return, NoRequest
<1>4. CASE Fill
  <2>1. op.data \in Data /\ op.data \in Held
    BY <1>4 DEF Fill
  <2>2. CASE Placing
    <3>1. CASE files.name = Absent
      BY <1>4, <2>1, <2>2, <3>1, TargetHolds DEF Placing
    <3>2. CASE files.name # Absent
      BY <1>4, <2>1, <2>2, <3>2, TargetHolds DEF Placing
    <3> QED
      BY <3>1, <3>2
  <2>3. CASE ~op.atomic /\ Target(op.data) /\ Continue("drop")
    BY <1>4, <2>1, <2>3, TargetHolds, ContinueMoves DEF Fill
  <2>4. CASE Continue("discard")
    BY <1>4, <2>1, <2>4, ContinueMoves DEF Fill
  <2> QED
    BY <1>4, <2>2, <2>3, <2>4 DEF Fill, Placing
<1>5. CASE Clear
  BY <1>5 DEF Clear, Continue, Fail
<1>6. CASE Aside
  <2>1. CASE files' = MovedAside(files) /\ Continue("place")
    BY <1>6, <2>1, ContinueMoves DEF Aside, MovedAside
  <2>2. CASE Fail("discard")
    BY <1>6, <2>2, ContinueMoves DEF Aside, Fail
  <2> QED
    BY <1>6, <2>1, <2>2 DEF Aside
<1>7. CASE Place
  <2>1. CASE Continue("drop") /\ files' = [files EXCEPT !.name = files.tmp, !.tmp = Absent]
    BY <1>7, <2>1, ContinueMoves DEF Place
  <2>2. CASE Fail(IF op.had THEN "restore" ELSE "discard")
    BY <1>7, <2>2, ContinueMoves DEF Place, Fail
  <2> QED
    BY <1>7, <2>1, <2>2 DEF Place
<1>8. CASE PutBack
  BY <1>8 DEF PutBack, Continue
<1>9. CASE Discard \/ Drop
  BY <1>9 DEF Discard, Drop, Return, NoRequest
<1>10. CASE RemoveFile
  BY <1>10 DEF RemoveFile, Call
<1>11. CASE Unname \/ Unback
  <2>1. CASE op.at = "unname" /\ files' = [files EXCEPT !.name = Absent]
                             /\ Continue(IF files.bak = Absent THEN "drop" ELSE "unback")
    BY <2>1, ContinueMoves
  <2>2. CASE op.at = "unback" /\ files' = [files EXCEPT !.bak = Absent] /\ Continue("drop")
    BY <2>2, ContinueMoves
  <2>3. CASE Return(FALSE)
    BY <2>3, ReturnRests
  <2> QED
    BY <1>11, <2>1, <2>2, <2>3 DEF Unname, Unback
<1>12. CASE Access \/ CallCut
  BY <1>12 DEF Access, CallCut, NoRequest
<1> QED
  BY <1>1, <1>2, <1>3, <1>4, <1>5, <1>6, <1>7, <1>8, <1>9, <1>10, <1>11, <1>12 DEF StorageNext

\* The backup holds the file whenever its name does not.
THEOREM NeverWithoutName == StorageSpec => []InStep
<1>1. ASSUME StorageTypeOK, InStep, [StorageNext]_storage PROVE InStep'
  BY <1>1, InStepStep
<1> QED
  BY StorageTypeCorrect, InStepInit, <1>1, PTL DEF StorageSpec

-------------------------------------------------------------------------------

LEMMA StableInit == ASSUME StorageInit PROVE Stable!Init
  BY StorageAssumption DEF StorageInit, Stable!Init, Content, RecoverPrevious, Phase, NoRequest

LEMMA StableStep ==
    ASSUME StorageTypeOK, InStep, [StorageNext]_storage
    PROVE  [Stable!Next]_(Stable!file)
<1> USE StorageAssumption DEF StorageTypeOK, InStep, Steps, Held
<1> USE DEF Stable!file, Stable!Next, Phase
<1>1. CASE UNCHANGED storage
  BY <1>1 DEF storage
<1>2. ASSUME NEW data \in Data, NEW atomic \in Modes, Write(data, atomic) PROVE Stable!Ask
  BY <1>2, RecoveryKeepsContent DEF Write, Call, NoRequest, Stable!Ask
<1>3. CASE Open
  BY <1>3 DEF Open, Target, Continue, Return, NoRequest, Content, RecoverPrevious, Stable!Spoil, Stable!Answer, Stable!Rest
<1>4. CASE Fill
  <2>1. op.data \in Data /\ op.data \in Held
    BY <1>4 DEF Fill
  <2>2. CASE Placing
    BY <1>4, <2>1, <2>2, TargetHolds DEF Placing, Content, RecoverPrevious
  <2>3. CASE ~op.atomic /\ Target(op.data) /\ Continue("drop")
    BY <1>4, <2>1, <2>3, TargetHolds, ContinueMoves DEF Fill, Content, RecoverPrevious, Stable!Take
  <2>4. CASE Target(op.data) /\ Continue("discard")
    BY <1>4, <2>1, <2>4, TargetHolds, ContinueMoves DEF Fill, Content, RecoverPrevious, Stable!Spoil
  <2>5. CASE UNCHANGED files /\ Continue("discard")
    BY <1>4, <2>5, ContinueMoves DEF Fill
  <2> QED
    BY <1>4, <2>2, <2>3, <2>4, <2>5 DEF Fill, Placing
<1>5. CASE Clear
  BY <1>5 DEF Clear, Continue, Fail, Content, RecoverPrevious
<1>6. CASE Aside
  BY <1>6 DEF Aside, MovedAside, Continue, Fail, Content, RecoverPrevious
<1>7. CASE Place
  BY <1>7 DEF Place, Continue, Fail, Content, RecoverPrevious, Stable!Take
<1>8. CASE PutBack
  BY <1>8 DEF PutBack, Continue, Content, RecoverPrevious
<1>9. CASE Discard
  BY <1>9 DEF Discard, Target, Return, NoRequest, Content, RecoverPrevious, Stable!Answer, Stable!Rest
<1>10. CASE Drop
  BY <1>10 DEF Drop, Return, NoRequest, Content, RecoverPrevious, Stable!Answer, Stable!Rest
<1>11. CASE RemoveFile
  BY <1>11 DEF RemoveFile, Call, NoRequest, Stable!Ask
<1>12. CASE Unname
  BY <1>12 DEF Unname, Continue, Return, NoRequest, Content, RecoverPrevious, Stable!Spoil, Stable!Take, Stable!Answer, Stable!Rest
<1>13. CASE Unback
  BY <1>13 DEF Unback, Continue, Return, NoRequest, Content, RecoverPrevious, Stable!Take, Stable!Answer, Stable!Rest
<1>14. CASE Access
  BY <1>14, RecoveryKeepsContent DEF Access
<1>15. CASE CallCut
  BY <1>15 DEF CallCut, NoRequest, Stable!Crash, Stable!Rest
<1> QED
  BY <1>1, <1>2, <1>3, <1>4, <1>5, <1>6, <1>7, <1>8, <1>9, <1>10, <1>11, <1>12, <1>13, <1>14, <1>15
  DEF StorageNext

\* A file written atomically is one value that changes at one instant, whatever
\* calls to the file system fail and wherever the device loses power (write()).
THEOREM StorageIsStable == StorageSpec => WritesAreStable
<1>1. ASSUME StorageTypeOK, InStep, [StorageNext]_storage PROVE [Stable!Next]_(Stable!file)
  BY <1>1, StableStep
<1> QED
  BY StorageTypeCorrect, NeverWithoutName, StableInit, <1>1, PTL DEF StorageSpec, WritesAreStable, Stable!Spec

-------------------------------------------------------------------------------
(* The heartbeat: its job and its settings.                                     *)

HasJob(s, label) == \E j \in s : j.label = label
Only(s, labels) == \A j \in s : j.label \in labels
Beats(s) == {j \in s : j.label = HeartbeatJob}
Both(s) == HasJob(s, SystemJob) /\ HasJob(s, NetworkJob)
Heart(enabled, period) == IF enabled THEN {Job(HeartbeatJob, period)} ELSE {}

Shaped(c) == DOMAIN c = {"name", "at", "asked"}

HeartbeatTypes ==
    /\ setting \in [enabled : BOOLEAN, period : Periods]
    /\ Shaped(call) /\ call.name \in {"none", "start", "enabled", "period"}
    /\ started \in BOOLEAN /\ astray \in BOOLEAN

\* What is installed before start() has come to its end.
StartOK ==
    call.name = "start" =>
        /\ ~started
        /\ call.at \in {"network", "undo system"} => Only(jobs, {SystemJob})
        /\ call.at \in {"heartbeat", "undo network"} => Only(jobs, {SystemJob, NetworkJob})
        /\ call.at = "network" => HasJob(jobs, SystemJob)
        /\ call.at \in {"heartbeat", "done"} => Both(jobs)
        /\ call.at = "done" => Beats(jobs) = Heart(setting.enabled, setting.period)
        /\ call.at \in {"network", "heartbeat", "done", "undo network", "undo system"}

\* The heartbeat has the setting that is being saved, or none while its period changes.
ChangeOK ==
    /\ call.name # "start" => IF started THEN Both(jobs) ELSE jobs = {}
    /\ call.name \in {"none", "start"} => call.at # "save"
    /\ Idle /\ started /\ ~astray => Beats(jobs) = Heart(setting.enabled, setting.period)
    /\ call.name = "enabled" => /\ call.asked \in BOOLEAN /\ call.at = "save"
                                /\ started /\ ~astray => Beats(jobs) = Heart(call.asked, setting.period)
    /\ call.name = "period" =>
        /\ call.asked \in Periods /\ call.at \in {"save", "install", "reinstall"}
        /\ call.at = "save" /\ started /\ ~astray => Beats(jobs) = Heart(setting.enabled, call.asked)
        /\ call.at # "save" => started /\ setting.enabled /\ Beats(jobs) = {}

HeartbeatInv == HeartbeatTypes /\ StartOK /\ ChangeOK

LEMMA Labels ==
    /\ SystemJob # NetworkJob /\ SystemJob # HeartbeatJob /\ NetworkJob # HeartbeatJob
    /\ \A label, period : Job(label, period).label = label
BY DEF SystemJob, NetworkJob, HeartbeatJob, Job

\* A job more.
LEMMA OneMore ==
    ASSUME NEW s, NEW label, NEW period
    PROVE  LET t == s \cup {Job(label, period)}
           IN  /\ HasJob(t, label) /\ \A k : HasJob(s, k) => HasJob(t, k)
               /\ \A ls : label \in ls /\ Only(s, ls) => Only(t, ls)
               /\ label = HeartbeatJob /\ Beats(s) = {} => Beats(t) = {Job(HeartbeatJob, period)}
               /\ label # HeartbeatJob => Beats(t) = Beats(s)
<1> DEFINE t == s \cup {Job(label, period)}
<1>1. Job(label, period).label = label
  BY Labels
<1>2. HasJob(t, label) /\ \A k : HasJob(s, k) => HasJob(t, k)
  BY <1>1 DEF HasJob
<1>3. \A ls : label \in ls /\ Only(s, ls) => Only(t, ls)
  BY <1>1 DEF Only
<1>4. label = HeartbeatJob /\ Beats(s) = {} => Beats(t) = {Job(HeartbeatJob, period)}
  BY <1>1 DEF Beats
<1>5. label # HeartbeatJob => Beats(t) = Beats(s)
  BY <1>1 DEF Beats
<1> QED
  BY <1>2, <1>3, <1>4, <1>5

\* A job less.
LEMMA OneLess ==
    ASSUME NEW s, NEW label
    PROVE  LET t == {j \in s : j.label # label}
           IN  /\ \A k : HasJob(s, k) /\ k # label => HasJob(t, k)
               /\ \A ls : Only(s, ls) => Only(t, ls \ {label})
               /\ label = HeartbeatJob => Beats(t) = {}
               /\ ~HasJob(s, label) => t = s
BY DEF HasJob, Only, Beats

LEMMA Installs ==
    ASSUME NEW label, NEW period, NEW done, NEW failed, Install(label, period, done, failed)
    PROVE  \/ TableRoom /\ ~HasJob(jobs, label) /\ jobs' = jobs \cup {Job(label, period)} /\ call' = done
           \/ (~TableRoom \/ HasJob(jobs, label)) /\ jobs' = jobs /\ call' = failed
BY DEF Install, Scheduled, HasJob

LEMMA Uninstalls ==
    ASSUME NEW label, NEW done, NEW failed, Uninstall(label, done, failed)
    PROVE  jobs' = {j \in jobs : j.label # label} /\ call' = IF HasJob(jobs, label) THEN done ELSE failed
BY DEF Uninstall, Scheduled, HasJob

LEMMA NoBeat == \A s : ~HasJob(s, HeartbeatJob) <=> Beats(s) = {}
BY DEF HasJob, Beats

LEMMA OnlyBeats == \A s, ls : Only(s, ls) /\ HeartbeatJob \notin ls => Beats(s) = {}
BY DEF Only, Beats

LEMMA OnlyNone == \A s : Only(s, {}) => s = {}
BY DEF Only


\* What a call is after a step of it.
Is(c, n, a) == Shaped(c) /\ c.name = n /\ c.at = a

LEMMA Calls ==
    /\ Is(NoCall, "none", "")
    /\ Is([NoCall EXCEPT !.name = "start", !.at = "network"], "start", "network")
    /\ \A where : Shaped(call) => Is(At(where), call.name, where) /\ At(where).asked = call.asked
    /\ \A n, v : Is(Asking(n, v), n, "save") /\ Asking(n, v).asked = v
                 /\ LET c == [Asking(n, v) EXCEPT !.at = "install"]
                    IN  Is(c, n, "install") /\ c.asked = v
<1> DEFINE first == [NoCall EXCEPT !.name = "start", !.at = "network"]
<1>1. NoCall.name = "none" /\ NoCall.at = "" /\ Shaped(NoCall)
  BY DEF NoCall, Shaped
<1>2. first.name = "start" /\ first.at = "network" /\ Shaped(first)
  BY DEF NoCall, Shaped
<1>3. ASSUME NEW where, Shaped(call)
      PROVE  At(where).name = call.name /\ At(where).at = where /\ At(where).asked = call.asked /\ Shaped(At(where))
  BY <1>3 DEF Shaped, At
<1>4. ASSUME NEW n, NEW v
      PROVE  LET c == Asking(n, v)
             IN  c.name = n /\ c.at = "save" /\ c.asked = v /\ Shaped(c)
  BY DEF Shaped, Asking
<1>5. ASSUME NEW n, NEW v
      PROVE  LET c == [Asking(n, v) EXCEPT !.at = "install"]
             IN  c.name = n /\ c.at = "install" /\ c.asked = v /\ Shaped(c)
  BY DEF Shaped, Asking
<1> HIDE DEF first
<1>6. Is(NoCall, "none", "") /\ Is(first, "start", "network")
  BY <1>1, <1>2 DEF Is
<1>7. \A where : Shaped(call) => Is(At(where), call.name, where) /\ At(where).asked = call.asked
  BY <1>3 DEF Is
<1>8. \A n, v : Is(Asking(n, v), n, "save") /\ Asking(n, v).asked = v
                 /\ LET c == [Asking(n, v) EXCEPT !.at = "install"]
                    IN  Is(c, n, "install") /\ c.asked = v
  BY <1>4, <1>5 DEF Is
<1> QED
  BY <1>6, <1>7, <1>8 DEF first

\* The ways in which a step ends, and what the invariant asks of each.
Kept == setting' \in [enabled : BOOLEAN, period : Periods] /\ astray' \in BOOLEAN /\ started' \in BOOLEAN

LEMMA ToIdle ==
    ASSUME Kept, Is(call', "none", ""), IF started' THEN Both(jobs') ELSE jobs' = {},
           started' /\ ~astray' => Beats(jobs') = Heart(setting'.enabled, setting'.period)
    PROVE  HeartbeatInv'
BY DEF Kept, Is, HeartbeatInv, HeartbeatTypes, StartOK, ChangeOK, Idle

LEMMA ToStart ==
    ASSUME Kept, NEW where \in {"network", "heartbeat", "undo network", "undo system"},
           Is(call', "start", where), ~started',
           where \in {"network", "undo system"} => Only(jobs', {SystemJob}),
           where \in {"heartbeat", "undo network"} => Only(jobs', {SystemJob, NetworkJob}),
           where = "network" => HasJob(jobs', SystemJob), where = "heartbeat" => Both(jobs')
    PROVE  HeartbeatInv'
BY DEF Kept, Is, HeartbeatInv, HeartbeatTypes, StartOK, ChangeOK, Idle

LEMMA ToDone ==
    ASSUME Kept, Is(call', "start", "done"), ~started', Both(jobs'),
           Beats(jobs') = Heart(setting'.enabled, setting'.period)
    PROVE  HeartbeatInv'
BY DEF Kept, Is, HeartbeatInv, HeartbeatTypes, StartOK, ChangeOK, Idle

LEMMA ToEnabled ==
    ASSUME Kept, Is(call', "enabled", "save"), call'.asked \in BOOLEAN,
           IF started' THEN Both(jobs') ELSE jobs' = {},
           started' /\ ~astray' => Beats(jobs') = Heart(call'.asked, setting'.period)
    PROVE  HeartbeatInv'
BY DEF Kept, Is, HeartbeatInv, HeartbeatTypes, StartOK, ChangeOK, Idle

LEMMA ToPeriod ==
    ASSUME Kept, Is(call', "period", "save"), call'.asked \in Periods,
           IF started' THEN Both(jobs') ELSE jobs' = {},
           started' /\ ~astray' => Beats(jobs') = Heart(setting'.enabled, call'.asked)
    PROVE  HeartbeatInv'
BY DEF Kept, Is, HeartbeatInv, HeartbeatTypes, StartOK, ChangeOK, Idle

LEMMA ToInstall ==
    ASSUME Kept, NEW where \in {"install", "reinstall"}, Is(call', "period", where), call'.asked \in Periods,
           started', setting'.enabled, Both(jobs'), Beats(jobs') = {}
    PROVE  HeartbeatInv'
BY DEF Kept, Is, HeartbeatInv, HeartbeatTypes, StartOK, ChangeOK, Idle

\* What a call that asks nothing of the settings leaves as it was.
LEMMA Keeps ==
    ASSUME HeartbeatInv, setting' = setting, astray' = astray, started' = started
    PROVE  Kept
BY DEF Kept, HeartbeatInv, HeartbeatTypes

LEMMA Starts == ASSUME HeartbeatInv, Start PROVE HeartbeatInv'
<1> DEFINE done == [NoCall EXCEPT !.name = "start", !.at = "network"]
<1>1. /\ Idle /\ ~started /\ jobs = {} /\ setting' = setting /\ astray' = astray /\ started' = started
      /\ Install(SystemJob, DefaultPeriod, done, NoCall)
  BY DEF Start, HeartbeatInv, ChangeOK, Idle
<1>2. Is(done, "start", "network") /\ Is(NoCall, "none", "")
  BY Calls
<1> HIDE DEF done
<1>3. CASE jobs' = jobs \cup {Job(SystemJob, DefaultPeriod)} /\ call' = done
  <2>1. Only(jobs, {SystemJob})
    BY <1>1 DEF Only
  <2>2. Only(jobs', {SystemJob}) /\ HasJob(jobs', SystemJob)
    BY <1>3, <2>1, OneMore
  <2> QED
    BY <1>1, <1>2, <1>3, <2>2, Keeps, ToStart
<1>4. CASE jobs' = jobs /\ call' = NoCall
  BY <1>1, <1>2, <1>4, Keeps, ToIdle
<1> QED
  BY <1>1, <1>3, <1>4, Installs

LEMMA StartNetworks == ASSUME HeartbeatInv, StartNetwork PROVE HeartbeatInv'
<1>1. /\ call.name = "start" /\ call.at = "network" /\ Only(jobs, {SystemJob}) /\ HasJob(jobs, SystemJob) /\ ~started
      /\ setting' = setting /\ astray' = astray /\ started' = started
      /\ Install(NetworkJob, DefaultPeriod, At("heartbeat"), At("undo system"))
  BY DEF StartNetwork, Begun, HeartbeatInv, StartOK
<1>2. /\ Is(At("heartbeat"), "start", "heartbeat")
      /\ Is(At("undo system"), "start", "undo system")
  BY <1>1, Calls DEF HeartbeatInv, HeartbeatTypes
<1>3. CASE jobs' = jobs \cup {Job(NetworkJob, DefaultPeriod)} /\ call' = At("heartbeat")
  <2>1. Only(jobs, {SystemJob, NetworkJob})
    BY <1>1 DEF Only
  <2>2. Only(jobs', {SystemJob, NetworkJob}) /\ HasJob(jobs', SystemJob) /\ HasJob(jobs', NetworkJob)
    BY <1>1, <1>3, <2>1, OneMore
  <2> QED
    BY <1>1, <1>2, <1>3, <2>2, Keeps, ToStart DEF Both
<1>4. CASE jobs' = jobs /\ call' = At("undo system")
  BY <1>1, <1>2, <1>4, Keeps, ToStart
<1> QED
  BY <1>1, <1>3, <1>4, Installs

LEMMA StartHeartbeats == ASSUME HeartbeatInv, StartHeartbeat PROVE HeartbeatInv'
<1>1. /\ call.name = "start" /\ call.at = "heartbeat" /\ Only(jobs, {SystemJob, NetworkJob}) /\ Both(jobs) /\ ~started
      /\ setting' = setting /\ astray' = astray /\ started' = started
  BY DEF StartHeartbeat, Begun, HeartbeatInv, StartOK
<1>2. /\ Is(At("done"), "start", "done")
      /\ Is(At("undo network"), "start", "undo network")
  BY <1>1, Calls DEF HeartbeatInv, HeartbeatTypes
<1>3. Beats(jobs) = {}
  BY <1>1, Labels, OnlyBeats
<1>4. CASE ~setting.enabled
  <2>1. call' = At("done") /\ jobs' = jobs
    BY <1>4 DEF StartHeartbeat
  <2>2. Beats(jobs) = Heart(setting.enabled, setting.period)
    BY <1>3, <1>4 DEF Heart
  <2> QED
    BY <1>1, <1>2, <2>1, <2>2, Keeps, ToDone
<1>5. CASE setting.enabled
  <2>1. Install(HeartbeatJob, setting.period, At("done"), At("undo network"))
    BY <1>5 DEF StartHeartbeat
  <2>2. CASE jobs' = jobs \cup {Job(HeartbeatJob, setting.period)} /\ call' = At("done")
    <3>1. Beats(jobs') = Heart(setting.enabled, setting.period)
      BY <1>3, <1>5, <2>2, OneMore DEF Heart
    <3>2. Both(jobs')
      BY <1>1, <2>2, OneMore DEF Both
    <3> QED
      BY <1>1, <1>2, <2>2, <3>1, <3>2, Keeps, ToDone
  <2>3. CASE jobs' = jobs /\ call' = At("undo network")
    BY <1>1, <1>2, <2>3, Keeps, ToStart
  <2> QED
    BY <2>1, <2>2, <2>3, Installs
<1> QED
  BY <1>4, <1>5

LEMMA StartUndoes == ASSUME HeartbeatInv, StartUndo PROVE HeartbeatInv'
<1>1. /\ setting' = setting /\ astray' = astray /\ started' = started /\ ~started /\ call.name = "start"
      /\ \/ call.at = "undo network" /\ Uninstall(NetworkJob, At("undo system"), At("undo system"))
         \/ call.at = "undo system" /\ Uninstall(SystemJob, NoCall, NoCall)
  BY DEF StartUndo, Begun, HeartbeatInv, StartOK
<1>2. CASE call.at = "undo network" /\ Uninstall(NetworkJob, At("undo system"), At("undo system"))
  <2>1. Is(At("undo system"), "start", "undo system")
    BY <1>1, Calls DEF HeartbeatInv, HeartbeatTypes
  <2>2. jobs' = {j \in jobs : j.label # NetworkJob} /\ call' = At("undo system")
    BY <1>2, Uninstalls
  <2>3. Only(jobs, {SystemJob, NetworkJob})
    BY <1>1, <1>2 DEF HeartbeatInv, StartOK
  <2>4. Only(jobs', {SystemJob})
    <3>1. Only(jobs', {SystemJob, NetworkJob} \ {NetworkJob})
      BY <2>2, <2>3, OneLess
    <3>2. {SystemJob, NetworkJob} \ {NetworkJob} = {SystemJob}
      BY Labels
    <3> QED
      BY <3>1, <3>2
  <2> QED
    BY <1>1, <2>1, <2>2, <2>4, Keeps, ToStart
<1>3. CASE call.at = "undo system" /\ Uninstall(SystemJob, NoCall, NoCall)
  <2>1. jobs' = {j \in jobs : j.label # SystemJob} /\ call' = NoCall
    BY <1>3, Uninstalls
  <2>2. Only(jobs, {SystemJob})
    BY <1>1, <1>3 DEF HeartbeatInv, StartOK
  <2>3. jobs' = {}
    BY <2>1, <2>2 DEF Only
  <2> QED
    BY <1>1, <2>1, <2>3, Calls, Keeps, ToIdle
<1> QED
  BY <1>1, <1>2, <1>3

LEMMA StartDones == ASSUME HeartbeatInv, StartDone PROVE HeartbeatInv'
<1>1. /\ call.name = "start" /\ call.at = "done" /\ Both(jobs) /\ Beats(jobs) = Heart(setting.enabled, setting.period)
      /\ jobs' = jobs /\ setting' = setting /\ astray' = astray /\ started' = TRUE /\ call' = NoCall
  BY DEF StartDone, Begun, HeartbeatInv, StartOK
<1>2. Kept
  BY <1>1 DEF HeartbeatInv, HeartbeatTypes, Kept
<1> QED
  BY <1>1, <1>2, Calls, ToIdle

\* A job of the heartbeat touches the two others in no way.
LEMMA Others ==
    ASSUME NEW s, Both(s), NEW period
    PROVE  Both(s \cup {Job(HeartbeatJob, period)}) /\ Both({j \in s : j.label # HeartbeatJob})
<1>1. Both(s \cup {Job(HeartbeatJob, period)})
  BY OneMore DEF Both
<1>2. Both({j \in s : j.label # HeartbeatJob})
  <2>1. HasJob(s, SystemJob) /\ HasJob(s, NetworkJob) /\ SystemJob # HeartbeatJob /\ NetworkJob # HeartbeatJob
    BY Labels DEF Both
  <2>2. HasJob({j \in s : j.label # HeartbeatJob}, SystemJob)
    BY <2>1 DEF HasJob
  <2>3. HasJob({j \in s : j.label # HeartbeatJob}, NetworkJob)
    BY <2>1 DEF HasJob
  <2> QED
    BY <2>2, <2>3 DEF Both
<1> QED
  BY <1>1, <1>2

\* changeHeartbeatEnabled()
LEMMA SetEnableds == ASSUME HeartbeatInv, NEW v \in BOOLEAN, SetEnabled(v) PROVE HeartbeatInv'
<1>1. /\ call.name = "none" /\ (IF started THEN Both(jobs) ELSE jobs = {})
      /\ (started /\ ~astray => Beats(jobs) = Heart(setting.enabled, setting.period))
      /\ setting' = setting /\ astray' = astray /\ started' = started
  BY DEF SetEnabled, HeartbeatInv, ChangeOK, Idle
<1>2. Is(Asking("enabled", v), "enabled", "save") /\ Asking("enabled", v).asked = v
  BY Calls
<1>3. setting.enabled \in BOOLEAN
  BY DEF HeartbeatInv, HeartbeatTypes
<1>4. CASE ~started \/ v = setting.enabled
  <2>1. call' = Asking("enabled", v) /\ jobs' = jobs
    BY <1>4 DEF SetEnabled
  <2>2. started /\ ~astray => Beats(jobs) = Heart(v, setting.period)
    BY <1>1, <1>4
  <2> QED
    BY <1>1, <1>2, <2>1, <2>2, Keeps, ToEnabled
<1>5. CASE started /\ v # setting.enabled /\ v
  <2>1. Install(HeartbeatJob, setting.period, Asking("enabled", v), NoCall)
    BY <1>5 DEF SetEnabled
  <2>2. ~astray => Beats(jobs) = {}
    BY <1>1, <1>3, <1>5 DEF Heart
  <2>3. CASE jobs' = jobs \cup {Job(HeartbeatJob, setting.period)} /\ call' = Asking("enabled", v)
    <3>1. ~astray => Beats(jobs') = Heart(v, setting.period)
      BY <1>5, <2>2, <2>3, OneMore DEF Heart
    <3>2. Both(jobs')
      BY <1>1, <1>5, <2>3, Others
    <3> QED
      BY <1>1, <1>2, <1>5, <2>3, <3>1, <3>2, Keeps, ToEnabled
  <2>4. CASE jobs' = jobs /\ call' = NoCall
    BY <1>1, <2>4, Calls, Keeps, ToIdle
  <2> QED
    BY <2>1, <2>3, <2>4, Installs
<1>6. CASE started /\ v # setting.enabled /\ ~v
  <2>1. Uninstall(HeartbeatJob, Asking("enabled", v), NoCall)
    BY <1>6 DEF SetEnabled
  <2>2. jobs' = {j \in jobs : j.label # HeartbeatJob}
        /\ call' = IF HasJob(jobs, HeartbeatJob) THEN Asking("enabled", v) ELSE NoCall
    BY <2>1, Uninstalls
  <2>3. Both(jobs')
    BY <1>1, <1>6, <2>2, Others
  <2>4. Beats(jobs') = Heart(v, setting.period)
    BY <1>6, <2>2, OneLess DEF Heart
  <2>5. CASE HasJob(jobs, HeartbeatJob)
    BY <1>1, <1>2, <1>6, <2>2, <2>3, <2>4, <2>5, Keeps, ToEnabled
  <2>6. CASE ~HasJob(jobs, HeartbeatJob)
    <3>1. jobs' = jobs
      BY <2>2, <2>6, OneLess
    <3> QED
      BY <1>1, <2>2, <2>6, <3>1, Calls, Keeps, ToIdle
  <2> QED
    BY <2>5, <2>6
<1> QED
  BY <1>4, <1>5, <1>6

\* changeHeartbeatPeriod(), the first of its steps and the two that may follow.
LEMMA SetPeriods == ASSUME HeartbeatInv, NEW v \in Periods, SetPeriod(v) PROVE HeartbeatInv'
<1>1. /\ call.name = "none" /\ (IF started THEN Both(jobs) ELSE jobs = {})
      /\ (started /\ ~astray => Beats(jobs) = Heart(setting.enabled, setting.period))
      /\ setting' = setting /\ astray' = astray /\ started' = started
  BY DEF SetPeriod, HeartbeatInv, ChangeOK, Idle
<1>2. Is(Asking("period", v), "period", "save") /\ Asking("period", v).asked = v
  BY Calls
<1>3. CASE ~started \/ ~setting.enabled \/ v = setting.period
  <2>1. call' = Asking("period", v) /\ jobs' = jobs
    BY <1>3 DEF SetPeriod
  <2>2. started /\ ~astray => Beats(jobs) = Heart(setting.enabled, v)
    BY <1>1, <1>3 DEF Heart
  <2> QED
    BY <1>1, <1>2, <2>1, <2>2, Keeps, ToPeriod
<1>4. CASE started /\ setting.enabled /\ v # setting.period
  <2> DEFINE next == [Asking("period", v) EXCEPT !.at = "install"]
  <2>1. Is(next, "period", "install") /\ next.asked = v
    BY Calls
  <2>2. Uninstall(HeartbeatJob, next, NoCall)
    BY <1>4 DEF SetPeriod
  <2> HIDE DEF next
  <2>3. jobs' = {j \in jobs : j.label # HeartbeatJob}
        /\ call' = IF HasJob(jobs, HeartbeatJob) THEN next ELSE NoCall
    BY <2>2, Uninstalls
  <2>4. Both(jobs')
    BY <1>1, <1>4, <2>3, Others
  <2>5. Beats(jobs') = {}
    BY <2>3, OneLess
  <2>6. CASE HasJob(jobs, HeartbeatJob)
    BY <1>1, <1>4, <2>1, <2>3, <2>4, <2>5, <2>6, Keeps, ToInstall
  <2>7. CASE ~HasJob(jobs, HeartbeatJob)
    <3>1. jobs' = jobs
      BY <2>3, <2>7, OneLess
    <3> QED
      BY <1>1, <2>3, <2>7, <3>1, Calls, Keeps, ToIdle
  <2> QED
    BY <2>6, <2>7
<1> QED
  BY <1>3, <1>4

LEMMA InstallPeriods == ASSUME HeartbeatInv, InstallPeriod PROVE HeartbeatInv'
<1>1. /\ call.name = "period" /\ call.at = "install" /\ call.asked \in Periods /\ started /\ setting.enabled
      /\ Both(jobs) /\ Beats(jobs) = {} /\ setting' = setting /\ astray' = astray /\ started' = started
      /\ Install(HeartbeatJob, call.asked, At("save"), At("reinstall"))
  BY DEF InstallPeriod, HeartbeatInv, ChangeOK
<1>2. /\ Is(At("save"), "period", "save") /\ At("save").asked = call.asked
      /\ Is(At("reinstall"), "period", "reinstall") /\ At("reinstall").asked = call.asked
  BY <1>1, Calls DEF HeartbeatInv, HeartbeatTypes
<1>3. CASE jobs' = jobs \cup {Job(HeartbeatJob, call.asked)} /\ call' = At("save")
  <2>1. Beats(jobs') = Heart(setting.enabled, call.asked)
    BY <1>1, <1>3, OneMore DEF Heart
  <2>2. Both(jobs')
    BY <1>1, <1>3, Others
  <2> QED
    BY <1>1, <1>2, <1>3, <2>1, <2>2, Keeps, ToPeriod
<1>4. CASE jobs' = jobs /\ call' = At("reinstall")
  BY <1>1, <1>2, <1>4, Keeps, ToInstall
<1> QED
  BY <1>1, <1>3, <1>4, Installs

LEMMA ReinstallPeriods == ASSUME HeartbeatInv, ReinstallPeriod PROVE HeartbeatInv'
<1>1. /\ call.name = "period" /\ call.at = "reinstall" /\ started /\ setting.enabled
      /\ Both(jobs) /\ Beats(jobs) = {} /\ setting' = setting /\ astray' = (astray \/ ~TableRoom)
      /\ started' = started /\ astray \in BOOLEAN
      /\ Install(HeartbeatJob, setting.period, NoCall, NoCall)
  BY DEF ReinstallPeriod, HeartbeatInv, HeartbeatTypes, ChangeOK
<1>2. ~HasJob(jobs, HeartbeatJob)
  BY <1>1, NoBeat
<1>3. Kept
  BY <1>1 DEF Kept, HeartbeatInv, HeartbeatTypes
<1>4. CASE jobs' = jobs \cup {Job(HeartbeatJob, setting.period)} /\ call' = NoCall
  <2>1. Beats(jobs') = Heart(setting.enabled, setting.period)
    <3>1. Beats(jobs') = {Job(HeartbeatJob, setting.period)}
      BY <1>1, <1>4, OneMore
    <3>2. Heart(setting.enabled, setting.period) = {Job(HeartbeatJob, setting.period)}
      BY <1>1 DEF Heart
    <3> QED
      BY <3>1, <3>2
  <2>2. Both(jobs')
    BY <1>1, <1>4, Others
  <2> QED
    BY <1>1, <1>3, <1>4, <2>1, <2>2, Calls, ToIdle
<1>5. CASE ~TableRoom /\ jobs' = jobs /\ call' = NoCall
  <2>1. astray'
    BY <1>1, <1>5
  <2> QED
    BY <1>1, <1>3, <1>5, <2>1, Calls, ToIdle
<1> QED
  BY <1>1, <1>2, <1>4, <1>5, Installs

\* The value follows its job, or is left behind it.
LEMMA SaveSettings == ASSUME HeartbeatInv, NEW stored \in BOOLEAN, SaveSetting(stored) PROVE HeartbeatInv'
<1>1. /\ call.at = "save" /\ call.name \in {"enabled", "period"} /\ (IF started THEN Both(jobs) ELSE jobs = {})
      /\ jobs' = jobs /\ started' = started /\ call' = NoCall
      /\ astray' = (astray \/ (~stored /\ started)) /\ astray \in BOOLEAN /\ started \in BOOLEAN
      /\ setting \in [enabled : BOOLEAN, period : Periods]
  BY DEF SaveSetting, HeartbeatInv, HeartbeatTypes, StartOK, ChangeOK
<1>2. astray' \in BOOLEAN /\ started' \in BOOLEAN
  BY <1>1
<1>3. CASE ~stored
  <2>1. setting' = setting /\ (started => astray')
    BY <1>1, <1>3 DEF SaveSetting
  <2> QED
    BY <1>1, <1>2, <2>1, Calls, ToIdle DEF Kept
<1>4. CASE stored /\ call.name = "enabled"
  <2>1. setting' = [setting EXCEPT !.enabled = call.asked] /\ call.asked \in BOOLEAN
        /\ (started /\ ~astray => Beats(jobs) = Heart(call.asked, setting.period))
    BY <1>1, <1>4 DEF SaveSetting, HeartbeatInv, ChangeOK
  <2>2. setting' \in [enabled : BOOLEAN, period : Periods] /\ setting'.enabled = call.asked
        /\ setting'.period = setting.period
    BY <1>1, <2>1
  <2>3. started /\ ~astray => Beats(jobs) = Heart(setting'.enabled, setting'.period)
    BY <2>1, <2>2
  <2>5. ~astray' => ~astray
    BY <1>1
  <2> QED
    BY <1>1, <1>2, <2>2, <2>3, <2>5, Calls, ToIdle DEF Kept
<1>5. CASE stored /\ call.name = "period"
  <2>1. setting' = [setting EXCEPT !.period = call.asked] /\ call.asked \in Periods
        /\ (started /\ ~astray => Beats(jobs) = Heart(setting.enabled, call.asked))
    BY <1>1, <1>5 DEF SaveSetting, HeartbeatInv, ChangeOK
  <2>2. setting' \in [enabled : BOOLEAN, period : Periods] /\ setting'.enabled = setting.enabled
        /\ setting'.period = call.asked
    BY <1>1, <2>1
  <2>3. started /\ ~astray => Beats(jobs) = Heart(setting'.enabled, setting'.period)
    BY <2>1, <2>2
  <2>5. ~astray' => ~astray
    BY <1>1
  <2> QED
    BY <1>1, <1>2, <2>2, <2>3, <2>5, Calls, ToIdle DEF Kept
<1> QED
  BY <1>1, <1>3, <1>4, <1>5

\* What leaves the jobs of telemetry alone, and what leaves nothing of them.
LEMMA OtherSteps ==
    ASSUME HeartbeatInv, OtherJob \/ OtherJobEnds \/ Restart \/ UNCHANGED heartbeatVars
    PROVE  HeartbeatInv'
<1>1. CASE Restart
  <2>1. Kept
    BY <1>1 DEF Restart, HeartbeatInv, HeartbeatTypes, Kept
  <2> QED
    BY <1>1, <2>1, Calls, ToIdle DEF Restart
<1>2. CASE UNCHANGED <<jobs, started, setting, call, astray>>
  BY <1>2 DEF HeartbeatInv, HeartbeatTypes, StartOK, ChangeOK, Idle
<1> QED
  BY <1>1, <1>2 DEF OtherJob, OtherJobEnds, heartbeatVars

LEMMA HeartbeatInvariant == HeartbeatInit /\ [][HeartbeatNext]_heartbeatVars => []HeartbeatInv
<1>1. HeartbeatInit => HeartbeatInv
  <2> SUFFICES ASSUME HeartbeatInit PROVE HeartbeatInv
    OBVIOUS
  <2>1. setting \in [enabled : BOOLEAN, period : Periods] /\ jobs = {} /\ started = FALSE /\ astray = FALSE
        /\ Is(call, "none", "")
    BY TelemetryAssumption, Calls DEF HeartbeatInit
  <2> QED
    BY <2>1 DEF Is, HeartbeatInv, HeartbeatTypes, StartOK, ChangeOK, Idle
<1>2. HeartbeatInv /\ [HeartbeatNext]_heartbeatVars => HeartbeatInv'
  BY Starts, StartNetworks, StartHeartbeats, StartUndoes, StartDones, SetEnableds, SetPeriods,
     InstallPeriods, ReinstallPeriods, SaveSettings, OtherSteps DEF HeartbeatNext
<1> QED
  BY <1>1, <1>2, PTL

\* The jobs of telemetry are all there or none, and the heartbeat's has the period
\* that is set, whoever else uses the table and whatever is refused on the way:
\* start(), changeHeartbeatEnabled() and changeHeartbeatPeriod() of Core/Telemetry.
THEOREM HeartbeatFollowsItsSettings ==
    HeartbeatInit /\ [][HeartbeatNext]_heartbeatVars => []JobsFollowSettings
<1>1. HeartbeatInv => JobsFollowSettings
  <2> SUFFICES ASSUME HeartbeatInv PROVE StartIsAllOrNothing /\ JobFollowsSetting
    BY DEF JobsFollowSettings
  <2>1. StartIsAllOrNothing
    BY DEF HeartbeatInv, ChangeOK, StartIsAllOrNothing, Idle, Both, HasJob, Scheduled
  <2>2. JobFollowsSetting
    BY DEF HeartbeatInv, ChangeOK, JobFollowsSetting, Idle, Beats, Heart
  <2> QED
    BY <2>1, <2>2
<1> QED
  BY <1>1, HeartbeatInvariant, PTL

===============================================================================
