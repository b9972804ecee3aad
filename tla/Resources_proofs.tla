---------------------------- MODULE Resources_proofs ----------------------------
(* That the subscriptions and the mirrors of a device follow the sources of its  *)
(* values, and that the file of the sources outlives restarts, for any number of *)
(* values, sources and firmwares.  At the end, of the web server: that its list  *)
(* of clients follows its sessions, however the two tasks that change it meet.   *)
(*                                                                               *)
(* A call is a composition of operators that yield sets of states: of each one   *)
(* there is a lemma of what it leaves (...Is), one that the invariant survives   *)
(* it (...OK) and one of what it does to sources and their file (...Stays).      *)
EXTENDS Resources, WebServer, Integers, FiniteSetTheorems, SequenceTheorems, WellFoundedInduction, TLAPS

-------------------------------------------------------------------------------
(* States of the device.                                                        *)

NetFields == {"bound", "own", "dirty", "loaded", "ok", "src", "remote", "policy", "sources", "kept",
              "retained", "manifest", "theirs", "subs", "inbox"}
OwnFields == {"value", "avail", "period", "poll", "pending", "retry"}
RemoteFields == {"value", "avail", "fresh", "period", "wish"}

\* Which fields there are; what they hold is open.
Shaped(w) ==
    /\ DOMAIN w = NetFields
    /\ DOMAIN w.own = Managed /\ \A m \in Managed : DOMAIN w.own[m] = OwnFields
    /\ DOMAIN w.remote = Remote /\ \A r \in Remote : DOMAIN w.remote[r] = RemoteFields
    /\ DOMAIN w.src = Remote /\ DOMAIN w.retained = Managed

\* u has what w has, but in the fields F.
Same(w, u, F) == \A f \in NetFields \ F : u[f] = w[f]
SameOwn(w, u, m, F) == \A f \in OwnFields \ F : u.own[m][f] = w.own[m][f]

\* What becomes of the values S when they are published, and when they are withdrawn.
Published(w, u, S) ==
    /\ Shaped(u) /\ Same(w, u, {"own", "retained"})
    /\ \A m \in Managed :
         /\ SameOwn(w, u, m, {"retry"})
         /\ IF m \in S /\ Offered(w.own[m])
            THEN \/ u.retained[m] = w.own[m].value /\ u.own[m].retry = FALSE
                 \/ u.retained[m] = w.retained[m] /\ u.own[m].retry = TRUE
            ELSE u.retained[m] = w.retained[m] /\ u.own[m].retry = w.own[m].retry
Withdrawn(w, u, S) ==
    /\ Shaped(u) /\ Same(w, u, {"own", "retained"})
    /\ \A m \in Managed :
         /\ SameOwn(w, u, m, {"pending", "retry"})
         /\ IF m \in S
            THEN \/ u.retained[m] = None /\ u.own[m].pending = FALSE /\ u.own[m].retry = FALSE
                 \/ u.retained[m] = w.retained[m] /\ u.own[m].pending = TRUE /\ u.own[m].retry = TRUE
            ELSE u.retained[m] = w.retained[m] /\ SameOwn(w, u, m, {})

LEMMA PublishStatesIs ==
    ASSUME NEW w, Shaped(w), NEW S \in SUBSET Managed, NEW u \in PublishStates(w, S)
    PROVE  Published(w, u, S)
<1> DEFINE told == {m \in S : Offered(w.own[m])}
<1>1. PICK ok \in TakenOf(told) :
        u = [w EXCEPT !.retained = [m \in Managed |-> IF m \in ok THEN w.own[m].value ELSE @[m]],
                      !.own = [m \in Managed |-> IF m \in told THEN [w.own[m] EXCEPT !.retry = m \notin ok]
                                                 ELSE w.own[m]]]
  BY DEF PublishStates, OnOwn
<1>2. ok \subseteq told
  BY DEF TakenOf
<1> HIDE DEF told
<1>3. /\ DOMAIN u = NetFields /\ Same(w, u, {"own", "retained"})
      /\ u.retained = [m \in Managed |-> IF m \in ok THEN w.own[m].value ELSE w.retained[m]]
      /\ u.own = [m \in Managed |-> IF m \in told THEN [w.own[m] EXCEPT !.retry = m \notin ok] ELSE w.own[m]]
  BY <1>1 DEF Shaped, NetFields, Same
<1>4. \A m \in Managed : DOMAIN u.own[m] = OwnFields /\ SameOwn(w, u, m, {"retry"})
  BY <1>3 DEF Shaped, SameOwn, OwnFields
<1>5. Shaped(u)
  BY <1>3, <1>4 DEF Shaped, Same, NetFields
<1>6. ASSUME NEW m \in Managed
      PROVE  IF m \in told
             THEN \/ u.retained[m] = w.own[m].value /\ u.own[m].retry = FALSE
                  \/ u.retained[m] = w.retained[m] /\ u.own[m].retry = TRUE
             ELSE u.retained[m] = w.retained[m] /\ u.own[m].retry = w.own[m].retry
  BY <1>2, <1>3 DEF Shaped, OwnFields
<1> QED BY <1>3, <1>4, <1>5, <1>6 DEF Published, told

LEMMA WithdrawStatesIs ==
    ASSUME NEW w, Shaped(w), NEW S \in SUBSET Managed, NEW u \in WithdrawStates(w, S)
    PROVE  Withdrawn(w, u, S)
<1>1. PICK ok \in TakenOf(S) :
        u = [w EXCEPT !.retained = [m \in Managed |-> IF m \in ok THEN None ELSE @[m]],
                      !.own = [m \in Managed |->
                          IF m \in S THEN [w.own[m] EXCEPT !.pending = m \notin ok, !.retry = m \notin ok]
                          ELSE w.own[m]]]
  BY DEF WithdrawStates, OnOwn
<1>2. ok \subseteq S
  BY DEF TakenOf
<1>3. /\ DOMAIN u = NetFields /\ Same(w, u, {"own", "retained"})
      /\ u.retained = [m \in Managed |-> IF m \in ok THEN None ELSE w.retained[m]]
      /\ u.own = [m \in Managed |->
                    IF m \in S THEN [w.own[m] EXCEPT !.pending = m \notin ok, !.retry = m \notin ok]
                    ELSE w.own[m]]
  BY <1>1 DEF Shaped, NetFields, Same
<1>4. \A m \in Managed : DOMAIN u.own[m] = OwnFields /\ SameOwn(w, u, m, {"pending", "retry"})
  BY <1>3 DEF Shaped, SameOwn, OwnFields
<1>5. Shaped(u)
  BY <1>3, <1>4 DEF Shaped, Same, NetFields
<1>6. ASSUME NEW m \in Managed
      PROVE  IF m \in S
             THEN \/ u.retained[m] = None /\ u.own[m].pending = FALSE /\ u.own[m].retry = FALSE
                  \/ u.retained[m] = w.retained[m] /\ u.own[m].pending = TRUE /\ u.own[m].retry = TRUE
             ELSE u.retained[m] = w.retained[m] /\ SameOwn(w, u, m, {})
  BY <1>2, <1>3 DEF Shaped, OwnFields, SameOwn
<1> QED BY <1>3, <1>4, <1>5, <1>6 DEF Withdrawn

LEMMA WithOwn ==
    ASSUME NEW w, Shaped(w), NEW f, DOMAIN f = Managed, \A m \in Managed : DOMAIN f[m] = OwnFields
    PROVE  /\ Shaped([w EXCEPT !.own = f]) /\ Same(w, [w EXCEPT !.own = f], {"own"})
           /\ [w EXCEPT !.own = f].own = f
<1> DEFINE u == [w EXCEPT !.own = f]
<1>1. DOMAIN u = NetFields /\ u.own = f /\ Same(w, u, {"own"})
  BY DEF Shaped, NetFields, Same
<1>2. Shaped(u)
  <2> HIDE DEF u
  <2> QED BY <1>1 DEF Shaped, Same, NetFields
<1> QED BY <1>1, <1>2 DEF u

\* What becomes of the mirrors of x when it is told, and when it is lost.
Told(w, u, x, v) ==
    /\ Shaped(u) /\ Same(w, u, {"own", "retained"})
    /\ \A m \in Managed :
         IF m \in Dependents(w, x)
         THEN /\ u.own[m].avail = TRUE /\ u.own[m].value = v
              /\ SameOwn(w, u, m, {"avail", "value", "retry"})
              /\ IF v # None /\ w.own[m].period # "off"
                 THEN \/ u.retained[m] = v
                      \/ u.retained[m] = w.retained[m] /\ u.own[m].retry = TRUE
                 ELSE u.retained[m] = w.retained[m]
         ELSE SameOwn(w, u, m, {}) /\ u.retained[m] = w.retained[m]
Lost(w, u, x) ==
    /\ Shaped(u) /\ Same(w, u, {"own", "retained"})
    /\ \A m \in Managed :
         IF m \in Dependents(w, x)
         THEN /\ u.own[m].avail = FALSE
              /\ SameOwn(w, u, m, {"avail", "pending", "retry"})
              /\ \/ u.retained[m] = None /\ u.own[m].pending = FALSE
                 \/ u.own[m].pending = TRUE
         ELSE SameOwn(w, u, m, {}) /\ u.retained[m] = w.retained[m]

LEMMA PropagateIs ==
    ASSUME NEW w, Shaped(w), NEW x, NEW v, NEW u \in Propagate(w, x, v)
    PROVE  Told(w, u, x, v)
<1> DEFINE D == Dependents(w, x)
           f == [m \in Managed |-> IF m \in D THEN [w.own[m] EXCEPT !.avail = TRUE, !.value = v] ELSE w.own[m]]
           t == [w EXCEPT !.own = f]
<1>1. u \in PublishStates(t, D)
  BY DEF Propagate, OnOwn
<1>2. D \in SUBSET Managed
  BY DEF Dependents
<1>3. \A m \in Managed : /\ DOMAIN f[m] = OwnFields
                         /\ m \in D => /\ f[m].avail = TRUE /\ f[m].value = v
                                       /\ \A g \in OwnFields \ {"avail", "value"} : f[m][g] = w.own[m][g]
                         /\ m \notin D => \A g \in OwnFields : f[m][g] = w.own[m][g]
  BY DEF Shaped, OwnFields
<1>4. DOMAIN f = Managed
  OBVIOUS
<1> HIDE DEF f
<1>5. Shaped(t) /\ Same(w, t, {"own"}) /\ t.own = f
  BY <1>3, <1>4, WithOwn
<1> HIDE DEF t
<1> HIDE DEF D
<1>6. Published(t, u, D)
  BY <1>1, <1>2, <1>5, PublishStatesIs
<1>7. Shaped(u) /\ Same(w, u, {"own", "retained"}) /\ t.retained = w.retained
  BY <1>5, <1>6 DEF Published, Same, NetFields
<1>8. ASSUME NEW m \in Managed, m \in D
      PROVE  /\ u.own[m].avail = TRUE /\ u.own[m].value = v
             /\ SameOwn(w, u, m, {"avail", "value", "retry"})
             /\ IF v # None /\ w.own[m].period # "off"
                THEN \/ u.retained[m] = v
                     \/ u.retained[m] = w.retained[m] /\ u.own[m].retry = TRUE
                ELSE u.retained[m] = w.retained[m]
  <2>1. SameOwn(t, u, m, {"retry"})
    BY <1>6 DEF Published
  <2>2. t.own[m].avail = TRUE /\ t.own[m].value = v /\ t.own[m].period = w.own[m].period
    BY <1>3, <1>5, <1>8 DEF OwnFields
  <2>3. u.own[m].avail = TRUE /\ u.own[m].value = v /\ SameOwn(w, u, m, {"avail", "value", "retry"})
    BY <1>3, <1>5, <1>8, <2>1, <2>2 DEF SameOwn, OwnFields
  <2>4. Offered(t.own[m]) <=> v # None /\ w.own[m].period # "off"
    BY <2>2 DEF Offered
  <2> QED BY <1>6, <1>7, <1>8, <2>2, <2>3, <2>4 DEF Published
<1>9. ASSUME NEW m \in Managed, m \notin D
      PROVE  SameOwn(w, u, m, {}) /\ u.retained[m] = w.retained[m]
  <2>1. SameOwn(t, u, m, {"retry"}) /\ u.own[m].retry = t.own[m].retry /\ u.retained[m] = t.retained[m]
    BY <1>6, <1>9 DEF Published
  <2> QED BY <1>3, <1>5, <1>7, <1>9, <2>1 DEF SameOwn, OwnFields
<1> QED BY <1>7, <1>8, <1>9 DEF Told, D

LEMMA WithdrawFromDependentsIs ==
    ASSUME NEW w, Shaped(w), NEW x, NEW u \in WithdrawFromDependents(w, x)
    PROVE  Lost(w, u, x)
<1> DEFINE D == Dependents(w, x)
           f == [m \in Managed |-> IF m \in D THEN [w.own[m] EXCEPT !.avail = FALSE] ELSE w.own[m]]
           t == [w EXCEPT !.own = f]
<1>1. u \in WithdrawStates(t, D)
  BY DEF WithdrawFromDependents, OnOwn
<1>2. D \in SUBSET Managed
  BY DEF Dependents
<1>3. \A m \in Managed : /\ DOMAIN f[m] = OwnFields
                         /\ m \in D => /\ f[m].avail = FALSE
                                       /\ \A g \in OwnFields \ {"avail"} : f[m][g] = w.own[m][g]
                         /\ m \notin D => \A g \in OwnFields : f[m][g] = w.own[m][g]
  BY DEF Shaped, OwnFields
<1>4. DOMAIN f = Managed
  OBVIOUS
<1> HIDE DEF f
<1>5. Shaped(t) /\ Same(w, t, {"own"}) /\ t.own = f
  BY <1>3, <1>4, WithOwn
<1> HIDE DEF t
<1> HIDE DEF D
<1>6. Withdrawn(t, u, D)
  BY <1>1, <1>2, <1>5, WithdrawStatesIs
<1>7. Shaped(u) /\ Same(w, u, {"own", "retained"}) /\ t.retained = w.retained
  BY <1>5, <1>6 DEF Withdrawn, Same, NetFields
<1>8. ASSUME NEW m \in Managed, m \in D
      PROVE  /\ u.own[m].avail = FALSE
             /\ SameOwn(w, u, m, {"avail", "pending", "retry"})
             /\ \/ u.retained[m] = None /\ u.own[m].pending = FALSE
                \/ u.own[m].pending = TRUE
  <2>1. SameOwn(t, u, m, {"pending", "retry"})
    BY <1>6 DEF Withdrawn
  <2>2. u.own[m].avail = FALSE /\ SameOwn(w, u, m, {"avail", "pending", "retry"})
    BY <1>3, <1>5, <1>8, <2>1 DEF SameOwn, OwnFields
  <2> QED BY <1>6, <1>8, <2>2 DEF Withdrawn
<1>9. ASSUME NEW m \in Managed, m \notin D
      PROVE  SameOwn(w, u, m, {}) /\ u.retained[m] = w.retained[m]
  <2>1. SameOwn(t, u, m, {}) /\ u.retained[m] = t.retained[m]
    BY <1>6, <1>9 DEF Withdrawn
  <2> QED BY <1>3, <1>5, <1>7, <1>9, <2>1 DEF SameOwn, OwnFields
<1> QED BY <1>7, <1>8, <1>9 DEF Lost, D

-------------------------------------------------------------------------------
(* The inductive invariant of mirrors and subscriptions.                        *)

\* d is as its source is.
Agrees(w, d) ==
    LET s == Mirrors[d] IN
    s # None /\ w.own[d].avail /\ w.own[d].value # None =>
        /\ s \in w.bound
        /\ s \in Managed => w.own[s].avail /\ w.own[s].value = w.own[d].value
        /\ s \in Remote => w.remote[s].avail /\ w.remote[s].value = w.own[d].value
AgreesBut(w, x) == \A d \in w.bound \cap Managed : Mirrors[d] # x => Agrees(w, d)
MirrorsOK(w) == \A d \in w.bound \cap Managed : Agrees(w, d)

\* No two values in use have one source, and only a RemoteState asks for a value.
Unique(w) == \A r, q \in Sourced(w) : w.src[r] = w.src[q] => r = q
WishesOK(w) == \A r \in Remote \ States : w.remote[r].wish = None

Needed(w) == {StateTopic(w.src[r]) : r \in Sourced(w)} \cup {ManifestTopic(w.src[r][1]) : r \in Sourced(w)}

LinksOK(w) == Unique(w) /\ WishesOK(w) /\ (online => w.subs = Needed(w)) /\ (~online => w.subs = {})
NetOK(w) == Shaped(w) /\ MirrorsOK(w) /\ LinksOK(w)

\* What the invariant does not look at.
SameOf(w, u) ==
    /\ \A m \in Managed : u.own[m].avail = w.own[m].avail /\ u.own[m].value = w.own[m].value
    /\ \A r \in Remote : u.remote[r].avail = w.remote[r].avail /\ u.remote[r].value = w.remote[r].value
                         /\ u.remote[r].wish = w.remote[r].wish
Quiet(w, u) ==
    /\ u.bound = w.bound /\ u.src = w.src /\ u.subs = w.subs /\ SameOf(w, u)

LEMMA QuietOK ==
    ASSUME NEW w, NetOK(w), NEW u, Shaped(u), Quiet(w, u)
    PROVE  NetOK(u)
<1>1. MirrorsOK(u)
  BY DEF NetOK, MirrorsOK, Agrees, Quiet, SameOf
<1>2. Sourced(u) = Sourced(w) /\ Needed(u) = Needed(w)
  BY DEF Quiet, Sourced, Needed
<1>3. WishesOK(u)
  BY DEF NetOK, LinksOK, WishesOK, Quiet, SameOf
<1>4. Unique(u)
  BY <1>2 DEF NetOK, LinksOK, Unique, Quiet
<1> QED BY <1>1, <1>2, <1>3, <1>4 DEF NetOK, LinksOK, Quiet

LEMMA LinksStay ==
    ASSUME NEW w, LinksOK(w), NEW u, NEW F, Same(w, u, F), F \subseteq NetFields \ {"bound", "src", "subs", "remote"}
    PROVE  LinksOK(u)
<1>1. u.bound = w.bound /\ u.src = w.src /\ u.subs = w.subs /\ u.remote = w.remote
  BY DEF Same, NetFields
<1>2. Sourced(u) = Sourced(w) /\ Needed(u) = Needed(w)
  BY <1>1 DEF Sourced, Needed
<1> QED BY <1>1, <1>2 DEF LinksOK, Unique, WishesOK

LEMMA LostOK ==
    ASSUME NEW w, Shaped(w), NEW x, x # None, AgreesBut(w, x), NEW u, Lost(w, u, x)
    PROVE  MirrorsOK(u)
<1> SUFFICES ASSUME NEW d \in w.bound \cap Managed PROVE Agrees(u, d)
  BY DEF MirrorsOK, Lost, Same, NetFields
<1>1. u.bound = w.bound /\ u.remote = w.remote
  BY DEF Lost, Same, NetFields
<1>2. CASE Mirrors[d] = x
  BY <1>2 DEF Lost, Agrees, Dependents
<1>3. CASE Mirrors[d] # x
  <2>1. u.own[d].avail = w.own[d].avail /\ u.own[d].value = w.own[d].value
    BY <1>3 DEF Lost, Dependents, SameOwn, OwnFields
  <2>2. Agrees(w, d)
    BY <1>3 DEF AgreesBut
  <2>3. ASSUME Mirrors[d] # None, Mirrors[d] \in Managed
        PROVE  u.own[Mirrors[d]].avail = w.own[Mirrors[d]].avail /\ u.own[Mirrors[d]].value = w.own[Mirrors[d]].value
    <3>1. Mirrors[d] \notin Dependents(w, x)
      BY <2>3, MirrorAssumption DEF Dependents
    <3> QED BY <2>3, <3>1 DEF Lost, SameOwn, OwnFields
  <2> QED BY <1>1, <2>1, <2>2, <2>3 DEF Agrees
<1> QED BY <1>2, <1>3

LEMMA ToldOK ==
    ASSUME NEW w, Shaped(w), NEW x \in w.bound, x # None, AgreesBut(w, x), NEW v, NEW u, Told(w, u, x, v),
           x \in Managed => w.own[x].avail /\ w.own[x].value = v,
           x \in Remote => w.remote[x].avail /\ (w.remote[x].value = v \/ x \in States)
    PROVE  MirrorsOK(u)
<1> SUFFICES ASSUME NEW d \in w.bound \cap Managed PROVE Agrees(u, d)
  BY DEF MirrorsOK, Told, Same, NetFields
<1>1. u.bound = w.bound /\ u.remote = w.remote
  BY DEF Told, Same, NetFields
<1>2. ASSUME Mirrors[d] # None, Mirrors[d] \in Managed
      PROVE  u.own[Mirrors[d]].avail = w.own[Mirrors[d]].avail /\ u.own[Mirrors[d]].value = w.own[Mirrors[d]].value
  <2>1. Mirrors[d] \notin Dependents(w, x)
    BY <1>2, MirrorAssumption DEF Dependents
  <2> QED BY <1>2, <2>1 DEF Told, SameOwn, OwnFields
<1>3. CASE Mirrors[d] = x
  <2>1. u.own[d].avail = TRUE /\ u.own[d].value = v
    BY <1>3 DEF Told, Dependents
  <2>2. x \notin States
    BY <1>3, MirrorAssumption
  <2> QED BY <1>1, <1>2, <1>3, <2>1, <2>2 DEF Agrees
<1>4. CASE Mirrors[d] # x
  <2>1. u.own[d].avail = w.own[d].avail /\ u.own[d].value = w.own[d].value
    BY <1>4 DEF Told, Dependents, SameOwn, OwnFields
  <2>2. Agrees(w, d)
    BY <1>4 DEF AgreesBut
  <2> QED BY <1>1, <1>2, <2>1, <2>2 DEF Agrees
<1> QED BY <1>3, <1>4

LEMMA MirrorsBut ==
    ASSUME NEW w, MirrorsOK(w), NEW x
    PROVE  AgreesBut(w, x)
BY DEF MirrorsOK, AgreesBut

-------------------------------------------------------------------------------
(* The calls that the invariant does not look at.                              *)

LEMMA PublishedQuiet ==
    ASSUME NEW w, NetOK(w), NEW S, NEW u, Published(w, u, S)
    PROVE  NetOK(u)
<1>1. Quiet(w, u)
  BY DEF Published, Same, NetFields, SameOwn, OwnFields, Quiet, SameOf
<1> QED BY <1>1, QuietOK DEF Published

LEMMA WithdrawnQuiet ==
    ASSUME NEW w, NetOK(w), NEW S, NEW u, Withdrawn(w, u, S)
    PROVE  NetOK(u)
<1>1. Quiet(w, u)
  BY DEF Withdrawn, Same, NetFields, SameOwn, OwnFields, Quiet, SameOf
<1> QED BY <1>1, QuietOK DEF Withdrawn

LEMMA ManifestIs ==
    ASSUME NEW w, Shaped(w), NEW u \in PublishManifest(w)
    PROVE  /\ Shaped(u) /\ Same(w, u, {"dirty", "manifest"})
           /\ \/ u.dirty = FALSE /\ u.manifest = Manifest(w) /\ online
              \/ u.dirty = TRUE
<1>1. PICK ok \in Taken : u = IF ok THEN [w EXCEPT !.dirty = FALSE, !.manifest = Manifest(w)]
                              ELSE [w EXCEPT !.dirty = TRUE]
  BY DEF PublishManifest
<1>2. CASE ok
  <2>1. DOMAIN u = NetFields /\ Same(w, u, {"dirty", "manifest"}) /\ u.dirty = FALSE /\ u.manifest = Manifest(w)
    BY <1>1, <1>2 DEF Shaped, NetFields, Same
  <2>2. Shaped(u)
    BY <2>1 DEF Shaped, Same, NetFields
  <2> QED BY <1>2, <2>1, <2>2 DEF Taken
<1>3. CASE ~ok
  <2>1. DOMAIN u = NetFields /\ Same(w, u, {"dirty", "manifest"}) /\ u.dirty = TRUE
    BY <1>1, <1>3 DEF Shaped, NetFields, Same
  <2>2. Shaped(u)
    BY <2>1 DEF Shaped, Same, NetFields
  <2> QED BY <2>1, <2>2
<1> QED BY <1>2, <1>3

\* Fields that the invariant does not look at.
Silent == {"dirty", "loaded", "ok", "policy", "sources", "kept", "retained", "manifest", "theirs", "inbox"}

LEMMA SilentOK ==
    ASSUME NEW w, NetOK(w), NEW u, Shaped(u), NEW F \in SUBSET Silent, Same(w, u, F)
    PROVE  NetOK(u)
<1>1. Quiet(w, u)
  BY DEF Same, NetFields, Silent, Quiet, SameOf
<1> QED BY <1>1, QuietOK

LEMMA PublishManifestOK ==
    ASSUME NEW w, NetOK(w), NEW u \in PublishManifest(w)
    PROVE  NetOK(u)
BY ManifestIs, SilentOK DEF Silent, NetOK

\* One field of one value is set.
Puts(w, t, m, g, v) ==
    /\ Shaped(t) /\ Same(w, t, {"own"})
    /\ t.own[m][g] = v /\ SameOwn(w, t, m, {g})
    /\ \A k \in Managed \ {m} : SameOwn(w, t, k, {})

LEMMA OwnPuts ==
    ASSUME NEW w, Shaped(w), NEW m \in Managed, NEW g \in OwnFields, NEW v
    PROVE  Puts(w, [w EXCEPT !.own[m][g] = v], m, g, v)
<1> DEFINE f == [w.own EXCEPT ![m] = [w.own[m] EXCEPT ![g] = v]]
<1>1. [w EXCEPT !.own[m][g] = v] = [w EXCEPT !.own = f]
  BY DEF Shaped, NetFields
<1>2. DOMAIN f = Managed /\ \A k \in Managed : DOMAIN f[k] = OwnFields
  BY DEF Shaped
<1>3. f[m][g] = v /\ (\A h \in OwnFields \ {g} : f[m][h] = w.own[m][h])
      /\ \A k \in Managed \ {m} : f[k] = w.own[k]
  BY DEF Shaped
<1> HIDE DEF f
<1> DEFINE t == [w EXCEPT !.own = f]
<1>4. Shaped(t) /\ Same(w, t, {"own"}) /\ t.own = f
  BY <1>2, WithOwn
<1> HIDE DEF t
<1>5. Puts(w, t, m, g, v)
  BY <1>3, <1>4 DEF Puts, SameOwn
<1> QED BY <1>1, <1>5 DEF t

\* The policies that were stored are in force for some of S.
Retuned(w, u, S) ==
    /\ Shaped(u) /\ Same(w, u, {"own", "policy", "ok"})
    /\ \A m \in Managed :
         \/ SameOwn(w, u, m, {})
         \/ /\ m \in S \cap Tuned /\ SameOwn(w, u, m, {"period", "poll", "pending"})
            /\ u.own[m].pending = (u.own[m].period = "off")

LEMMA RestoredIs ==
    ASSUME NEW w, Shaped(w), NEW S
    PROVE  Retuned(w, Restored(w, S), S) /\ Same(w, Restored(w, S), {"own"})
<1> DEFINE period(m) == IF w.policy[m].period = None THEN "often" ELSE w.policy[m].period
           poll(m)   == IF w.policy[m].poll = None THEN w.own[m].poll ELSE w.policy[m].poll
           kept == {m \in S \cap Tuned : w.policy[m] # None}
           f == [m \in Managed |-> IF m \in kept
                   THEN [w.own[m] EXCEPT !.period = period(m), !.poll = poll(m), !.pending = (period(m) = "off")]
                   ELSE w.own[m]]
           u == [w EXCEPT !.own = f]
<1>1. Restored(w, S) = u
  BY DEF Restored, OnOwn
<1>2. kept \subseteq S \cap Tuned
  OBVIOUS
<1> HIDE DEF period, poll, kept
<1>3. DOMAIN f = Managed /\ \A m \in Managed : DOMAIN f[m] = OwnFields
  BY DEF Shaped
<1>4. \A m \in Managed : /\ m \notin kept => \A h \in OwnFields : f[m][h] = w.own[m][h]
                         /\ m \in kept => /\ \A h \in OwnFields \ {"period", "poll", "pending"} : f[m][h] = w.own[m][h]
                                          /\ f[m].period = period(m) /\ f[m].pending = (period(m) = "off")
  BY DEF Shaped, OwnFields
<1> HIDE DEF f
<1>5. Shaped(u) /\ Same(w, u, {"own"}) /\ u.own = f
  BY <1>3, WithOwn
<1> HIDE DEF u
<1>6. Same(w, u, {"own", "policy", "ok"})
  BY <1>5 DEF Same
<1>7. \A m \in Managed :
         \/ SameOwn(w, u, m, {})
         \/ /\ m \in S \cap Tuned /\ SameOwn(w, u, m, {"period", "poll", "pending"})
            /\ u.own[m].pending = (u.own[m].period = "off")
  BY <1>2, <1>4, <1>5 DEF SameOwn
<1> QED BY <1>1, <1>5, <1>6, <1>7 DEF Retuned

LEMMA OtherFields ==
    ASSUME NEW w, Shaped(w), NEW u, DOMAIN u = NetFields, NEW F, Same(w, u, F),
           F \subseteq NetFields \ {"own", "remote", "src", "retained"}
    PROVE  Shaped(u)
BY DEF Shaped, Same, NetFields

LEMMA CorrectedIs ==
    ASSUME NEW w, Shaped(w), NEW S
    PROVE  Shaped(Corrected(w, S)) /\ Same(w, Corrected(w, S), {"policy"})
<1>1. DOMAIN Corrected(w, S) = NetFields /\ Same(w, Corrected(w, S), {"policy"})
  BY DEF Corrected, Shaped, NetFields, Same
<1> QED BY <1>1, OtherFields DEF NetFields

LEMMA OkIs ==
    ASSUME NEW w, Shaped(w), NEW b
    PROVE  Shaped([w EXCEPT !.ok = b]) /\ Same(w, [w EXCEPT !.ok = b], {"ok"}) /\ [w EXCEPT !.ok = b].ok = b
<1> DEFINE u == [w EXCEPT !.ok = b]
<1>1. DOMAIN u = NetFields /\ Same(w, u, {"ok"}) /\ u.ok = b
  BY DEF Shaped, NetFields, Same
<1>2. Shaped(u)
  <2> HIDE DEF u
  <2> QED BY <1>1, OtherFields DEF NetFields
<1> QED BY <1>1, <1>2

LEMMA RestoreIs ==
    ASSUME NEW w, Shaped(w), NEW S, NEW u \in Restore(w, S)
    PROVE  Retuned(w, u, S)
<1> DEFINE read == Restored(w, S)
           c == Corrected(read, S)
<1>1. \/ u = [c EXCEPT !.ok = TRUE]
      \/ u = [w EXCEPT !.ok = FALSE]
      \/ u = [read EXCEPT !.ok = FALSE]
  BY DEF Restore
<1>2. Retuned(w, read, S) /\ Same(w, read, {"own"})
  BY RestoredIs
<1> HIDE DEF read
<1>3. Shaped(c) /\ Same(read, c, {"policy"})
  BY <1>2, CorrectedIs DEF Retuned
<1> HIDE DEF c
<1>4. CASE u = [c EXCEPT !.ok = TRUE]
  <2>1. Shaped(u) /\ Same(c, u, {"ok"})
    BY <1>3, <1>4, OkIs
  <2> QED BY <1>2, <1>3, <2>1 DEF Retuned, Same, NetFields, SameOwn
<1>5. CASE u = [w EXCEPT !.ok = FALSE]
  <2>1. Shaped(u) /\ Same(w, u, {"ok"})
    BY <1>5, OkIs
  <2> QED BY <2>1 DEF Retuned, Same, NetFields, SameOwn
<1>6. CASE u = [read EXCEPT !.ok = FALSE]
  <2>1. Shaped(u) /\ Same(read, u, {"ok"})
    BY <1>2, <1>6, OkIs DEF Retuned
  <2> QED BY <1>2, <2>1 DEF Retuned, Same, NetFields, SameOwn
<1> QED BY <1>1, <1>4, <1>5, <1>6

LEMMA RetunedQuiet ==
    ASSUME NEW w, NetOK(w), NEW S, NEW u, Retuned(w, u, S)
    PROVE  NetOK(u)
<1>1. Quiet(w, u)
  BY DEF Retuned, Same, NetFields, SameOwn, OwnFields, Quiet, SameOf
<1> QED BY <1>1, QuietOK DEF Retuned

LEMMA LoadSettingsIs ==
    ASSUME NEW w, Shaped(w), NEW u \in LoadSettings(w)
    PROVE  \E t : Retuned(w, t, w.bound \cap Managed) /\ Shaped(u) /\ Same(t, u, {"loaded", "ok"})
<1>1. PICK t \in Restore(w, w.bound \cap Managed) : u = [t EXCEPT !.loaded = t.ok, !.ok = TRUE]
  BY DEF LoadSettings
<1>2. Retuned(w, t, w.bound \cap Managed)
  BY RestoreIs
<1>3. DOMAIN u = NetFields /\ Same(t, u, {"loaded", "ok"})
  BY <1>1, <1>2 DEF Retuned, Shaped, NetFields, Same
<1> QED BY <1>2, <1>3, OtherFields DEF NetFields, Retuned

\* The policy of m is p in t, and told to the broker or not.
Adopted(w, t, m, p) ==
    /\ Shaped(t) /\ Same(w, t, {"own", "policy", "dirty", "manifest"})
    /\ t.own[m].period = p /\ SameOwn(w, t, m, {"period"})
    /\ \A k \in Managed \ {m} : SameOwn(w, t, k, {})
    /\ t.dirty = TRUE \/ (t.dirty = FALSE /\ t.manifest = Manifest(t))

LEMMA ManifestSame ==
    ASSUME NEW w, NEW u, u.bound = w.bound,
           \A m \in Managed : u.own[m].period = w.own[m].period /\ u.own[m].poll = w.own[m].poll
    PROVE  Manifest(u) = Manifest(w)
BY DEF Manifest

LEMMA AdoptedIs ==
    ASSUME NEW w, Shaped(w), NEW m \in Managed, NEW p, NEW t, NEW s,
           DOMAIN s = NetFields, Same(w, s, {"policy"}), t \in PublishManifest([s EXCEPT !.own[m].period = p])
    PROVE  Adopted(w, t, m, p)
<1>1. Shaped(s) /\ s.own = w.own
  BY OtherFields DEF NetFields, Same
<1> DEFINE q == [s EXCEPT !.own[m].period = p]
<1>2. Puts(s, q, m, "period", p)
  BY <1>1, OwnPuts DEF OwnFields
<1> HIDE DEF q
<1>3. /\ Shaped(t) /\ Same(q, t, {"dirty", "manifest"})
      /\ t.dirty = TRUE \/ (t.dirty = FALSE /\ t.manifest = Manifest(q))
  BY <1>2, ManifestIs DEF Puts, q
<1>4. t.bound = q.bound /\ t.own = q.own
  BY <1>3 DEF Same, NetFields
<1>5. Manifest(t) = Manifest(q)
  BY <1>4, ManifestSame
<1>6. Same(w, t, {"own", "policy", "dirty", "manifest"})
  BY <1>2, <1>3 DEF Same, NetFields, Puts
<1> QED BY <1>1, <1>2, <1>3, <1>4, <1>5, <1>6 DEF Adopted, Puts, SameOwn

LEMMA SetAdvertisementPolicyIs ==
    ASSUME NEW w, Shaped(w), NEW m \in Managed, NEW p, NEW u \in SetAdvertisementPolicy(w, m, p)
    PROVE  \/ u = w
           \/ \E t : /\ Adopted(w, t, m, p)
                     /\ \/ p = "off" /\ Withdrawn(t, u, {m})
                        \/ p # "off" /\ \E v : /\ Puts(t, v, m, "pending", FALSE)
                                               /\ \/ w.own[m].period = "off" /\ Published(v, u, {m})
                                                  \/ w.own[m].period # "off" /\ u = v
<1> DEFINE s == [w EXCEPT !.policy[m] = [Recorded(w, m) EXCEPT !.period = p]]
<1>1. DOMAIN s = NetFields /\ Same(w, s, {"policy"})
  BY DEF Shaped, NetFields, Same
<1>2. u = w \/ \E t \in PublishManifest([s EXCEPT !.own[m].period = p]) :
         \/ p = "off" /\ u \in WithdrawState(t, m)
         \/ p # "off" /\ u \in IF w.own[m].period = "off" THEN PublishState([t EXCEPT !.own[m].pending = FALSE], m)
                               ELSE {[t EXCEPT !.own[m].pending = FALSE]}
  BY DEF SetAdvertisementPolicy
<1> HIDE DEF s
<1> SUFFICES ASSUME NEW t \in PublishManifest([s EXCEPT !.own[m].period = p]),
                    \/ p = "off" /\ u \in WithdrawState(t, m)
                    \/ p # "off" /\ u \in IF w.own[m].period = "off" THEN PublishState([t EXCEPT !.own[m].pending = FALSE], m)
                                          ELSE {[t EXCEPT !.own[m].pending = FALSE]}
             PROVE  /\ Adopted(w, t, m, p)
                    /\ \/ p = "off" /\ Withdrawn(t, u, {m})
                       \/ p # "off" /\ \E v : /\ Puts(t, v, m, "pending", FALSE)
                                              /\ \/ w.own[m].period = "off" /\ Published(v, u, {m})
                                                 \/ w.own[m].period # "off" /\ u = v
  BY <1>2
<1>3. Adopted(w, t, m, p)
  BY <1>1, AdoptedIs
<1>4. Shaped(t) /\ {m} \in SUBSET Managed
  BY <1>3 DEF Adopted
<1> DEFINE v == [t EXCEPT !.own[m].pending = FALSE]
<1>5. Puts(t, v, m, "pending", FALSE)
  BY <1>4, OwnPuts DEF OwnFields
<1> HIDE DEF v
<1>6. CASE p = "off"
  BY <1>3, <1>4, <1>6, WithdrawStatesIs DEF WithdrawState
<1>7. CASE p # "off"
  <2>1. u \in IF w.own[m].period = "off" THEN PublishStates(v, {m}) ELSE {v}
    BY <1>7 DEF v, PublishState
  <2>2. CASE w.own[m].period = "off"
    <3>1. Published(v, u, {m})
      BY <1>4, <1>5, <2>1, <2>2, PublishStatesIs DEF Puts
    <3> QED BY <1>3, <1>5, <1>7, <2>2, <3>1
  <2>3. CASE w.own[m].period # "off"
    BY <1>3, <1>5, <1>7, <2>1, <2>3
  <2> QED BY <2>2, <2>3
<1> QED BY <1>6, <1>7

LEMMA PutsQuiet ==
    ASSUME NEW w, NetOK(w), NEW m \in Managed, NEW g \in {"period", "poll", "pending", "retry"}, NEW v,
           NEW u, Puts(w, u, m, g, v)
    PROVE  NetOK(u)
<1>1. \A k \in Managed : u.own[k].avail = w.own[k].avail /\ u.own[k].value = w.own[k].value
  BY DEF Puts, SameOwn, OwnFields
<1>2. Quiet(w, u)
  BY <1>1 DEF Puts, Same, NetFields, Quiet, SameOf
<1> QED BY <1>2, QuietOK DEF Puts

LEMMA SetAdvertisementPolicyOK ==
    ASSUME NEW w, NetOK(w), NEW m \in Managed, NEW p, NEW u \in SetAdvertisementPolicy(w, m, p)
    PROVE  NetOK(u)
<1>1. CASE u = w
  BY <1>1
<1>2. ASSUME NEW t, Adopted(w, t, m, p),
             \/ p = "off" /\ Withdrawn(t, u, {m})
             \/ p # "off" /\ \E v : /\ Puts(t, v, m, "pending", FALSE)
                                    /\ \/ w.own[m].period = "off" /\ Published(v, u, {m})
                                       \/ w.own[m].period # "off" /\ u = v
      PROVE  NetOK(u)
  <2>1. NetOK(t)
    <3>1. \A k \in Managed : t.own[k].avail = w.own[k].avail /\ t.own[k].value = w.own[k].value
      BY <1>2 DEF Adopted, SameOwn, OwnFields
    <3>2. Quiet(w, t)
      BY <1>2, <3>1 DEF Adopted, Same, NetFields, Quiet, SameOf
    <3> QED BY <1>2, <3>2, QuietOK DEF Adopted
  <2>2. ASSUME NEW v, Puts(t, v, m, "pending", FALSE)
        PROVE  NetOK(v)
    BY <2>1, <2>2, PutsQuiet
  <2> QED BY <1>2, <2>1, <2>2, WithdrawnQuiet, PublishedQuiet
<1> QED BY <1>1, <1>2, SetAdvertisementPolicyIs DEF NetOK

\* A poll policy is told to the broker as well.
Polled(w, t, m) ==
    /\ Shaped(t) /\ Same(w, t, {"own", "policy", "dirty", "manifest"})
    /\ SameOwn(w, t, m, {"poll"}) /\ \A k \in Managed \ {m} : SameOwn(w, t, k, {})
    /\ t.dirty = TRUE \/ (t.dirty = FALSE /\ t.manifest = Manifest(t))

LEMMA SetPollIs ==
    ASSUME NEW w, Shaped(w), NEW m \in Managed, NEW q, NEW u \in SetPoll(w, m, q)
    PROVE  u = w \/ Polled(w, u, m)
<1> DEFINE s == IF q = "default"
                THEN [w EXCEPT !.policy[m] = IF @ = None THEN @ ELSE [@ EXCEPT !.poll = None]]
                ELSE [w EXCEPT !.policy[m] = [Recorded(w, m) EXCEPT !.poll = q]]
           x == [s EXCEPT !.own[m].poll = q]
<1>1. DOMAIN s = NetFields /\ Same(w, s, {"policy"})
  <2>1. CASE q = "default"
    BY <2>1 DEF Shaped, NetFields, Same
  <2>2. CASE q # "default"
    BY <2>2 DEF Shaped, NetFields, Same
  <2> QED BY <2>1, <2>2
<1>2. u = w \/ u \in PublishManifest(x)
  BY DEF SetPoll
<1> HIDE DEF s
<1>3. Shaped(s) /\ s.own = w.own
  BY <1>1, OtherFields DEF NetFields, Same
<1>4. Puts(s, x, m, "poll", q)
  BY <1>3, OwnPuts DEF OwnFields
<1> HIDE DEF x
<1>5. ASSUME u \in PublishManifest(x)
      PROVE  Polled(w, u, m)
  <2>1. /\ Shaped(u) /\ Same(x, u, {"dirty", "manifest"})
        /\ u.dirty = TRUE \/ (u.dirty = FALSE /\ u.manifest = Manifest(x))
    BY <1>4, <1>5, ManifestIs DEF Puts
  <2>2. u.bound = x.bound /\ u.own = x.own
    BY <2>1 DEF Same, NetFields
  <2>3. Manifest(u) = Manifest(x)
    BY <2>2, ManifestSame
  <2>4. Same(w, u, {"own", "policy", "dirty", "manifest"})
    BY <1>1, <1>4, <2>1 DEF Same, NetFields, Puts
  <2> QED BY <1>3, <1>4, <2>1, <2>2, <2>3, <2>4 DEF Polled, Puts, SameOwn
<1> QED BY <1>2, <1>5

LEMMA SetPollOK ==
    ASSUME NEW w, NetOK(w), NEW m \in Managed, NEW q, NEW u \in SetPoll(w, m, q)
    PROVE  NetOK(u)
<1>1. ASSUME Polled(w, u, m)
      PROVE  NetOK(u)
  <2>1. \A k \in Managed : u.own[k].avail = w.own[k].avail /\ u.own[k].value = w.own[k].value
    BY <1>1 DEF Polled, SameOwn, OwnFields
  <2>2. Quiet(w, u)
    BY <1>1, <2>1 DEF Polled, Same, NetFields, Quiet, SameOf
  <2> QED BY <1>1, <2>2, QuietOK DEF Polled
<1> QED BY <1>1, SetPollIs DEF NetOK

LEMMA InspectOK ==
    ASSUME NEW w, NetOK(w), NEW m \in Managed, NEW u \in Inspect(w, m)
    PROVE  NetOK(u)
<1>1. {m} \in SUBSET Managed /\ Shaped(w)
  BY DEF NetOK
<1>2. u = w \/ u \in PublishStates(w, {m}) \/ u \in WithdrawStates(w, {m})
  BY DEF Inspect, PublishState, WithdrawState
<1> QED BY <1>1, <1>2, PublishStatesIs, WithdrawStatesIs, PublishedQuiet, WithdrawnQuiet

LEMMA PublishResourceStatesOK ==
    ASSUME NEW w, NetOK(w), NEW u \in PublishResourceStates(w)
    PROVE  NetOK(u)
<1>1. Published(w, u, w.bound \cap Managed)
  BY PublishStatesIs DEF PublishResourceStates, NetOK
<1> QED BY <1>1, PublishedQuiet

-------------------------------------------------------------------------------
(* The calls that change what mirrors see.                                     *)

\* m is bound as well, and its value published.
LEMMA BoundMore ==
    ASSUME NEW w, NetOK(w), NEW m \in Managed, Mirrors[m] = None,
           NEW u, Shaped(u), Same(w, u, {"bound"}), u.bound = w.bound \cup {m}
    PROVE  NetOK(u)
<1>1. u.own = w.own /\ u.remote = w.remote /\ u.src = w.src /\ u.subs = w.subs
  BY DEF Same, NetFields
<1>2. MirrorsOK(u)
  BY <1>1 DEF MirrorsOK, Agrees, NetOK
<1>3. Sourced(u) = Sourced(w)
  BY <1>1, ManagedAssumption DEF Sourced
<1>4. Needed(u) = Needed(w)
  BY <1>1, <1>3 DEF Needed
<1>5. LinksOK(u)
  BY <1>1, <1>3, <1>4 DEF NetOK, LinksOK, Unique, WishesOK
<1> QED BY <1>2, <1>5 DEF NetOK

LEMMA BoundIs ==
    ASSUME NEW w, Shaped(w), NEW B
    PROVE  /\ Shaped([w EXCEPT !.bound = B]) /\ Same(w, [w EXCEPT !.bound = B], {"bound"})
           /\ [w EXCEPT !.bound = B].bound = B
<1> DEFINE u == [w EXCEPT !.bound = B]
<1>1. DOMAIN u = NetFields /\ Same(w, u, {"bound"}) /\ u.bound = B
  BY DEF Shaped, NetFields, Same
<1>2. Shaped(u)
  <2> HIDE DEF u
  <2> QED BY <1>1, OtherFields DEF NetFields
<1> QED BY <1>1, <1>2

\* What bindResource() leaves, after the policies were read or not.
Bindings(w, u, m) ==
    \E b, v : /\ Shaped(b) /\ Same(w, b, {"bound"}) /\ b.bound = w.bound \cup {m}
              /\ v \in PublishManifest(b) /\ u \in PublishState(v, m)

LEMMA BindManagedIs ==
    ASSUME NEW w, Shaped(w), NEW m \in Managed, NEW u \in BindManaged(w, m)
    PROVE  \E t : /\ Retuned(w, t, {m})
                  /\ u = t \/ Bindings(t, u, m)
<1> DEFINE bind(t) == UNION {PublishState(v, m) : v \in PublishManifest([t EXCEPT !.bound = @ \cup {m}])}
<1>1. ASSUME NEW t, Shaped(t), u \in bind(t)
      PROVE  Bindings(t, u, m)
  <2> DEFINE b == [t EXCEPT !.bound = @ \cup {m}]
  <2>1. PICK v \in PublishManifest(b) : u \in PublishState(v, m)
    BY <1>1
  <2>2. b = [t EXCEPT !.bound = t.bound \cup {m}]
    OBVIOUS
  <2>3. Shaped(b) /\ Same(t, b, {"bound"}) /\ b.bound = t.bound \cup {m}
    BY <1>1, <2>2, BoundIs
  <2> HIDE DEF b
  <2> QED BY <2>1, <2>3 DEF Bindings
<1>2. CASE ~w.loaded
  <2>1. u \in bind(w)
    BY <1>2 DEF BindManaged
  <2> HIDE DEF bind
  <2>2. Retuned(w, w, {m})
    BY DEF Retuned, Same, SameOwn
  <2> QED BY <1>1, <2>1, <2>2
<1>3. CASE w.loaded
  <2>1. PICK t \in Restore(w, {m}) : u \in IF t.ok THEN bind(t) ELSE {[t EXCEPT !.ok = TRUE]} \cup bind([t EXCEPT !.ok = TRUE])
    BY <1>3 DEF BindManaged
  <2> HIDE DEF bind
  <2>2. Retuned(w, t, {m})
    BY RestoreIs
  <2> DEFINE r == [t EXCEPT !.ok = TRUE]
  <2>3. Shaped(r) /\ Same(t, r, {"ok"})
    BY <2>2, OkIs DEF Retuned
  <2>4. u \in bind(t) \/ u = r \/ u \in bind(r)
    BY <2>1
  <2> HIDE DEF r
  <2>5. Retuned(w, r, {m})
    BY <2>2, <2>3 DEF Retuned, Same, NetFields, SameOwn
  <2> QED BY <1>1, <2>2, <2>3, <2>4, <2>5 DEF Retuned
<1> QED BY <1>2, <1>3

LEMMA BindManagedOK ==
    ASSUME NEW w, NetOK(w), NEW m \in Managed, Mirrors[m] = None, NEW u \in BindManaged(w, m)
    PROVE  NetOK(u)
<1>1. PICK t : Retuned(w, t, {m}) /\ (u = t \/ Bindings(t, u, m))
  BY BindManagedIs DEF NetOK
<1>2. NetOK(t)
  BY <1>1, RetunedQuiet
<1>3. CASE Bindings(t, u, m)
  <2>1. PICK b, v : /\ Shaped(b) /\ Same(t, b, {"bound"}) /\ b.bound = t.bound \cup {m}
                    /\ v \in PublishManifest(b) /\ u \in PublishState(v, m)
    BY <1>3 DEF Bindings
  <2>2. NetOK(v)
    BY <1>2, <2>1, BoundMore, PublishManifestOK
  <2>3. {m} \in SUBSET Managed /\ Shaped(v)
    BY <2>2 DEF NetOK
  <2>4. Published(v, u, {m})
    BY <2>1, <2>3, PublishStatesIs DEF PublishState
  <2> QED BY <2>2, <2>4, PublishedQuiet
<1> QED BY <1>1, <1>2, <1>3

\* Once the mirrors of a value are withdrawn it can go.
LEMMA BoundLess ==
    ASSUME NEW w, NetOK(w), NEW x, x # None, NEW u, Shaped(u), Same(w, u, {"bound"}), u.bound = w.bound \ {x},
           \A d \in Dependents(w, x) : w.own[d].avail = FALSE
    PROVE  MirrorsOK(u)
<1>1. u.own = w.own /\ u.remote = w.remote
  BY DEF Same, NetFields
<1>2. \A d \in u.bound \cap Managed : d \in w.bound \cap Managed /\ Agrees(w, d)
  BY DEF NetOK, MirrorsOK
<1>3. \A d \in u.bound \cap Managed : Mirrors[d] = x => u.own[d].avail = FALSE
  BY <1>1 DEF Dependents
<1> QED BY <1>1, <1>2, <1>3 DEF MirrorsOK, Agrees

\* What unbindResource() leaves of a value of this device.
Unbinding(w, u, m) ==
    \E t, s, b : /\ Lost(w, t, m)
                 /\ Shaped(s) /\ Same(t, s, {"retained"})
                 /\ \A k \in Managed \ {m} : s.retained[k] = t.retained[k]
                 /\ s.retained[m] \in {t.retained[m], None}
                 /\ Shaped(b) /\ Same(s, b, {"bound"}) /\ b.bound = s.bound \ {m}
                 /\ u \in PublishManifest(b)

LEMMA RetainedIs ==
    ASSUME NEW t, Shaped(t), NEW m \in Managed, NEW ok
    PROVE  LET s == [t EXCEPT !.retained[m] = IF ok THEN None ELSE @]
           IN  /\ Shaped(s) /\ Same(t, s, {"retained"})
               /\ \A k \in Managed \ {m} : s.retained[k] = t.retained[k]
               /\ s.retained[m] \in {t.retained[m], None}
<1> DEFINE s == [t EXCEPT !.retained[m] = IF ok THEN None ELSE @]
<1>1. /\ DOMAIN s = NetFields /\ Same(t, s, {"retained"}) /\ DOMAIN s.retained = Managed
      /\ \A k \in Managed \ {m} : s.retained[k] = t.retained[k]
      /\ s.retained[m] \in {t.retained[m], None}
  BY DEF Shaped, NetFields, Same
<1>2. Shaped(s)
  <2> HIDE DEF s
  <2> QED BY <1>1 DEF Shaped, Same, NetFields
<1> QED BY <1>1, <1>2

LEMMA UnbindManagedIs ==
    ASSUME NEW w, Shaped(w), NEW m \in Managed, NEW u \in UnbindManaged(w, m)
    PROVE  Unbinding(w, u, m)
<1> DEFINE Retract(t) == IF t.own[m].value = None THEN {t}
                         ELSE {[t EXCEPT !.retained[m] = IF ok THEN None ELSE @] : ok \in Taken}
           Leave(v) == PublishManifest([v EXCEPT !.bound = @ \ {m}])
<1>0. u \in UNION {Leave(v) : v \in UNION {Retract(t) : t \in WithdrawFromDependents(w, m)}}
  BY DEF UnbindManaged
<1> HIDE DEF Retract, Leave
<1>1. PICK t \in WithdrawFromDependents(w, m) : \E s \in Retract(t) : u \in Leave(s)
  BY <1>0
<1>2. Lost(w, t, m)
  BY <1>1, WithdrawFromDependentsIs
<1>3. PICK s \in Retract(t) : u \in Leave(s)
  BY <1>1
<1>4. s = t \/ \E ok : s = [t EXCEPT !.retained[m] = IF ok THEN None ELSE @]
  BY <1>3 DEF Retract
<1>5. Shaped(t)
  BY <1>2 DEF Lost
<1>6. /\ Shaped(s) /\ Same(t, s, {"retained"})
      /\ \A k \in Managed \ {m} : s.retained[k] = t.retained[k]
      /\ s.retained[m] \in {t.retained[m], None}
  <2>1. CASE s = t
    BY <1>5, <2>1 DEF Same
  <2>2. ASSUME NEW ok, s = [t EXCEPT !.retained[m] = IF ok THEN None ELSE @]
        PROVE  /\ Shaped(s) /\ Same(t, s, {"retained"})
               /\ \A k \in Managed \ {m} : s.retained[k] = t.retained[k]
               /\ s.retained[m] \in {t.retained[m], None}
    BY <1>5, <2>2, RetainedIs
  <2> QED BY <1>4, <2>1, <2>2
<1> DEFINE b == [s EXCEPT !.bound = @ \ {m}]
<1>7. b = [s EXCEPT !.bound = s.bound \ {m}] /\ u \in PublishManifest(b)
  BY <1>3 DEF Leave
<1>8. Shaped(b) /\ Same(s, b, {"bound"}) /\ b.bound = s.bound \ {m}
  BY <1>6, <1>7, BoundIs
<1> HIDE DEF b
<1> QED BY <1>2, <1>6, <1>7, <1>8 DEF Unbinding

LEMMA UnbindManagedOK ==
    ASSUME NEW w, NetOK(w), NEW m \in Managed, NEW u \in UnbindManaged(w, m)
    PROVE  NetOK(u)
<1>1. PICK t, s, b : /\ Lost(w, t, m)
                     /\ Shaped(s) /\ Same(t, s, {"retained"})
                     /\ Shaped(b) /\ Same(s, b, {"bound"}) /\ b.bound = s.bound \ {m}
                     /\ u \in PublishManifest(b)
  BY UnbindManagedIs DEF NetOK, Unbinding
<1>2. m # None
  BY ManagedAssumption
<1>3. MirrorsOK(t)
  BY <1>1, <1>2, LostOK, MirrorsBut DEF NetOK
<1>4. LinksOK(t)
  BY <1>1, LinksStay DEF Lost, NetOK, NetFields
<1>5. NetOK(t)
  BY <1>1, <1>3, <1>4 DEF NetOK, Lost
<1>6. NetOK(s)
  BY <1>1, <1>5, SilentOK DEF Silent
<1>7. \A d \in Dependents(s, m) : s.own[d].avail = FALSE
  <2>1. Dependents(s, m) = Dependents(w, m) /\ s.own = t.own
    BY <1>1 DEF Dependents, Lost, Same, NetFields
  <2> QED BY <1>1, <2>1 DEF Lost, Dependents
<1>8. MirrorsOK(b)
  BY <1>1, <1>2, <1>6, <1>7, BoundLess
<1>9. LinksOK(b)
  <2>1. b.src = s.src /\ b.subs = s.subs /\ b.remote = s.remote
    BY <1>1 DEF Same, NetFields
  <2>2. Sourced(b) = Sourced(s)
    BY <1>1, <2>1, ManagedAssumption DEF Sourced
  <2>3. Needed(b) = Needed(s)
    BY <2>1, <2>2 DEF Needed
  <2> QED BY <1>6, <2>1, <2>2, <2>3 DEF NetOK, LinksOK, Unique, WishesOK
<1>10. NetOK(b)
  BY <1>1, <1>8, <1>9 DEF NetOK
<1> QED BY <1>1, <1>10, PublishManifestOK

LEMMA TellIs ==
    ASSUME NEW w, Shaped(w), NEW m \in Managed, NEW u \in Tell(w, m)
    PROVE  \/ ~w.own[m].avail /\ u = w
           \/ w.own[m].avail /\ \E t : Published(w, t, {m}) /\ Told(t, u, m, t.own[m].value)
<1>1. CASE ~w.own[m].avail
  BY <1>1 DEF Tell
<1>2. CASE w.own[m].avail
  <2>1. PICK t \in PublishState(w, m) : u \in Propagate(t, m, t.own[m].value)
    BY <1>2 DEF Tell
  <2>2. {m} \in SUBSET Managed
    OBVIOUS
  <2>3. Published(w, t, {m})
    BY <2>1, <2>2, PublishStatesIs DEF PublishState
  <2> QED BY <1>2, <2>1, <2>3, PropagateIs DEF Published
<1> QED BY <1>1, <1>2

LEMMA TellOK ==
    ASSUME NEW w, Shaped(w), NEW m \in w.bound \cap Managed, AgreesBut(w, m), LinksOK(w),
           ~w.own[m].avail => MirrorsOK(w), NEW u \in Tell(w, m)
    PROVE  NetOK(u)
<1>1. m # None
  BY ManagedAssumption
<1>2. CASE u = w /\ ~w.own[m].avail
  BY <1>2 DEF NetOK
<1>3. ASSUME NEW t, w.own[m].avail, Published(w, t, {m}), Told(t, u, m, t.own[m].value)
      PROVE  NetOK(u)
  <2>1. t.bound = w.bound /\ t.remote = w.remote
    BY <1>3 DEF Published, Same, NetFields
  <2>2. \A k \in Managed : t.own[k].avail = w.own[k].avail /\ t.own[k].value = w.own[k].value
    BY <1>3 DEF Published, SameOwn, OwnFields
  <2>3. AgreesBut(t, m)
    BY <2>1, <2>2 DEF AgreesBut, Agrees
  <2>4. MirrorsOK(u)
    BY <1>1, <1>3, <2>1, <2>2, <2>3, ToldOK, ManagedAssumption DEF Published
  <2>5. LinksOK(u)
    BY <1>3, LinksStay DEF Published, Told, NetFields
  <2> QED BY <1>3, <2>4, <2>5 DEF NetOK, Told
<1> QED BY <1>2, <1>3, TellIs

LEMMA PutsBut ==
    ASSUME NEW w, NetOK(w), NEW m \in Managed, Mirrors[m] = None, NEW g \in {"value", "avail"}, NEW v,
           NEW u, Puts(w, u, m, g, v)
    PROVE  AgreesBut(u, m) /\ LinksOK(u) /\ u.bound = w.bound
<1>1. u.bound = w.bound /\ u.remote = w.remote
  BY DEF Puts, Same, NetFields
<1>2. \A k \in Managed \ {m} : u.own[k].avail = w.own[k].avail /\ u.own[k].value = w.own[k].value
  BY DEF Puts, SameOwn, OwnFields
<1>3. AgreesBut(u, m)
  <2> SUFFICES ASSUME NEW d \in w.bound \cap Managed, Mirrors[d] # m PROVE Agrees(u, d)
    BY <1>1 DEF AgreesBut
  <2>1. CASE d = m
    BY <2>1 DEF Agrees
  <2>2. CASE d # m
    BY <1>1, <1>2, <2>2 DEF Agrees, NetOK, MirrorsOK
  <2> QED BY <2>1, <2>2
<1>4. LinksOK(u)
  BY LinksStay DEF Puts, NetOK, NetFields
<1> QED BY <1>1, <1>3, <1>4

\* Nobody mirrors what is not there, and so what it is makes no difference.
LEMMA PutsElsewhere ==
    ASSUME NEW w, NetOK(w), NEW m \in Managed, Mirrors[m] = None, NEW g \in {"value", "avail"}, NEW v,
           NEW u, Puts(w, u, m, g, v), m \notin w.bound \/ ~w.own[m].avail
    PROVE  MirrorsOK(u)
<1>1. AgreesBut(u, m) /\ u.bound = w.bound
  BY PutsBut
<1>2. ASSUME NEW d \in w.bound \cap Managed, Mirrors[d] = m
      PROVE  ~(w.own[d].avail /\ w.own[d].value # None)
  BY <1>2, ManagedAssumption DEF NetOK, MirrorsOK, Agrees
<1>3. ASSUME NEW d \in w.bound \cap Managed, Mirrors[d] = m
      PROVE  Agrees(u, d)
  <2>1. d # m
    BY <1>3, ManagedAssumption
  <2>2. u.own[d].avail = w.own[d].avail /\ u.own[d].value = w.own[d].value
    BY <2>1 DEF Puts, SameOwn, OwnFields
  <2> QED BY <1>2, <1>3, <2>2 DEF Agrees
<1> QED BY <1>1, <1>3 DEF MirrorsOK, AgreesBut

LEMMA SetValueOK ==
    ASSUME NEW w, NetOK(w), NEW m \in Managed, Mirrors[m] = None, NEW v, NEW u \in SetValue(w, m, v)
    PROVE  NetOK(u)
<1> DEFINE t == [w EXCEPT !.own[m].value = v]
<1>1. Puts(w, t, m, "value", v)
  BY OwnPuts DEF OwnFields, NetOK
<1>2. u \in IF m \in w.bound THEN Tell(t, m) ELSE {t}
  BY DEF SetValue, Bound
<1> HIDE DEF t
<1>3. AgreesBut(t, m) /\ LinksOK(t) /\ t.bound = w.bound
  BY <1>1, PutsBut
<1>4. CASE m \notin w.bound
  BY <1>1, <1>2, <1>3, <1>4, PutsElsewhere DEF NetOK, Puts
<1>5. CASE m \in w.bound
  <2>1. w.own[m].avail = t.own[m].avail
    BY <1>1 DEF Puts, SameOwn, OwnFields
  <2>2. ~t.own[m].avail => MirrorsOK(t)
    BY <1>1, <2>1, PutsElsewhere
  <2> QED BY <1>1, <1>2, <1>3, <1>5, <2>2, TellOK DEF Puts
<1> QED BY <1>4, <1>5

\* What setAvailability() leaves, by way of t.
Availed(w, t, u, m, a) ==
    /\ Puts(w, t, m, "avail", a)
    /\ \/ m \notin w.bound /\ Puts(t, u, m, "pending", ~a)
       \/ m \in w.bound /\ w.own[m].avail = a /\ u = w
       \/ /\ m \in w.bound /\ a = FALSE
          /\ \E v : Withdrawn(t, v, {m}) /\ u \in WithdrawFromDependents(v, m)
       \/ /\ m \in w.bound /\ a = TRUE /\ w.own[m].avail # TRUE
          /\ \E v : /\ Puts(t, v, m, "pending", FALSE)
                    /\ u \in IF v.own[m].value = None THEN {v} ELSE Tell(v, m)

LEMMA SetAvailableIs ==
    ASSUME NEW w, Shaped(w), NEW m \in Managed, NEW a \in BOOLEAN, NEW u \in SetAvailable(w, m, a)
    PROVE  \E t : Availed(w, t, u, m, a)
<1> DEFINE t == [w EXCEPT !.own[m].avail = a]
<1>1. Puts(w, t, m, "avail", a)
  BY OwnPuts DEF OwnFields
<1>2. u \in IF m \notin w.bound THEN {[t EXCEPT !.own[m].pending = ~a]}
            ELSE IF w.own[m].avail = a THEN {w}
            ELSE IF ~a THEN UNION {WithdrawFromDependents(v, m) : v \in WithdrawState(t, m)}
            ELSE IF [t EXCEPT !.own[m].pending = FALSE].own[m].value = None THEN {[t EXCEPT !.own[m].pending = FALSE]}
            ELSE Tell([t EXCEPT !.own[m].pending = FALSE], m)
  BY DEF SetAvailable, Bound
<1> HIDE DEF t
<1>3. Shaped(t)
  BY <1>1 DEF Puts
<1>4. ASSUME NEW b
      PROVE  Puts(t, [t EXCEPT !.own[m].pending = b], m, "pending", b)
  <2> DEFINE v == [t EXCEPT !.own[m].pending = b]
  <2>1. "pending" \in OwnFields
    BY DEF OwnFields
  <2>2. Puts(t, v, m, "pending", b)
    BY <1>3, <2>1, OwnPuts
  <2> QED BY <2>2
<1>5. CASE m \notin w.bound
  <2>1. u = [t EXCEPT !.own[m].pending = ~a]
    BY <1>2, <1>5
  <2> QED BY <1>1, <1>4, <1>5, <2>1 DEF Availed
<1>6. CASE m \in w.bound /\ w.own[m].avail = a
  BY <1>1, <1>2, <1>6 DEF Availed
<1>7. CASE m \in w.bound /\ w.own[m].avail # a /\ ~a
  <2>1. PICK v \in WithdrawState(t, m) : u \in WithdrawFromDependents(v, m)
    BY <1>2, <1>7
  <2>2. {m} \in SUBSET Managed
    OBVIOUS
  <2>3. Withdrawn(t, v, {m})
    BY <1>3, <2>1, <2>2, WithdrawStatesIs DEF WithdrawState
  <2>4. a = FALSE
    BY <1>7
  <2> QED BY <1>1, <1>7, <2>1, <2>3, <2>4 DEF Availed
<1>8. CASE m \in w.bound /\ w.own[m].avail # a /\ a
  <2> DEFINE v == [t EXCEPT !.own[m].pending = FALSE]
  <2>1. Puts(t, v, m, "pending", FALSE)
    BY <1>4
  <2>2. u \in IF v.own[m].value = None THEN {v} ELSE Tell(v, m)
    BY <1>2, <1>8
  <2> HIDE DEF v
  <2> QED BY <1>1, <1>8, <2>1, <2>2 DEF Availed
<1> QED BY <1>5, <1>6, <1>7, <1>8

LEMMA SetAvailableOK ==
    ASSUME NEW w, NetOK(w), NEW m \in Managed, Mirrors[m] = None, NEW a \in BOOLEAN, NEW u \in SetAvailable(w, m, a)
    PROVE  NetOK(u)
<1>0. m # None
  BY ManagedAssumption
<1>1. PICK t : Availed(w, t, u, m, a)
  BY SetAvailableIs DEF NetOK
<1>2. AgreesBut(t, m) /\ LinksOK(t) /\ t.bound = w.bound /\ Shaped(t)
  BY <1>1, PutsBut DEF Puts, Availed
<1>3. m \notin w.bound \/ ~w.own[m].avail => NetOK(t)
  BY <1>1, <1>2, PutsElsewhere DEF NetOK, Availed
<1>4. CASE m \notin w.bound /\ Puts(t, u, m, "pending", ~a)
  BY <1>3, <1>4, PutsQuiet
<1>5. ASSUME NEW v, Withdrawn(t, v, {m}), u \in WithdrawFromDependents(v, m)
      PROVE  NetOK(u)
  <2>1. v.bound = t.bound /\ v.remote = t.remote
    BY <1>5 DEF Withdrawn, Same, NetFields
  <2>2. \A k \in Managed : v.own[k].avail = t.own[k].avail /\ v.own[k].value = t.own[k].value
    BY <1>5 DEF Withdrawn, SameOwn, OwnFields
  <2>3. AgreesBut(v, m)
    BY <1>2, <2>1, <2>2 DEF AgreesBut, Agrees
  <2>4. Lost(v, u, m)
    BY <1>5, WithdrawFromDependentsIs DEF Withdrawn
  <2>5. MirrorsOK(u)
    BY <1>0, <1>5, <2>3, <2>4, LostOK DEF Withdrawn
  <2>6. LinksOK(u)
    BY <1>2, <1>5, <2>4, LinksStay DEF Withdrawn, Lost, NetFields
  <2> QED BY <2>4, <2>5, <2>6 DEF NetOK, Lost
<1>6. ASSUME NEW v, m \in w.bound, ~w.own[m].avail, Puts(t, v, m, "pending", FALSE),
             u \in IF v.own[m].value = None THEN {v} ELSE Tell(v, m)
      PROVE  NetOK(u)
  <2>1. NetOK(v)
    BY <1>3, <1>6, PutsQuiet
  <2>2. m \in v.bound
    BY <1>2, <1>6 DEF Puts, Same, NetFields
  <2>3. AgreesBut(v, m) /\ LinksOK(v) /\ MirrorsOK(v) /\ Shaped(v)
    BY <2>1, MirrorsBut DEF NetOK
  <2>4. u = v \/ u \in Tell(v, m)
    BY <1>6
  <2> QED BY <2>1, <2>2, <2>3, <2>4, TellOK
<1>7. CASE m \in w.bound /\ w.own[m].avail = a /\ u = w
  BY <1>7
<1> QED BY <1>1, <1>4, <1>5, <1>6, <1>7 DEF Availed

-------------------------------------------------------------------------------
(* The subscriptions.                                                          *)

LEMMA SubscribeIs ==
    ASSUME NEW w, Shaped(w), NEW T
    PROVE  /\ Shaped(Subscribe(w, T)) /\ Same(w, Subscribe(w, T), {"subs", "inbox"})
           /\ Subscribe(w, T).subs = IF online THEN w.subs \cup T ELSE w.subs
           /\ Subscribe(w, T).inbox = IF online THEN w.inbox \o Retained(w, T) ELSE w.inbox
<1> DEFINE u == [w EXCEPT !.subs = @ \cup T, !.inbox = @ \o Retained(w, T)]
<1>1. /\ DOMAIN u = NetFields /\ Same(w, u, {"subs", "inbox"})
      /\ u.subs = w.subs \cup T /\ u.inbox = w.inbox \o Retained(w, T)
  BY DEF Shaped, NetFields, Same
<1>2. Subscribe(w, T) = IF online THEN u ELSE w
  BY DEF Subscribe, Join
<1> HIDE DEF u
<1>3. Shaped(u)
  BY <1>1, OtherFields DEF NetFields
<1>4. Same(w, w, {"subs", "inbox"})
  BY DEF Same
<1> QED BY <1>1, <1>2, <1>3, <1>4

LEMMA UnsubscribeIs ==
    ASSUME NEW w, Shaped(w), NEW T
    PROVE  /\ Shaped(Unsubscribe(w, T)) /\ Same(w, Unsubscribe(w, T), {"subs"})
           /\ Unsubscribe(w, T).subs = IF online THEN w.subs \ T ELSE w.subs
<1> DEFINE u == [w EXCEPT !.subs = @ \ T]
<1>1. DOMAIN u = NetFields /\ Same(w, u, {"subs"}) /\ u.subs = w.subs \ T
  BY DEF Shaped, NetFields, Same
<1>2. Unsubscribe(w, T) = IF online THEN u ELSE w
  BY DEF Unsubscribe
<1> HIDE DEF u
<1>3. Shaped(u)
  BY <1>1, OtherFields DEF NetFields
<1>4. Same(w, w, {"subs"})
  BY DEF Same
<1> QED BY <1>1, <1>2, <1>3, <1>4

\* The topics that sources f of X and one source a more call for.
Calls(X, f, a) ==
    {StateTopic(f[q]) : q \in X} \cup {ManifestTopic(f[q][1]) : q \in X}
        \cup IF a = None THEN {} ELSE {StateTopic(a), ManifestTopic(a[1])}

\* Those of a that no source f of X calls for, or those of them but the manifest.
Own(X, f, a, b) ==
    Ingress(a) \cup IF ~OwnerChanged(a, b) \/ a = None \/ (\E q \in X : f[q][1] = a[1]) THEN {} ELSE {ManifestTopic(a[1])}

LEMMA CallsMove ==
    ASSUME NEW X, NEW f, NEW old, NEW new, \A q \in X : f[q] # old /\ f[q] # new, old # new
    PROVE  Calls(X, f, new) = (Calls(X, f, old) \ Own(X, f, old, new)) \cup Own(X, f, new, old)
<1>1. ASSUME NEW a
      PROVE  StateTopic(a) \in Calls(X, f, new) <=>
                StateTopic(a) \in (Calls(X, f, old) \ Own(X, f, old, new)) \cup Own(X, f, new, old)
  BY DEF Calls, Own, StateTopic, ManifestTopic, Ingress
<1>2. ASSUME NEW o
      PROVE  ManifestTopic(o) \in Calls(X, f, new) <=>
                ManifestTopic(o) \in (Calls(X, f, old) \ Own(X, f, old, new)) \cup Own(X, f, new, old)
  BY DEF Calls, Own, StateTopic, ManifestTopic, Ingress, OwnerChanged
<1>3. ASSUME NEW t \in Calls(X, f, new) \cup Calls(X, f, old) \cup Own(X, f, new, old)
      PROVE  (\E a : t = StateTopic(a)) \/ (\E o : t = ManifestTopic(o))
  BY DEF Calls, Own, Ingress
<1> QED BY <1>1, <1>2, <1>3

LEMMA NeededCalls ==
    ASSUME NEW w, NEW r \in Remote
    PROVE  Needed(w) = Calls(Sourced(w) \ {r}, w.src, IF r \in w.bound THEN w.src[r] ELSE None)
<1>1. CASE r \in Sourced(w)
  BY <1>1 DEF Needed, Calls, Sourced
<1>2. CASE r \notin Sourced(w)
  BY <1>2 DEF Needed, Calls, Sourced
<1> QED BY <1>1, <1>2

\* The topics of a source that nobody else needs, when r has another one now.
LEMMA OwnIs ==
    ASSUME NEW w, NEW r \in w.bound \cap Remote, NEW old, NEW c, c <=> OwnerChanged(old, w.src[r])
    PROVE  /\ Concerned(w, old, c, {}) = Own(Sourced(w) \ {r}, w.src, old, w.src[r])
           /\ Concerned(w, w.src[r], c, {r}) = Own(Sourced(w) \ {r}, w.src, w.src[r], old)
<1>1. OwnerChanged(old, w.src[r]) <=> OwnerChanged(w.src[r], old)
  BY DEF OwnerChanged
<1>2. Sourced(w) \ {} = Sourced(w)
  OBVIOUS
<1>3. ASSUME old # None, OwnerChanged(old, w.src[r])
      PROVE  OwnerInUse(w, old[1], {}) <=> \E q \in Sourced(w) \ {r} : w.src[q][1] = old[1]
  BY <1>2, <1>3 DEF OwnerInUse, OwnerChanged, Sourced
<1> DEFINE Gone(b, a, F) == IF ~b \/ a = None \/ F THEN {} ELSE {ManifestTopic(a[1])}
           used == \E q \in Sourced(w) \ {r} : w.src[q][1] = old[1]
           uses == \E q \in Sourced(w) \ {r} : w.src[q][1] = w.src[r][1]
<1>4. (IF OwnerChanged(old, w.src[r]) THEN LastOf(w, old, {}) ELSE {}) = Gone(OwnerChanged(old, w.src[r]), old, used)
  <2>1. CASE ~OwnerChanged(old, w.src[r])
    BY <2>1
  <2>2. CASE OwnerChanged(old, w.src[r]) /\ old = None
    BY <2>2 DEF LastOf
  <2>3. CASE OwnerChanged(old, w.src[r]) /\ old # None
    <3>1. OwnerInUse(w, old[1], {}) <=> used
      BY <1>3, <2>3
    <3> QED BY <2>3, <3>1 DEF LastOf
  <2> QED BY <2>1, <2>2, <2>3
<1>5. (IF OwnerChanged(old, w.src[r]) THEN LastOf(w, w.src[r], {r}) ELSE {}) = Gone(OwnerChanged(w.src[r], old), w.src[r], uses)
  <2>1. CASE ~OwnerChanged(old, w.src[r])
    BY <1>1, <2>1
  <2>2. CASE OwnerChanged(old, w.src[r])
    <3>1. OwnerInUse(w, w.src[r][1], {r}) <=> uses
      BY DEF OwnerInUse
    <3> QED BY <1>1, <2>2, <3>1 DEF LastOf
  <2> QED BY <2>1, <2>2
<1>6. Own(Sourced(w) \ {r}, w.src, old, w.src[r]) = Ingress(old) \cup Gone(OwnerChanged(old, w.src[r]), old, used)
  BY DEF Own
<1>7. Own(Sourced(w) \ {r}, w.src, w.src[r], old) = Ingress(w.src[r]) \cup Gone(OwnerChanged(w.src[r], old), w.src[r], uses)
  BY DEF Own
<1> HIDE DEF Gone, used, uses
<1> QED BY <1>4, <1>5, <1>6, <1>7 DEF Concerned

\* r has the source a, and nothing is known of it.
Sourcing(w, t, r, a) ==
    /\ Shaped(t) /\ Same(w, t, {"src", "remote"})
    /\ t.src[r] = a /\ \A q \in Remote \ {r} : t.src[q] = w.src[q]
    /\ t.remote[r] = Unlearned /\ \A q \in Remote \ {r} : t.remote[q] = w.remote[q]

LEMMA WithSourceIs ==
    ASSUME NEW w, Shaped(w), NEW r \in Remote, NEW a
    PROVE  Sourcing(w, WithSource(w, r, a), r, a)
<1> DEFINE t == WithSource(w, r, a)
<1>1. /\ DOMAIN t = NetFields /\ Same(w, t, {"src", "remote"})
      /\ t.src = [w.src EXCEPT ![r] = a] /\ t.remote = [w.remote EXCEPT ![r] = Unlearned]
  BY DEF WithSource, Shaped, NetFields, Same
<1>2. DOMAIN Unlearned = RemoteFields
  BY DEF Unlearned, RemoteFields
<1> HIDE DEF t
<1>3. /\ DOMAIN t.src = Remote /\ t.src[r] = a /\ \A q \in Remote \ {r} : t.src[q] = w.src[q]
      /\ DOMAIN t.remote = Remote /\ t.remote[r] = Unlearned /\ \A q \in Remote \ {r} : t.remote[q] = w.remote[q]
  BY <1>1 DEF Shaped
<1>4. \A q \in Remote : DOMAIN t.remote[q] = RemoteFields
  BY <1>2, <1>3 DEF Shaped
<1>5. Shaped(t)
  BY <1>1, <1>3, <1>4 DEF Shaped, Same, NetFields
<1> QED BY <1>1, <1>3, <1>5 DEF Sourcing, t

\* What a change of the source of r to a leaves, by way of t and v.
Moving(w, t, v, u, r, a) ==
    /\ Sourcing(w, t, r, a) /\ Lost(t, v, r)
    /\ Shaped(u) /\ Same(v, u, {"subs", "inbox"})
    /\ online => /\ u.subs = (w.subs \ Own(Sourced(w) \ {r}, w.src, w.src[r], a))
                                \cup Own(Sourced(w) \ {r}, w.src, a, w.src[r])
                 /\ u.inbox = w.inbox \o Retained(w, Own(Sourced(w) \ {r}, w.src, a, w.src[r]))
    /\ ~online => u.subs = w.subs /\ u.inbox = w.inbox

LEMMA OwnSame ==
    ASSUME NEW X, NEW f, NEW g, \A q \in X : f[q] = g[q], NEW a, NEW b
    PROVE  Own(X, f, a, b) = Own(X, g, a, b)
BY DEF Own

LEMMA ConcernedSame ==
    ASSUME NEW w, NEW u, u.bound = w.bound, u.src = w.src, NEW a, NEW c, NEW X
    PROVE  Concerned(u, a, c, X) = Concerned(w, a, c, X)
<1>1. Sourced(u) = Sourced(w)
  BY DEF Sourced
<1>2. LastOf(u, a, X) = LastOf(w, a, X)
  BY <1>1 DEF LastOf, OwnerInUse
<1> QED BY <1>2 DEF Concerned

LEMMA NotifyIs ==
    ASSUME NEW w, Shaped(w), NEW r \in w.bound \cap Remote, NEW a,
           NEW u \in NotifySourceChanged(WithSource(w, r, a), r, w.src[r])
    PROVE  \E t, v : Moving(w, t, v, u, r, a)
<1> DEFINE t == WithSource(w, r, a)
           old == w.src[r]
           X == Sourced(w) \ {r}
<1>1. Sourcing(w, t, r, a)
  BY WithSourceIs
<1>2. r \in t.bound
  BY <1>1 DEF Sourcing, Same, NetFields
<1>3. u \in NotifySourceChanged(t, r, old)
  OBVIOUS
<1> HIDE DEF t, old
<1>4. PICK v \in WithdrawFromDependents(t, r) : u = Resubscribed(v, r, old)
  BY <1>2, <1>3 DEF NotifySourceChanged, Bound
<1>5. Lost(t, v, r)
  BY <1>1, <1>4, WithdrawFromDependentsIs DEF Sourcing
<1>6. /\ v.bound = w.bound /\ v.src = t.src /\ v.subs = w.subs /\ v.inbox = w.inbox /\ v.theirs = w.theirs
      /\ t.bound = w.bound /\ t.src[r] = a
  BY <1>1, <1>5 DEF Lost, Sourcing, Same, NetFields
<1>7. /\ Sourced(v) = Sourced(t) /\ Sourced(v) \ {r} = X /\ \A q \in X : v.src[q] = w.src[q]
  BY <1>1, <1>6 DEF Sourced, Sourcing
<1> DEFINE c == OwnerChanged(old, v.src[r])
           less == Unsubscribe(v, Concerned(v, old, c, {}))
<1>8. Concerned(v, old, c, {}) = Own(X, w.src, old, a)
  <2>1. Concerned(v, old, c, {}) = Own(Sourced(v) \ {r}, v.src, old, v.src[r])
    <3>1. r \in v.bound \cap Remote /\ (c <=> OwnerChanged(old, v.src[r]))
      BY <1>6
    <3> HIDE DEF c
    <3> QED BY <3>1, OwnIs
  <2>2. v.src[r] = a
    BY <1>6
  <2> HIDE DEF c, X
  <2>3. \A q \in X : v.src[q] = w.src[q]
    BY <1>7
  <2>4. Own(X, v.src, old, a) = Own(X, w.src, old, a)
    BY <2>3, OwnSame
  <2> QED BY <1>7, <2>1, <2>2, <2>4
<1>9. Concerned(v, v.src[r], c, {r}) = Own(X, w.src, a, old)
  <2>1. Concerned(v, v.src[r], c, {r}) = Own(Sourced(v) \ {r}, v.src, v.src[r], old)
    <3>1. r \in v.bound \cap Remote /\ (c <=> OwnerChanged(old, v.src[r]))
      BY <1>6
    <3> HIDE DEF c
    <3> QED BY <3>1, OwnIs
  <2>2. v.src[r] = a
    BY <1>6
  <2> HIDE DEF c, X
  <2>3. \A q \in X : v.src[q] = w.src[q]
    BY <1>7
  <2>4. Own(X, v.src, a, old) = Own(X, w.src, a, old)
    BY <2>3, OwnSame
  <2> QED BY <1>7, <2>1, <2>2, <2>4
<1> HIDE DEF X
<1>10. /\ Shaped(less) /\ Same(v, less, {"subs"})
       /\ less.subs = IF online THEN v.subs \ Own(X, w.src, old, a) ELSE v.subs
  <2> HIDE DEF c
  <2> QED BY <1>5, <1>8, UnsubscribeIs DEF Lost
<1>12. u = Subscribe(less, Own(X, w.src, a, old))
  <2>1. u = Subscribe(less, Concerned(less, v.src[r], c, {r}))
    BY <1>4 DEF Resubscribed
  <2> HIDE DEF less
  <2>2. less.bound = v.bound /\ less.src = v.src
    BY <1>10 DEF Same, NetFields
  <2> HIDE DEF c
  <2> QED BY <1>9, <2>1, <2>2, ConcernedSame
<1> HIDE DEF less, c
<1>13. /\ Shaped(u) /\ Same(less, u, {"subs", "inbox"})
       /\ u.subs = IF online THEN less.subs \cup Own(X, w.src, a, old) ELSE less.subs
       /\ u.inbox = IF online THEN less.inbox \o Retained(less, Own(X, w.src, a, old)) ELSE less.inbox
  BY <1>10, <1>12, SubscribeIs
<1>14. less.inbox = w.inbox /\ less.theirs = w.theirs
  BY <1>6, <1>10 DEF Same, NetFields
<1>15. Retained(less, Own(X, w.src, a, old)) = Retained(w, Own(X, w.src, a, old))
  BY <1>14 DEF Retained
<1>16. Same(v, u, {"subs", "inbox"})
  BY <1>10, <1>13 DEF Same
<1>17. Moving(w, t, v, u, r, a)
  BY <1>1, <1>5, <1>6, <1>10, <1>13, <1>14, <1>15, <1>16 DEF Moving, X, old
<1> QED BY <1>17

\* What a change of source comes to, whatever the broker takes.
LEMMA MovingIs ==
    ASSUME NEW w, NEW r \in w.bound \cap Remote, NEW a, NEW t, NEW v, NEW u, Moving(w, t, v, u, r, a)
    PROVE  /\ u.bound = w.bound /\ u.src[r] = a /\ \A q \in Remote \ {r} : u.src[q] = w.src[q]
           /\ u.remote[r] = Unlearned /\ \A q \in Remote \ {r} : u.remote[q] = w.remote[q]
           /\ Sourced(u) \ {r} = Sourced(w) \ {r}
           /\ Same(w, u, {"own", "retained", "src", "remote", "subs", "inbox"}) /\ Shaped(u)
<1>1. /\ Same(w, t, {"src", "remote"}) /\ Same(t, v, {"own", "retained"}) /\ Same(v, u, {"subs", "inbox"})
      /\ Shaped(u)
      /\ t.src[r] = a /\ \A q \in Remote \ {r} : t.src[q] = w.src[q]
      /\ t.remote[r] = Unlearned /\ \A q \in Remote \ {r} : t.remote[q] = w.remote[q]
  BY DEF Moving, Lost, Sourcing
<1>2. u.bound = w.bound /\ u.src = t.src /\ u.remote = t.remote
  BY <1>1 DEF Same, NetFields
<1>3. Sourced(u) \ {r} = Sourced(w) \ {r}
  BY <1>1, <1>2 DEF Sourced
<1>4. Same(w, u, {"own", "retained", "src", "remote", "subs", "inbox"})
  BY <1>1 DEF Same
<1> QED BY <1>1, <1>2, <1>3, <1>4

LEMMA TakenIs ==
    ASSUME NEW w, NEW r, NEW a
    PROVE  ~TakenByOther(w, r, a) <=> (a = None \/ \A q \in Sourced(w) \ {r} : w.src[q] # a)
BY DEF TakenByOther

LEMMA MovingOK ==
    ASSUME NEW w, NetOK(w), NEW r \in w.bound \cap Remote, NEW a, ~TakenByOther(w, r, a), w.src[r] # a,
           NEW t, NEW v, NEW u, Moving(w, t, v, u, r, a)
    PROVE  NetOK(u)
<1> DEFINE X == Sourced(w) \ {r}
<1>1. /\ u.bound = w.bound /\ u.src[r] = a /\ \A q \in Remote \ {r} : u.src[q] = w.src[q]
      /\ u.remote[r] = Unlearned /\ \A q \in Remote \ {r} : u.remote[q] = w.remote[q]
      /\ Sourced(u) \ {r} = X /\ Shaped(u)
  BY MovingIs
<1>2. X \subseteq Remote /\ \A q \in X : u.src[q] = w.src[q] /\ w.src[q] # None
  BY <1>1 DEF Sourced
<1>3. \A q \in X : w.src[q] # a /\ w.src[q] # w.src[r]
  <2>1. \A q \in X : w.src[q] # a
    BY <1>2, TakenIs
  <2>2. ASSUME NEW q \in X, w.src[q] = w.src[r] PROVE FALSE
    <3>1. r \in Sourced(w)
      BY <1>2, <2>2 DEF Sourced
    <3> QED BY <2>2, <3>1 DEF NetOK, LinksOK, Unique
  <2> QED BY <2>1, <2>2
<1>4. Unique(u)
  <2> SUFFICES ASSUME NEW p \in Sourced(u), NEW q \in Sourced(u), u.src[p] = u.src[q] PROVE p = q
    BY DEF Unique
  <2>1. CASE p = r \/ q = r
    BY <1>1, <1>2, <1>3, <2>1
  <2>2. CASE p # r /\ q # r
    <3>1. p \in Sourced(w) /\ q \in Sourced(w) /\ w.src[p] = w.src[q]
      BY <1>1, <1>2, <2>2
    <3> QED BY <3>1 DEF NetOK, LinksOK, Unique
  <2> QED BY <2>1, <2>2
<1>5. WishesOK(u)
  BY <1>1 DEF NetOK, LinksOK, WishesOK, Unlearned
<1>6. MirrorsOK(u)
  <2>1. r # None
    BY ManagedAssumption
  <2>2. t.own = w.own /\ t.bound = w.bound /\ \A q \in Remote \ {r} : t.remote[q] = w.remote[q]
    BY DEF Moving, Sourcing, Same, NetFields
  <2>3. AgreesBut(t, r)
    BY <2>2 DEF NetOK, MirrorsOK, AgreesBut, Agrees
  <2>4. MirrorsOK(v)
    BY <2>1, <2>3, LostOK DEF Moving, Sourcing
  <2>5. u.own = v.own /\ u.bound = v.bound /\ u.remote = v.remote
    BY DEF Moving, Same, NetFields
  <2> QED BY <2>4, <2>5 DEF MirrorsOK, Agrees
<1>7. ASSUME online
      PROVE  u.subs = Needed(u)
  <2>1. w.subs = Calls(X, w.src, w.src[r])
    BY <1>7, NeededCalls DEF NetOK, LinksOK
  <2>2. Calls(X, w.src, a) = (Calls(X, w.src, w.src[r]) \ Own(X, w.src, w.src[r], a)) \cup Own(X, w.src, a, w.src[r])
    BY <1>3, CallsMove
  <2>3. u.subs = Calls(X, w.src, a)
    BY <1>7, <2>1, <2>2 DEF Moving
  <2>4. Needed(u) = Calls(X, u.src, a)
    BY <1>1, NeededCalls
  <2>5. Calls(X, u.src, a) = Calls(X, w.src, a)
    BY <1>2 DEF Calls
  <2> QED BY <2>3, <2>4, <2>5
<1>8. ~online => u.subs = {}
  BY DEF Moving, NetOK, LinksOK
<1> QED BY <1>1, <1>4, <1>5, <1>6, <1>7, <1>8 DEF NetOK, LinksOK

\* The file and what it is worth are the only difference.
Filewise(w, u) == Shaped(u) /\ Same(w, u, {"sources", "kept", "ok"})

\* The file is written, is as it was, or is gone.
Written(w, u, file, kept) ==
    \/ u.ok = TRUE /\ u.sources = file /\ u.kept = kept
    \/ u.ok = FALSE /\ u.sources = w.sources /\ u.kept = w.kept
    \/ u.ok = FALSE /\ u.sources = <<>> /\ u.kept = "some"

LEMMA WriteIs ==
    ASSUME NEW w, Shaped(w), NEW file, NEW kept, NEW u \in Write(w, file, kept)
    PROVE  Filewise(w, u) /\ Written(w, u, file, kept)
<1>1. \/ u = [w EXCEPT !.sources = file, !.kept = kept, !.ok = TRUE]
      \/ u = [w EXCEPT !.ok = FALSE]
      \/ u = [w EXCEPT !.sources = <<>>, !.kept = "some", !.ok = FALSE]
  BY DEF Write
<1>2. DOMAIN u = NetFields /\ Same(w, u, {"sources", "kept", "ok"}) /\ Written(w, u, file, kept)
  BY <1>1 DEF Shaped, NetFields, Same, Written
<1>3. Shaped(u)
  BY <1>2, OtherFields DEF NetFields
<1> QED BY <1>2, <1>3 DEF Filewise

\* The file has what it had and r anew, or nothing but that, or is as it was, or is gone.
LEMMA PersistIs ==
    ASSUME NEW w, Shaped(w), NEW r, NEW a, NEW u \in Persist(w, r, a)
    PROVE  /\ Filewise(w, u)
           /\ \/ u.ok = TRUE /\ u.sources = Filed(w.sources, r, a) /\ u.kept = w.kept
              \/ u.ok = TRUE /\ u.sources = Filed(<<>>, r, a) /\ u.kept = "some"
              \/ u.ok = FALSE /\ u.sources = w.sources /\ u.kept = w.kept
              \/ u.ok = FALSE /\ u.sources = <<>> /\ u.kept = "some"
<1>1. PICK found \in Found(w) :
        u \in Write(w, Filed(found, r, a), IF found = w.sources THEN w.kept ELSE "some")
  BY DEF Persist
<1>2. found = w.sources \/ found = <<>>
  BY <1>1 DEF Found
<1>3. CASE found = w.sources
  <2>1. u \in Write(w, Filed(w.sources, r, a), w.kept)
    BY <1>1, <1>3
  <2>2. Filewise(w, u) /\ Written(w, u, Filed(w.sources, r, a), w.kept)
    BY <2>1, WriteIs
  <2> QED BY <2>2 DEF Written
<1>4. CASE found # w.sources
  <2>1. u \in Write(w, Filed(<<>>, r, a), "some")
    BY <1>1, <1>2, <1>4
  <2>2. Filewise(w, u) /\ Written(w, u, Filed(<<>>, r, a), "some")
    BY <2>1, WriteIs
  <2> QED BY <2>2 DEF Written
<1> QED BY <1>3, <1>4

\* A write whose failure nobody looks at leaves the file written, gone, or as it was.
Rewritten(w, u, file, kept) ==
    /\ Filewise(w, u)
    /\ \/ u.sources = file /\ u.kept = kept
       \/ u.sources = <<>> /\ u.kept = "some"
       \/ u.sources = w.sources /\ u.kept = "unknown"

LEMMA UnheededIs ==
    ASSUME NEW w, Shaped(w), NEW file, NEW kept, NEW u \in Unheeded(Write(w, file, kept))
    PROVE  Rewritten(w, u, file, kept)
<1>1. PICK v \in Write(w, file, kept) :
        u = IF v.ok THEN v
            ELSE [v EXCEPT !.ok = TRUE, !.kept = IF v.sources = <<>> THEN "some" ELSE "unknown"]
  BY DEF Unheeded
<1>2. Filewise(w, v) /\ Written(w, v, file, kept)
  BY <1>1, WriteIs
<1>3. CASE v.ok
  BY <1>1, <1>2, <1>3 DEF Rewritten, Written
<1>4. CASE ~v.ok
  <2>1. /\ DOMAIN u = NetFields /\ Same(v, u, {"kept", "ok"}) /\ u.sources = v.sources
        /\ u.kept = IF v.sources = <<>> THEN "some" ELSE "unknown"
    BY <1>1, <1>2, <1>4 DEF Filewise, Shaped, NetFields, Same
  <2>2. Shaped(u)
    BY <1>2, <2>1, OtherFields DEF Filewise, NetFields
  <2>3. Same(w, u, {"sources", "kept", "ok"})
    BY <1>2, <2>1 DEF Filewise, Same
  <2> QED BY <1>2, <1>4, <2>1, <2>2, <2>3 DEF Rewritten, Filewise, Written
<1> QED BY <1>3, <1>4

\* What configureRemoteSource() leaves: as it was, the new source, or the old one again.
Configuring(w, u, r, a) ==
    \/ u = w
    \/ w.src[r] = a /\ \E p : p \in Persist(w, r, a) /\ Shaped(u) /\ Same(p, u, {"ok"})
    \/ /\ w.src[r] # a /\ ~TakenByOther(w, r, a)
       /\ \E t, v, n, p :
            /\ Moving(w, t, v, n, r, a) /\ p \in Persist(n, r, a)
            /\ \/ p.ok /\ u = p
               \/ ~p.ok /\ \E s, x, y : Shaped(s) /\ Same(p, s, {"ok"}) /\ Moving(s, x, y, u, r, w.src[r])

LEMMA ConfigureSourceIs ==
    ASSUME NEW w, Shaped(w), NEW r \in w.bound \cap Remote, NEW a, NEW u \in ConfigureSource(w, r, a)
    PROVE  Configuring(w, u, r, a)
<1> DEFINE After(p) == IF p.ok THEN {p} ELSE RollBack([p EXCEPT !.ok = TRUE], r, w.src[r])
           Moved == NotifySourceChanged(WithSource(w, r, a), r, w.src[r])
<1>1. u \in IF TakenByOther(w, r, a) THEN {w}
            ELSE IF w.src[r] = a THEN {[p EXCEPT !.ok = TRUE] : p \in Persist(w, r, a)}
            ELSE UNION {After(p) : p \in UNION {Persist(n, r, a) : n \in Moved}}
  BY DEF ConfigureSource
<1> HIDE DEF After, Moved
<1>2. CASE TakenByOther(w, r, a)
  BY <1>1, <1>2 DEF Configuring
<1>3. CASE ~TakenByOther(w, r, a) /\ w.src[r] = a
  <2>1. PICK p \in Persist(w, r, a) : u = [p EXCEPT !.ok = TRUE]
    BY <1>1, <1>3
  <2>2. Shaped(p)
    BY <2>1, PersistIs DEF Filewise
  <2>3. Shaped(u) /\ Same(p, u, {"ok"})
    BY <2>1, <2>2, OkIs
  <2> QED BY <1>3, <2>1, <2>3 DEF Configuring
<1>4. CASE ~TakenByOther(w, r, a) /\ w.src[r] # a
  <2>1. u \in UNION {After(p) : p \in UNION {Persist(n, r, a) : n \in Moved}}
    BY <1>1, <1>4
  <2>2. PICK n \in Moved : \E p \in Persist(n, r, a) : u \in After(p)
    BY <2>1
  <2>3. PICK p \in Persist(n, r, a) : u \in After(p)
    BY <2>2
  <2>4. PICK t, v : Moving(w, t, v, n, r, a)
    BY <2>2, NotifyIs DEF Moved
  <2>5. Shaped(p) /\ Same(n, p, {"sources", "kept", "ok"})
    BY <2>3, <2>4, PersistIs DEF Moving, Filewise
  <2>6. CASE p.ok
    <3>1. u = p
      BY <2>3, <2>6 DEF After
    <3> QED BY <1>4, <2>3, <2>4, <2>6, <3>1 DEF Configuring
  <2>7. CASE ~p.ok
    <3> DEFINE s == [p EXCEPT !.ok = TRUE]
    <3>1. Shaped(s) /\ Same(p, s, {"ok"})
      BY <2>5, OkIs
    <3>2. u \in RollBack(s, r, w.src[r])
      BY <2>3, <2>7 DEF After
    <3> HIDE DEF s
    <3>3. u \in NotifySourceChanged(WithSource(s, r, w.src[r]), r, s.src[r])
      BY <3>2 DEF RollBack
    <3>4. n.bound = w.bound
      BY <2>4, MovingIs
    <3>5. r \in s.bound \cap Remote
      BY <2>5, <3>1, <3>4 DEF Same, NetFields
    <3>6. PICK x, y : Moving(s, x, y, u, r, w.src[r])
      BY <3>1, <3>3, <3>5, NotifyIs
    <3> QED BY <1>4, <2>3, <2>4, <2>7, <3>1, <3>6 DEF Configuring
  <2> QED BY <2>6, <2>7
<1> QED BY <1>2, <1>3, <1>4

LEMMA ConfigureSourceOK ==
    ASSUME NEW w, NetOK(w), NEW r \in w.bound \cap Remote, NEW a, NEW u \in ConfigureSource(w, r, a)
    PROVE  NetOK(u)
<1>1. Configuring(w, u, r, a)
  BY ConfigureSourceIs DEF NetOK
<1>2. ASSUME NEW x, NetOK(x), NEW p \in Persist(x, r, a)
      PROVE  NetOK(p)
  <2>1. Shaped(p) /\ Same(x, p, {"sources", "kept", "ok"})
    BY <1>2, PersistIs DEF Filewise, NetOK
  <2> QED BY <1>2, <2>1, SilentOK DEF Silent
<1>3. ASSUME NEW x, NetOK(x), NEW y, Shaped(y), Same(x, y, {"ok"})
      PROVE  NetOK(y)
  BY <1>3, SilentOK DEF Silent
<1>4. ASSUME NEW p, p \in Persist(w, r, a), Shaped(u), Same(p, u, {"ok"})
      PROVE  NetOK(u)
  BY <1>2, <1>3, <1>4
<1>5. ASSUME w.src[r] # a, ~TakenByOther(w, r, a), NEW t, NEW v, NEW n, Moving(w, t, v, n, r, a),
             NEW p, p \in Persist(n, r, a),
             \/ p.ok /\ u = p
             \/ ~p.ok /\ \E s, x, y : Shaped(s) /\ Same(p, s, {"ok"}) /\ Moving(s, x, y, u, r, w.src[r])
      PROVE  NetOK(u)
  <2>1. NetOK(n)
    BY <1>5, MovingOK
  <2>2. NetOK(p)
    BY <1>2, <1>5, <2>1
  <2>3. ASSUME NEW s, NEW x, NEW y, Shaped(s), Same(p, s, {"ok"}), Moving(s, x, y, u, r, w.src[r])
        PROVE  NetOK(u)
    <3>1. NetOK(s)
      BY <1>3, <2>2, <2>3
    <3>2. Same(n, p, {"sources", "kept", "ok"})
      BY <1>5, <2>1, PersistIs DEF NetOK, Filewise
    <3>3. s.bound = n.bound /\ s.src = n.src
      BY <2>3, <3>2 DEF Same, NetFields
    <3>4. /\ n.bound = w.bound /\ n.src[r] = a /\ Sourced(n) \ {r} = Sourced(w) \ {r}
          /\ \A q \in Remote \ {r} : n.src[q] = w.src[q]
      BY <1>5, MovingIs
    <3>5. Sourced(s) = Sourced(n)
      BY <3>3 DEF Sourced
    <3>6. ~TakenByOther(s, r, w.src[r])
      <4>1. ASSUME w.src[r] # None, NEW q \in Sourced(w) \ {r}
            PROVE  w.src[q] # w.src[r]
        BY <4>1 DEF NetOK, LinksOK, Unique, Sourced
      <4>2. ASSUME w.src[r] # None, NEW q \in Sourced(s) \ {r}
            PROVE  s.src[q] # w.src[r]
        <5>1. q \in Sourced(w) \ {r} /\ s.src[q] = w.src[q]
          BY <3>3, <3>4, <3>5 DEF Sourced
        <5> QED BY <4>1, <4>2, <5>1
      <4> QED BY <4>2, TakenIs
    <3> QED BY <1>5, <2>3, <3>1, <3>3, <3>4, <3>6, MovingOK
  <2> QED BY <1>5, <2>2, <2>3
<1> QED BY <1>1, <1>4, <1>5 DEF Configuring

\* What bindResource() leaves of a value of another device that it takes.
BindingRemote(w, u, r) ==
    /\ ~TakenByOther(w, r, w.src[r])
    /\ Shaped(u) /\ Same(w, u, {"bound", "subs", "inbox"}) /\ u.bound = w.bound \cup {r}
    /\ online => /\ u.subs = w.subs \cup Concerned(w, w.src[r], TRUE, {r})
                 /\ u.inbox = w.inbox \o Retained(w, Concerned(w, w.src[r], TRUE, {r}))
    /\ ~online => u.subs = w.subs /\ u.inbox = w.inbox

LEMMA BindRemoteIs ==
    ASSUME NEW w, Shaped(w), NEW r \in Remote \ w.bound, NEW u \in BindRemote(w, r)
    PROVE  u = w \/ BindingRemote(w, u, r)
<1> DEFINE b == [w EXCEPT !.bound = @ \cup {r}]
           T == Ingress(w.src[r]) \cup LastOf(w, w.src[r], {r})
<1>1. u = w \/ (~TakenByOther(w, r, w.src[r]) /\ u = Subscribe(b, T))
  BY DEF BindRemote
<1>2. b = [w EXCEPT !.bound = w.bound \cup {r}]
  OBVIOUS
<1>3. Shaped(b) /\ Same(w, b, {"bound"}) /\ b.bound = w.bound \cup {r}
  BY <1>2, BoundIs
<1>4. Concerned(w, w.src[r], TRUE, {r}) = T
  BY DEF Concerned
<1> HIDE DEF b, T
<1>5. ASSUME u = Subscribe(b, T)
      PROVE  /\ Shaped(u) /\ Same(w, u, {"bound", "subs", "inbox"}) /\ u.bound = w.bound \cup {r}
             /\ online => u.subs = w.subs \cup T /\ u.inbox = w.inbox \o Retained(w, T)
             /\ ~online => u.subs = w.subs /\ u.inbox = w.inbox
  <2>1. /\ Shaped(u) /\ Same(b, u, {"subs", "inbox"})
        /\ u.subs = IF online THEN b.subs \cup T ELSE b.subs
        /\ u.inbox = IF online THEN b.inbox \o Retained(b, T) ELSE b.inbox
    BY <1>3, <1>5, SubscribeIs
  <2>2. b.subs = w.subs /\ b.inbox = w.inbox /\ b.theirs = w.theirs
    BY <1>3 DEF Same, NetFields
  <2>3. Retained(b, T) = Retained(w, T)
    BY <2>2 DEF Retained
  <2> QED BY <1>3, <2>1, <2>2, <2>3 DEF Same, NetFields
<1> QED BY <1>1, <1>4, <1>5 DEF BindingRemote

LEMMA BindRemoteOK ==
    ASSUME NEW w, NetOK(w), NEW r \in Remote \ w.bound, NEW u \in BindRemote(w, r)
    PROVE  NetOK(u)
<1> DEFINE X == Sourced(w) \ {r}
           T == Concerned(w, w.src[r], TRUE, {r})
<1> SUFFICES ASSUME BindingRemote(w, u, r) PROVE NetOK(u)
  BY BindRemoteIs DEF NetOK
<1>0. /\ ~TakenByOther(w, r, w.src[r])
      /\ Shaped(u) /\ Same(w, u, {"bound", "subs", "inbox"}) /\ u.bound = w.bound \cup {r}
      /\ online => u.subs = w.subs \cup T
      /\ ~online => u.subs = w.subs
  BY DEF BindingRemote
<1> HIDE DEF T
<1> USE <1>0
<1>1. u.own = w.own /\ u.remote = w.remote /\ u.src = w.src
  BY DEF Same, NetFields
<1>2. Sourced(u) \ {r} = X /\ r \in u.bound /\ X = Sourced(w)
  BY <1>1 DEF Sourced
<1>3. Unique(u)
  <2> SUFFICES ASSUME NEW p \in Sourced(u), NEW q \in Sourced(u), u.src[p] = u.src[q] PROVE p = q
    BY DEF Unique
  <2>1. ASSUME NEW x \in Sourced(u) \ {r}, r \in Sourced(u)
        PROVE  u.src[x] # u.src[r]
    BY <1>1, <1>2, <2>1, TakenIs DEF Sourced
  <2>2. CASE p # r /\ q # r
    BY <1>1, <1>2, <2>2 DEF NetOK, LinksOK, Unique
  <2> QED BY <2>1, <2>2
<1>4. MirrorsOK(u)
  <2>1. ASSUME NEW d \in u.bound \cap Managed
        PROVE  Agrees(u, d)
    <3>1. d \in w.bound
      BY ManagedAssumption
    <3> QED BY <1>1, <3>1 DEF NetOK, MirrorsOK, Agrees
  <2> QED BY <2>1 DEF MirrorsOK
<1>5. ASSUME online
      PROVE  u.subs = Needed(u)
  <2>1. w.subs = Calls(X, w.src, None)
    BY <1>5, NeededCalls DEF NetOK, LinksOK
  <2>2. T = Own(X, w.src, w.src[r], None)
    BY DEF T, Concerned, LastOf, OwnerInUse, Own, OwnerChanged
  <2>3. Needed(u) = Calls(X, w.src, w.src[r])
    BY <1>1, <1>2, NeededCalls
  <2>4. CASE w.src[r] = None
    <3>1. T = {}
      BY <2>4 DEF T, Concerned, LastOf, Ingress
    <3> QED BY <1>5, <2>1, <2>3, <2>4, <3>1
  <2>5. CASE w.src[r] # None
    <3>1. \A q \in X : w.src[q] # w.src[r] /\ w.src[q] # None
      BY <1>2, <2>5, TakenIs DEF Sourced
    <3>2. Calls(X, w.src, w.src[r]) = (Calls(X, w.src, None) \ Own(X, w.src, None, w.src[r])) \cup Own(X, w.src, w.src[r], None)
      BY <2>5, <3>1, CallsMove
    <3>3. Own(X, w.src, None, w.src[r]) = {}
      BY DEF Own, Ingress
    <3> QED BY <1>5, <2>1, <2>2, <2>3, <3>2, <3>3
  <2> QED BY <2>4, <2>5
<1>6. WishesOK(u) /\ (~online => u.subs = {})
  BY <1>1 DEF NetOK, LinksOK, WishesOK
<1> QED BY <1>3, <1>4, <1>5, <1>6 DEF NetOK, LinksOK

\* What unbindResource() leaves of a value of another device.
UnbindingRemote(w, t, b, f, u, r) ==
    /\ Lost(w, t, r)
    /\ Shaped(b) /\ Same(t, b, {"bound"}) /\ b.bound = w.bound \ {r}
    /\ Shaped(f) /\ Same(b, f, {"subs"})
    /\ f.subs = IF online THEN w.subs \ Concerned(b, w.src[r], TRUE, {r}) ELSE w.subs
    /\ Rewritten(f, u, Filed(f.sources, r, None), f.kept)

LEMMA ForgetIs ==
    ASSUME NEW w, Shaped(w), NEW r, NEW u \in ForgetSource(w, r)
    PROVE  Rewritten(w, u, Filed(w.sources, r, None), w.kept)
<1>1. CASE Members(w.sources, r) = {}
  <2>1. u = w /\ Filed(w.sources, r, None) = w.sources
    BY <1>1 DEF ForgetSource, Filed
  <2> QED BY <2>1 DEF Rewritten, Filewise, Same
<1>2. CASE Members(w.sources, r) # {}
  BY <1>2, UnheededIs DEF ForgetSource
<1> QED BY <1>1, <1>2

LEMMA UnbindRemoteIs ==
    ASSUME NEW w, Shaped(w), NEW r \in Remote, NEW u \in UnbindRemote(w, r)
    PROVE  \E t, b, f : UnbindingRemote(w, t, b, f, u, r)
<1> DEFINE Less(s) == [s EXCEPT !.bound = @ \ {r}]
           Leave(s) == ForgetSource(Unsubscribe(Less(s), Ingress(Less(s).src[r]) \cup LastOf(Less(s), Less(s).src[r], {r})), r)
<1>1. u \in UNION {Leave(s) : s \in WithdrawFromDependents(w, r)}
  BY DEF UnbindRemote
<1> HIDE DEF Leave
<1>2. PICK t \in WithdrawFromDependents(w, r) : u \in Leave(t)
  BY <1>1
<1>3. Lost(w, t, r)
  BY <1>2, WithdrawFromDependentsIs
<1> DEFINE b == Less(t)
           T == Ingress(b.src[r]) \cup LastOf(b, b.src[r], {r})
           f == Unsubscribe(b, T)
<1>4. b = [t EXCEPT !.bound = t.bound \ {r}]
  OBVIOUS
<1>5. Shaped(b) /\ Same(t, b, {"bound"}) /\ b.bound = t.bound \ {r}
  BY <1>3, <1>4, BoundIs DEF Lost
<1>6. u \in ForgetSource(f, r)
  BY <1>2 DEF Leave
<1> HIDE DEF b
<1>7. T = Concerned(b, b.src[r], TRUE, {r})
  BY DEF Concerned
<1> HIDE DEF T
<1>8. Shaped(f) /\ Same(b, f, {"subs"}) /\ f.subs = IF online THEN b.subs \ T ELSE b.subs
  BY <1>5, UnsubscribeIs
<1> HIDE DEF f
<1>9. Rewritten(f, u, Filed(f.sources, r, None), f.kept)
  BY <1>6, <1>8, ForgetIs
<1>10. b.src = w.src /\ b.subs = w.subs /\ t.bound = w.bound
  BY <1>3, <1>5 DEF Lost, Same, NetFields
<1>11. UnbindingRemote(w, t, b, f, u, r)
  BY <1>3, <1>5, <1>7, <1>8, <1>9, <1>10 DEF UnbindingRemote
<1> QED BY <1>11

LEMMA UnbindRemoteOK ==
    ASSUME NEW w, NetOK(w), NEW r \in w.bound \cap Remote, NEW u \in UnbindRemote(w, r)
    PROVE  NetOK(u)
<1>1. PICK t, b, f : UnbindingRemote(w, t, b, f, u, r)
  BY UnbindRemoteIs DEF NetOK
<1> DEFINE X == Sourced(w) \ {r}
<1>2. r # None
  BY ManagedAssumption
<1>3. MirrorsOK(t)
  BY <1>1, <1>2, LostOK, MirrorsBut DEF NetOK, UnbindingRemote
<1>4. LinksOK(t)
  BY <1>1, LinksStay DEF Lost, NetOK, NetFields, UnbindingRemote
<1>5. NetOK(t)
  BY <1>1, <1>3, <1>4 DEF NetOK, Lost, UnbindingRemote
<1>6. t.bound = w.bound /\ t.src = w.src /\ t.remote = w.remote /\ t.subs = w.subs
  BY <1>1 DEF UnbindingRemote, Lost, Same, NetFields
<1>7. MirrorsOK(b)
  <2>1. \A d \in Dependents(t, r) : t.own[d].avail = FALSE
    <3>1. Dependents(t, r) = Dependents(w, r)
      BY <1>6 DEF Dependents
    <3> QED BY <1>1, <3>1 DEF UnbindingRemote, Lost, Dependents
  <2> QED BY <1>1, <1>2, <1>5, <1>6, <2>1, BoundLess DEF UnbindingRemote
<1>8. b.src = w.src /\ b.remote = w.remote /\ b.bound = w.bound \ {r}
  BY <1>1, <1>6 DEF UnbindingRemote, Same, NetFields
<1>9. u.own = b.own /\ u.bound = b.bound /\ u.src = b.src /\ u.remote = b.remote /\ u.subs = f.subs /\ Shaped(u)
  BY <1>1 DEF UnbindingRemote, Rewritten, Filewise, Same, NetFields
<1>10. MirrorsOK(u)
  BY <1>7, <1>9 DEF MirrorsOK, Agrees
<1>11. Sourced(u) = X /\ Sourced(b) = X /\ u.src = w.src /\ r \notin u.bound
  BY <1>8, <1>9 DEF Sourced
<1>12. Unique(u) /\ WishesOK(u)
  BY <1>8, <1>9, <1>11 DEF NetOK, LinksOK, Unique, WishesOK
<1>13. ASSUME online
       PROVE  u.subs = Needed(u)
  <2>1. w.subs = Calls(X, w.src, w.src[r])
    BY <1>13, NeededCalls DEF NetOK, LinksOK
  <2>2. Needed(u) = Calls(X, w.src, None)
    <3>1. Sourced(u) \ {r} = X
      BY <1>11
    <3> QED BY <1>11, <3>1, NeededCalls
  <2>3. Concerned(b, w.src[r], TRUE, {r}) = Own(X, w.src, w.src[r], None)
    BY <1>8, <1>11 DEF Concerned, LastOf, OwnerInUse, Own, OwnerChanged
  <2>4. u.subs = w.subs \ Own(X, w.src, w.src[r], None)
    BY <1>1, <1>9, <1>13, <2>3 DEF UnbindingRemote
  <2>5. CASE w.src[r] = None
    <3>1. Own(X, w.src, None, None) = {}
      BY DEF Own, Ingress
    <3> QED BY <2>1, <2>2, <2>4, <2>5, <3>1
  <2>6. CASE w.src[r] # None
    <3>1. r \in Sourced(w)
      BY <2>6 DEF Sourced
    <3>2. \A q \in X : w.src[q] # w.src[r] /\ w.src[q] # None
      BY <3>1 DEF NetOK, LinksOK, Unique, Sourced
    <3>3. Calls(X, w.src, None) = (Calls(X, w.src, w.src[r]) \ Own(X, w.src, w.src[r], None)) \cup Own(X, w.src, None, w.src[r])
      BY <2>6, <3>2, CallsMove
    <3>4. Own(X, w.src, None, w.src[r]) = {}
      BY DEF Own, Ingress
    <3> QED BY <2>1, <2>2, <2>4, <3>3, <3>4
  <2> QED BY <2>5, <2>6
<1>14. ~online => u.subs = {}
  BY <1>1, <1>9 DEF UnbindingRemote, NetOK, LinksOK
<1> QED BY <1>9, <1>10, <1>12, <1>13, <1>14 DEF NetOK, LinksOK
-------------------------------------------------------------------------------
(* What comes in, and what the application asks of others.                     *)

\* Everything anew: what is subscribed to is what is needed.
LEMMA SubscribeAllIs ==
    ASSUME NEW w, Shaped(w), NEW u, u = SubscribeAll(w)
    PROVE  /\ Shaped(u) /\ Same(w, u, {"subs", "inbox"})
           /\ u.subs = w.subs \cup Needed(w) /\ u.inbox = w.inbox \o Retained(w, Needed(w))
<1>1. u = [w EXCEPT !.subs = @ \cup Needed(w), !.inbox = @ \o Retained(w, Needed(w))]
  BY DEF SubscribeAll, Join, Needed
<1>2. /\ DOMAIN u = NetFields /\ Same(w, u, {"subs", "inbox"})
      /\ u.subs = w.subs \cup Needed(w) /\ u.inbox = w.inbox \o Retained(w, Needed(w))
  BY <1>1 DEF Shaped, NetFields, Same
<1> QED BY <1>2, OtherFields DEF NetFields

LEMMA SubscribeAllOK ==
    ASSUME NEW w, NetOK(w), ~online, NEW u, u = SubscribeAll(w)
    PROVE  Shaped(u) /\ MirrorsOK(u) /\ Unique(u) /\ WishesOK(u) /\ u.subs = Needed(u)
<1>1. Shaped(u) /\ Same(w, u, {"subs", "inbox"}) /\ u.subs = w.subs \cup Needed(w)
  BY SubscribeAllIs DEF NetOK
<1>2. u.bound = w.bound /\ u.own = w.own /\ u.remote = w.remote /\ u.src = w.src
  BY <1>1 DEF Same, NetFields
<1>3. Sourced(u) = Sourced(w) /\ Needed(u) = Needed(w)
  BY <1>2 DEF Sourced, Needed
<1>4. MirrorsOK(u)
  BY <1>2 DEF NetOK, MirrorsOK, Agrees
<1>5. Unique(u) /\ WishesOK(u)
  BY <1>2, <1>3 DEF NetOK, LinksOK, Unique, WishesOK
<1> QED BY <1>1, <1>3, <1>4, <1>5 DEF NetOK, LinksOK

\* t has the remote value v of r, and nothing else is new.
Learned(w, t, r, v) ==
    /\ Shaped(t) /\ Same(w, t, {"remote"})
    /\ t.remote[r] = v /\ \A q \in Remote \ {r} : t.remote[q] = w.remote[q]

LEMMA RemoteIs ==
    ASSUME NEW w, Shaped(w), NEW r \in Remote, NEW v, DOMAIN v = RemoteFields
    PROVE  Learned(w, [w EXCEPT !.remote[r] = v], r, v)
<1> DEFINE t == [w EXCEPT !.remote[r] = v]
<1>1. /\ DOMAIN t = NetFields /\ Same(w, t, {"remote"}) /\ t.remote = [w.remote EXCEPT ![r] = v]
  BY DEF Shaped, NetFields, Same
<1> HIDE DEF t
<1>2. DOMAIN t.remote = Remote /\ t.remote[r] = v /\ \A q \in Remote \ {r} : t.remote[q] = w.remote[q]
  BY <1>1 DEF Shaped
<1>3. \A q \in Remote : DOMAIN t.remote[q] = RemoteFields
  BY <1>2 DEF Shaped
<1>4. Shaped(t)
  BY <1>1, <1>2, <1>3 DEF Shaped, Same, NetFields
<1> QED BY <1>1, <1>2, <1>4 DEF Learned, t

\* What a message about its state leaves of r, by way of t.
Applied(w, t, u, r, body) ==
    \E v : /\ Learned(w, t, r, v) /\ DOMAIN v = RemoteFields /\ v.wish = w.remote[r].wish
           /\ \/ /\ body = Deleted /\ v.avail = FALSE /\ v.value = w.remote[r].value /\ Lost(t, u, r)
              \/ /\ body # Deleted /\ v.avail = TRUE /\ v.value = body /\ Told(t, u, r, Effective(v))

LEMMA ApplyRemoteStateIs ==
    ASSUME NEW w, Shaped(w), NEW r \in Remote, NEW body, NEW u \in ApplyRemoteState(w, r, body)
    PROVE  \E t : Applied(w, t, u, r, body)
<1>1. DOMAIN w.remote[r] = RemoteFields /\ DOMAIN w.remote = Remote /\ DOMAIN w = NetFields
  BY DEF Shaped
<1>2. CASE body = Deleted
  <2> DEFINE v == [w.remote[r] EXCEPT !.avail = FALSE]
             t == [w EXCEPT !.remote[r] = v]
  <2>1. t = [w EXCEPT !.remote[r].avail = FALSE]
    BY <1>1 DEF NetFields
  <2>2. u \in WithdrawFromDependents(t, r)
    BY <1>2, <2>1 DEF ApplyRemoteState
  <2>3. DOMAIN v = RemoteFields /\ v.avail = FALSE /\ v.value = w.remote[r].value /\ v.wish = w.remote[r].wish
    BY <1>1 DEF RemoteFields
  <2> HIDE DEF v
  <2>4. Learned(w, t, r, v)
    BY <2>3, RemoteIs
  <2> HIDE DEF t
  <2>5. Lost(t, u, r)
    BY <2>2, <2>4, WithdrawFromDependentsIs DEF Learned
  <2> QED BY <1>2, <2>3, <2>4, <2>5 DEF Applied
<1>3. CASE body # Deleted
  <2> DEFINE v == [w.remote[r] EXCEPT !.value = body, !.avail = TRUE, !.fresh = "fresh"]
             t == [w EXCEPT !.remote[r] = v]
  <2>1. t = [w EXCEPT !.remote[r].value = body, !.remote[r].avail = TRUE, !.remote[r].fresh = "fresh"]
    BY <1>1 DEF NetFields
  <2>2. u \in Propagate(t, r, Effective(t.remote[r]))
    BY <1>3, <2>1 DEF ApplyRemoteState
  <2>3. DOMAIN v = RemoteFields /\ v.avail = TRUE /\ v.value = body /\ v.wish = w.remote[r].wish
    BY <1>1 DEF RemoteFields
  <2> HIDE DEF v
  <2>4. Learned(w, t, r, v)
    BY <2>3, RemoteIs
  <2> HIDE DEF t
  <2>5. Told(t, u, r, Effective(v))
    BY <2>2, <2>4, PropagateIs DEF Learned
  <2> QED BY <1>3, <2>3, <2>4, <2>5 DEF Applied
<1> QED BY <1>2, <1>3

LEMMA LearnedBut ==
    ASSUME NEW w, NetOK(w), NEW r \in Remote, NEW v, v.wish = w.remote[r].wish, NEW t, Learned(w, t, r, v)
    PROVE  AgreesBut(t, r) /\ LinksOK(t)
<1>1. t.bound = w.bound /\ t.own = w.own /\ t.src = w.src /\ t.subs = w.subs
  BY DEF Learned, Same, NetFields
<1>2. AgreesBut(t, r)
  BY <1>1 DEF Learned, NetOK, MirrorsOK, AgreesBut, Agrees
<1>3. Sourced(t) = Sourced(w) /\ Needed(t) = Needed(w)
  BY <1>1 DEF Sourced, Needed
<1>4. WishesOK(t)
  BY DEF NetOK, LinksOK, WishesOK, Learned
<1> QED BY <1>1, <1>2, <1>3, <1>4 DEF NetOK, LinksOK, Unique

LEMMA ApplyRemoteStateOK ==
    ASSUME NEW w, NetOK(w), NEW r \in w.bound \cap Remote, NEW body, NEW u \in ApplyRemoteState(w, r, body)
    PROVE  NetOK(u) /\ u.bound = w.bound
<1>0. PICK t : Applied(w, t, u, r, body)
  BY ApplyRemoteStateIs DEF NetOK
<1>1. PICK v : /\ Learned(w, t, r, v) /\ v.wish = w.remote[r].wish
               /\ \/ Lost(t, u, r)
                  \/ v.avail = TRUE /\ v.value = body /\ Told(t, u, r, Effective(v))
  BY <1>0 DEF Applied
<1>2. r # None /\ r \notin Managed
  BY ManagedAssumption
<1>3. AgreesBut(t, r) /\ LinksOK(t) /\ Shaped(t) /\ t.remote[r] = v
  BY <1>1, LearnedBut DEF Learned
<1>4. t.bound = w.bound
  BY <1>1 DEF Learned, Same, NetFields
<1>5. CASE Lost(t, u, r)
  <2>1. MirrorsOK(u)
    BY <1>2, <1>3, <1>5, LostOK
  <2>2. LinksOK(u)
    BY <1>3, <1>5, LinksStay DEF Lost, NetFields
  <2> QED BY <1>4, <1>5, <2>1, <2>2 DEF NetOK, Lost, Same, NetFields
<1>6. CASE v.avail = TRUE /\ v.value = body /\ Told(t, u, r, Effective(v))
  <2>1. r \notin States => Effective(v) = v.value
    BY <1>1 DEF NetOK, LinksOK, WishesOK, Effective
  <2>2. t.remote[r].avail /\ (t.remote[r].value = Effective(v) \/ r \in States)
    BY <1>3, <1>6, <2>1
  <2>3. MirrorsOK(u)
    <3> DEFINE e == Effective(v)
    <3>1. Told(t, u, r, e) /\ (t.remote[r].value = e \/ r \in States)
      BY <1>6, <2>2
    <3> HIDE DEF e
    <3> QED BY <1>2, <1>3, <1>4, <2>2, <3>1, ToldOK
  <2>4. LinksOK(u)
    BY <1>3, <1>6, LinksStay DEF Told, NetFields
  <2> QED BY <1>4, <1>6, <2>3, <2>4 DEF NetOK, Told, Same, NetFields
<1> QED BY <1>1, <1>5, <1>6

\* The remote values alone have changed, and of them neither what they are nor what is asked for.
LEMMA RemoteQuiet ==
    ASSUME NEW w, NetOK(w), NEW f, DOMAIN f = Remote,
           \A r \in Remote : /\ DOMAIN f[r] = RemoteFields
                             /\ f[r].avail = w.remote[r].avail /\ f[r].value = w.remote[r].value
                             /\ f[r].wish = w.remote[r].wish \/ f[r].wish = None \/ r \in States,
           NEW u, u = [w EXCEPT !.remote = f]
    PROVE  NetOK(u) /\ u.bound = w.bound
<1>1. DOMAIN u = NetFields /\ Same(w, u, {"remote"}) /\ u.remote = f
  BY DEF NetOK, Shaped, NetFields, Same
<1>2. /\ u.bound = w.bound /\ u.own = w.own /\ u.src = w.src /\ u.subs = w.subs
  BY <1>1 DEF Same, NetFields
<1>3. Shaped(u)
  BY <1>1 DEF NetOK, Shaped, Same, NetFields
<1>4. MirrorsOK(u)
  BY <1>1, <1>2 DEF NetOK, MirrorsOK, Agrees
<1>5. Sourced(u) = Sourced(w) /\ Needed(u) = Needed(w)
  BY <1>2 DEF Sourced, Needed
<1>6. WishesOK(u)
  BY <1>1 DEF NetOK, LinksOK, WishesOK
<1> QED BY <1>2, <1>3, <1>4, <1>5, <1>6 DEF NetOK, LinksOK, Unique
\* A message that has been taken from the queue.
LEMMA InboxIs ==
    ASSUME NEW w, NetOK(w), NEW i
    PROVE  NetOK([w EXCEPT !.inbox = i]) /\ [w EXCEPT !.inbox = i].bound = w.bound
<1> DEFINE u == [w EXCEPT !.inbox = i]
<1>1. DOMAIN u = NetFields /\ Same(w, u, {"inbox"})
  BY DEF NetOK, Shaped, NetFields, Same
<1> HIDE DEF u
<1>2. Shaped(u)
  BY <1>1, OtherFields DEF NetFields, NetOK
<1>3. NetOK(u)
  BY <1>1, <1>2, SilentOK DEF Silent
<1>4. u.bound = w.bound
  BY <1>1 DEF Same, NetFields
<1> QED BY <1>3, <1>4 DEF u

LEMMA ApplyManifestOK ==
    ASSUME NEW w, NetOK(w), NEW owner, NEW body
    PROVE  NetOK(ApplyManifest(w, owner, body)) /\ ApplyManifest(w, owner, body).bound = w.bound
<1> DEFINE f == [r \in Remote |->
                   IF r \in Sourced(w) /\ w.src[r][1] = owner
                   THEN [w.remote[r] EXCEPT !.period = IF body = Deleted THEN None ELSE body] ELSE w.remote[r]]
           u == [w EXCEPT !.remote = f]
<1>1. ApplyManifest(w, owner, body) = u
  BY DEF ApplyManifest, NetOK, Shaped, NetFields
<1>2. DOMAIN f = Remote
  OBVIOUS
<1>3. \A r \in Remote : /\ DOMAIN f[r] = RemoteFields
                        /\ f[r].avail = w.remote[r].avail /\ f[r].value = w.remote[r].value
                        /\ f[r].wish = w.remote[r].wish
  BY DEF NetOK, Shaped, RemoteFields
<1> HIDE DEF f
<1>4. NetOK(u) /\ u.bound = w.bound
  BY <1>2, <1>3, RemoteQuiet
<1> QED BY <1>1, <1>4

LEMMA HandleIngressOK ==
    ASSUME NEW w, NetOK(w), NEW u \in HandleIngress(w)
    PROVE  NetOK(u) /\ u.bound = w.bound
<1> DEFINE t == [w EXCEPT !.inbox = Tail(@)]
           topic == Head(w.inbox).topic
           body == Head(w.inbox).body
           named == NamedBy(w, topic)
<1>1. u \in IF topic[1] = "manifest" THEN {ApplyManifest(t, topic[2], body)}
            ELSE IF named = {} THEN {t} ELSE ApplyRemoteState(t, CHOOSE r \in named : TRUE, body)
  BY DEF HandleIngress
<1>2. t = [w EXCEPT !.inbox = Tail(w.inbox)]
  OBVIOUS
<1>3. NetOK(t) /\ t.bound = w.bound
  BY <1>2, InboxIs
<1> HIDE DEF t, topic, body
<1>4. CASE u = ApplyManifest(t, topic[2], body)
  BY <1>3, <1>4, ApplyManifestOK
<1>5. CASE named # {} /\ u \in ApplyRemoteState(t, CHOOSE r \in named : TRUE, body)
  <2> DEFINE r == CHOOSE r \in named : TRUE
  <2>1. r \in named
    BY <1>5
  <2>2. r \in t.bound \cap Remote
    BY <1>3, <2>1 DEF NamedBy, Sourced
  <2> HIDE DEF r
  <2>3. u \in ApplyRemoteState(t, r, body)
    BY <1>5 DEF r
  <2> QED BY <1>3, <2>2, <2>3, ApplyRemoteStateOK
<1> QED BY <1>1, <1>3, <1>4, <1>5

\* What a RemoteState shows for a while is nothing that a mirror could have.
LEMMA WishOK ==
    ASSUME NEW w, NetOK(w), NEW r \in Remote, NEW v, r \in States \/ v = None,
           NEW u, u = [w EXCEPT !.remote[r].wish = v]
    PROVE  NetOK(u) /\ u.bound = w.bound
<1> DEFINE f == [w.remote EXCEPT ![r] = [w.remote[r] EXCEPT !.wish = v]]
           s == [w EXCEPT !.remote = f]
<1>1. u = s
  BY DEF NetOK, Shaped, NetFields
<1>2. DOMAIN f = Remote
  BY DEF NetOK, Shaped
<1>3. \A q \in Remote : /\ DOMAIN f[q] = RemoteFields
                        /\ f[q].avail = w.remote[q].avail /\ f[q].value = w.remote[q].value
                        /\ f[q].wish = w.remote[q].wish \/ f[q].wish = None \/ q \in States
  BY DEF NetOK, Shaped, RemoteFields
<1> HIDE DEF f
<1>4. NetOK(s) /\ s.bound = w.bound
  BY <1>2, <1>3, RemoteQuiet
<1> QED BY <1>1, <1>4

LEMMA RequestValueOK ==
    ASSUME NEW w, NetOK(w), NEW r \in Remote \cap States, NEW v, NEW u \in RequestValue(w, r, v)
    PROVE  NetOK(u) /\ u.bound = w.bound
<1>1. u = w \/ u = [w EXCEPT !.remote[r].wish = v]
  BY DEF RequestValue
<1> QED BY <1>1, WishOK

LEMMA AgeOK ==
    ASSUME NEW w, NetOK(w), NEW r \in Remote
    PROVE  NetOK(Age(w, r)) /\ Age(w, r).bound = w.bound
<1> DEFINE f == [w.remote EXCEPT ![r] = [w.remote[r] EXCEPT !.fresh = "stale"]]
           s == [w EXCEPT !.remote = f]
<1>1. Age(w, r) = w \/ Age(w, r) = s
  BY DEF Age, NetOK, Shaped, NetFields
<1>2. DOMAIN f = Remote
  BY DEF NetOK, Shaped
<1>3. \A q \in Remote : /\ DOMAIN f[q] = RemoteFields
                        /\ f[q].avail = w.remote[q].avail /\ f[q].value = w.remote[q].value
                        /\ f[q].wish = w.remote[q].wish
  BY DEF NetOK, Shaped, RemoteFields
<1> HIDE DEF f
<1>4. NetOK(s) /\ s.bound = w.bound
  BY <1>2, <1>3, RemoteQuiet
<1> QED BY <1>1, <1>4

\* The owner of a remote value gives it another one.
Heard(w, t, body) ==
    LET s == [w EXCEPT !.theirs[t] = body]
    IN  IF t \in w.subs THEN Hear(s, t, IF body = None THEN Deleted ELSE body) ELSE s

LEMMA HeardOK ==
    ASSUME NEW w, NetOK(w), NEW t, NEW body
    PROVE  NetOK(Heard(w, t, body)) /\ Heard(w, t, body).bound = w.bound
<1> DEFINE s == [w EXCEPT !.theirs[t] = body]
           u == Heard(w, t, body)
<1>1. DOMAIN s = NetFields /\ Same(w, s, {"theirs"})
  BY DEF NetOK, Shaped, NetFields, Same
<1>2. u = s \/ \E i : u = [s EXCEPT !.inbox = i]
  BY DEF Heard, Hear
<1> HIDE DEF s, u
<1>3. Shaped(s)
  BY <1>1, OtherFields DEF NetFields, NetOK
<1>4. NetOK(s) /\ s.bound = w.bound
  BY <1>1, <1>3, SilentOK DEF Silent, Same, NetFields
<1>5. ASSUME NEW i, u = [s EXCEPT !.inbox = i]
      PROVE  NetOK(u) /\ u.bound = s.bound
  BY <1>4, <1>5, InboxIs
<1>6. NetOK(u) /\ u.bound = w.bound
  BY <1>2, <1>4, <1>5
<1> QED BY <1>6 DEF u
-------------------------------------------------------------------------------
(* The calls that bind nothing and change no source.                           *)

Stays(w, u) == u.bound = w.bound /\ u.src = w.src /\ u.sources = w.sources /\ u.kept = w.kept

LEMMA StaysFields ==
    ASSUME NEW w, NEW u, NEW F, F \subseteq NetFields \ {"bound", "src", "sources", "kept"}, Same(w, u, F)
    PROVE  Stays(w, u)
BY DEF Stays, Same, NetFields

LEMMA StaysTwice ==
    ASSUME NEW w, NEW t, NEW u, Stays(w, t), Stays(t, u)
    PROVE  Stays(w, u)
BY DEF Stays

LEMMA StaysSame ==
    ASSUME NEW w PROVE Stays(w, w)
BY DEF Stays

LEMMA PublishManifestStays ==
    ASSUME NEW w, Shaped(w), NEW u \in PublishManifest(w) PROVE Stays(w, u)
BY ManifestIs, StaysFields DEF NetFields

LEMMA PublishedStays ==
    ASSUME NEW w, NEW u, NEW S, Published(w, u, S) PROVE Stays(w, u)
BY StaysFields DEF Published, NetFields

LEMMA WithdrawnStays ==
    ASSUME NEW w, NEW u, NEW S, Withdrawn(w, u, S) PROVE Stays(w, u)
BY StaysFields DEF Withdrawn, NetFields

LEMMA ToldStays ==
    ASSUME NEW w, NEW u, NEW x, NEW v, Told(w, u, x, v) PROVE Stays(w, u)
BY StaysFields DEF Told, NetFields

LEMMA LostStays ==
    ASSUME NEW w, NEW u, NEW x, Lost(w, u, x) PROVE Stays(w, u)
BY StaysFields DEF Lost, NetFields

LEMMA RetunedStays ==
    ASSUME NEW w, NEW u, NEW S, Retuned(w, u, S) PROVE Stays(w, u)
BY StaysFields DEF Retuned, NetFields

LEMMA PutsStays ==
    ASSUME NEW w, NEW u, NEW m, NEW g, NEW v, Puts(w, u, m, g, v) PROVE Stays(w, u)
BY StaysFields DEF Puts, NetFields

LEMMA PublishResourceStatesStays ==
    ASSUME NEW w, Shaped(w), NEW u \in PublishResourceStates(w) PROVE Stays(w, u)
BY PublishStatesIs, PublishedStays DEF PublishResourceStates

LEMMA InspectStays ==
    ASSUME NEW w, Shaped(w), NEW m \in Managed, NEW u \in Inspect(w, m) PROVE Stays(w, u)
<1>1. {m} \in SUBSET Managed
  OBVIOUS
<1>2. u = w \/ u \in PublishStates(w, {m}) \/ u \in WithdrawStates(w, {m})
  BY DEF Inspect, PublishState, WithdrawState
<1> QED BY <1>1, <1>2, PublishStatesIs, WithdrawStatesIs, PublishedStays, WithdrawnStays, StaysSame

LEMMA SetAdvertisementPolicyStays ==
    ASSUME NEW w, Shaped(w), NEW m \in Managed, NEW p, NEW u \in SetAdvertisementPolicy(w, m, p) PROVE Stays(w, u)
<1>1. CASE u = w
  BY <1>1, StaysSame
<1>2. ASSUME NEW t, Adopted(w, t, m, p),
             \/ p = "off" /\ Withdrawn(t, u, {m})
             \/ p # "off" /\ \E v : /\ Puts(t, v, m, "pending", FALSE)
                                    /\ \/ w.own[m].period = "off" /\ Published(v, u, {m})
                                       \/ w.own[m].period # "off" /\ u = v
      PROVE  Stays(w, u)
  <2>1. Stays(w, t)
    BY <1>2, StaysFields DEF Adopted, NetFields
  <2>2. Stays(t, u)
    BY <1>2, WithdrawnStays, PublishedStays, PutsStays, StaysTwice
  <2> QED BY <2>1, <2>2, StaysTwice
<1> QED BY <1>1, <1>2, SetAdvertisementPolicyIs

LEMMA SetPollStays ==
    ASSUME NEW w, Shaped(w), NEW m \in Managed, NEW q, NEW u \in SetPoll(w, m, q) PROVE Stays(w, u)
<1>1. ASSUME Polled(w, u, m) PROVE Stays(w, u)
  BY <1>1, StaysFields DEF Polled, NetFields
<1> QED BY <1>1, SetPollIs, StaysSame

LEMMA TellStays ==
    ASSUME NEW w, Shaped(w), NEW m \in Managed, NEW u \in Tell(w, m) PROVE Stays(w, u)
<1>1. CASE u = w
  BY <1>1, StaysSame
<1>2. ASSUME NEW t, Published(w, t, {m}), Told(t, u, m, t.own[m].value) PROVE Stays(w, u)
  <2>1. Stays(w, t)
    BY <1>2, PublishedStays
  <2>2. Stays(t, u)
    BY <1>2, ToldStays
  <2> QED BY <2>1, <2>2, StaysTwice
<1> QED BY <1>1, <1>2, TellIs

LEMMA SetValueStays ==
    ASSUME NEW w, Shaped(w), NEW m \in Managed, NEW v, NEW u \in SetValue(w, m, v) PROVE Stays(w, u)
<1> DEFINE t == [w EXCEPT !.own[m].value = v]
<1>1. Puts(w, t, m, "value", v)
  BY OwnPuts DEF OwnFields
<1>2. u = t \/ u \in Tell(t, m)
  BY DEF SetValue
<1> HIDE DEF t
<1>3. Shaped(t)
  BY <1>1 DEF Puts
<1> QED BY <1>1, <1>2, <1>3, PutsStays, TellStays, StaysTwice

LEMMA SetAvailableStays ==
    ASSUME NEW w, Shaped(w), NEW m \in Managed, NEW a \in BOOLEAN, NEW u \in SetAvailable(w, m, a) PROVE Stays(w, u)
<1>1. PICK t : Availed(w, t, u, m, a)
  BY SetAvailableIs
<1>2. Stays(w, t)
  BY <1>1, PutsStays DEF Availed
<1>3. CASE Puts(t, u, m, "pending", ~a)
  BY <1>2, <1>3, PutsStays, StaysTwice
<1>4. CASE u = w
  BY <1>4, StaysSame
<1>5. ASSUME NEW v, Withdrawn(t, v, {m}), u \in WithdrawFromDependents(v, m)
      PROVE  Stays(w, u)
  <2>1. Lost(v, u, m)
    BY <1>5, WithdrawFromDependentsIs DEF Withdrawn
  <2> QED BY <1>2, <1>5, <2>1, WithdrawnStays, LostStays, StaysTwice
<1>6. ASSUME NEW v, Puts(t, v, m, "pending", FALSE), u \in IF v.own[m].value = None THEN {v} ELSE Tell(v, m)
      PROVE  Stays(w, u)
  <2>1. Shaped(v) /\ (u = v \/ u \in Tell(v, m))
    BY <1>6 DEF Puts
  <2>2. Stays(w, v)
    BY <1>2, <1>6, PutsStays, StaysTwice
  <2>3. ASSUME u \in Tell(v, m) PROVE Stays(v, u)
    BY <2>1, <2>3, TellStays
  <2> QED BY <2>1, <2>2, <2>3, StaysTwice
<1> QED BY <1>1, <1>3, <1>4, <1>5, <1>6 DEF Availed

LEMMA ApplyRemoteStateStays ==
    ASSUME NEW w, Shaped(w), NEW r \in Remote, NEW body, NEW u \in ApplyRemoteState(w, r, body) PROVE Stays(w, u)
<1>1. PICK t : Applied(w, t, u, r, body)
  BY ApplyRemoteStateIs
<1>2. PICK v : Learned(w, t, r, v) /\ (Lost(t, u, r) \/ Told(t, u, r, Effective(v)))
  BY <1>1 DEF Applied
<1>3. Stays(w, t)
  BY <1>2, StaysFields DEF Learned, NetFields
<1>4. Stays(t, u)
  <2>1. CASE Lost(t, u, r)
    BY <2>1, LostStays
  <2>2. CASE Told(t, u, r, Effective(v))
    BY <2>2, ToldStays
  <2> QED BY <1>2, <2>1, <2>2
<1> QED BY <1>3, <1>4, StaysTwice

LEMMA ApplyManifestStays ==
    ASSUME NEW w, Shaped(w), NEW owner, NEW body PROVE Stays(w, ApplyManifest(w, owner, body))
<1> DEFINE f == [r \in Remote |->
                   IF r \in Sourced(w) /\ w.src[r][1] = owner
                   THEN [w.remote[r] EXCEPT !.period = IF body = Deleted THEN None ELSE body] ELSE w.remote[r]]
           u == [w EXCEPT !.remote = f]
<1>1. ApplyManifest(w, owner, body) = u
  BY DEF ApplyManifest, Shaped, NetFields
<1> HIDE DEF f
<1>2. Stays(w, u)
  BY DEF Stays, Shaped, NetFields
<1> QED BY <1>1, <1>2

LEMMA HandleIngressStays ==
    ASSUME NEW w, Shaped(w), NEW u \in HandleIngress(w) PROVE Stays(w, u)
<1> DEFINE t == [w EXCEPT !.inbox = Tail(@)]
           topic == Head(w.inbox).topic
           body == Head(w.inbox).body
           named == NamedBy(w, topic)
<1>1. u \in IF topic[1] = "manifest" THEN {ApplyManifest(t, topic[2], body)}
            ELSE IF named = {} THEN {t} ELSE ApplyRemoteState(t, CHOOSE r \in named : TRUE, body)
  BY DEF HandleIngress
<1>2. DOMAIN t = NetFields /\ Same(w, t, {"inbox"})
  BY DEF Shaped, NetFields, Same
<1> HIDE DEF t, topic, body
<1>3. Stays(w, t) /\ Shaped(t)
  BY <1>2, StaysFields, OtherFields DEF NetFields
<1>4. CASE u = ApplyManifest(t, topic[2], body)
  <2>3. Stays(t, u)
    BY <1>3, <1>4, ApplyManifestStays
  <2> QED BY <1>3, <2>3, StaysTwice
<1>5. CASE named # {} /\ u \in ApplyRemoteState(t, CHOOSE r \in named : TRUE, body)
  <2> DEFINE r == CHOOSE r \in named : TRUE
  <2>1. r \in named
    BY <1>5
  <2>2. r \in Remote
    BY <2>1 DEF NamedBy, Sourced
  <2> HIDE DEF r
  <2>3. u \in ApplyRemoteState(t, r, body)
    BY <1>5 DEF r
  <2> QED BY <1>3, <2>2, <2>3, ApplyRemoteStateStays, StaysTwice
<1> QED BY <1>1, <1>3, <1>4, <1>5

LEMMA WishStays ==
    ASSUME NEW w, Shaped(w), NEW r \in Remote, NEW v
    PROVE  Stays(w, [w EXCEPT !.remote[r].wish = v])
BY DEF Stays, Shaped, NetFields

LEMMA RequestValueStays ==
    ASSUME NEW w, Shaped(w), NEW r \in Remote, NEW v, NEW u \in RequestValue(w, r, v) PROVE Stays(w, u)
BY WishStays, StaysSame DEF RequestValue

LEMMA AgeStays ==
    ASSUME NEW w, Shaped(w), NEW r \in Remote PROVE Stays(w, Age(w, r))
BY DEF Stays, Shaped, NetFields, Age

LEMMA HeardStays ==
    ASSUME NEW w, Shaped(w), NEW t, NEW body PROVE Stays(w, Heard(w, t, body))
<1> DEFINE s == [w EXCEPT !.theirs[t] = body]
<1>1. Stays(w, s) /\ DOMAIN s = NetFields
  BY DEF Stays, Shaped, NetFields
<1>2. Heard(w, t, body) = s \/ \E i : Heard(w, t, body) = [s EXCEPT !.inbox = i]
  BY DEF Heard, Hear
<1> HIDE DEF s
<1> QED BY <1>1, <1>2 DEF Stays, NetFields
-------------------------------------------------------------------------------
(* The file of the sources.                                                    *)

Bonds == Remote \X Addresses
Keyed(file) == \A i, j \in DOMAIN file : file[i][1] = file[j][1] => i = j
Has(file, r, a) == \E i \in DOMAIN file : file[i] = <<r, a>>
FileOK(file) == file \in Seq(Bonds) /\ Keyed(file)

LEMMA RemoveIs ==
    ASSUME NEW f \in Seq(Bonds), NEW k \in 1 .. Len(f), NEW g, g = RemoveAt(f, k)
    PROVE  /\ g \in Seq(Bonds) /\ Len(g) = Len(f) - 1
           /\ \A i \in 1 .. Len(f) - 1 : g[i] = IF i < k THEN f[i] ELSE f[i + 1]
<1> DEFINE x == SubSeq(f, 1, k - 1)
           y == SubSeq(f, k + 1, Len(f))
<1>1. Len(f) \in Nat /\ k \in Int /\ \A i \in 1 .. Len(f) : f[i] \in Bonds
  BY LenProperties, ElementOfSeq
<1>2. x \in Seq(Bonds) /\ Len(x) = k - 1 /\ \A i \in 1 .. k - 1 : x[i] = f[i]
  <2>1. /\ x \in Seq(Bonds) /\ Len(x) = IF 1 <= k - 1 THEN k - 1 - 1 + 1 ELSE 0
        /\ \A i \in 1 .. k - 1 - 1 + 1 : x[i] = f[1 + i - 1]
    <3>1. 1 \in Int /\ k - 1 \in Int /\ \A i \in 1 .. k - 1 : f[i] \in Bonds
      BY <1>1
    <3> QED BY <3>1, SubSeqProperties
  <2> HIDE DEF x
  <2> QED BY <1>1, <2>1
<1>3. y \in Seq(Bonds) /\ Len(y) = Len(f) - k /\ \A i \in 1 .. Len(f) - k : y[i] = f[k + i]
  <2>1. /\ y \in Seq(Bonds) /\ Len(y) = IF k + 1 <= Len(f) THEN Len(f) - (k + 1) + 1 ELSE 0
        /\ \A i \in 1 .. Len(f) - (k + 1) + 1 : y[i] = f[(k + 1) + i - 1]
    <3>1. k + 1 \in Int /\ Len(f) \in Int /\ \A i \in k + 1 .. Len(f) : f[i] \in Bonds
      BY <1>1
    <3> QED BY <3>1, SubSeqProperties
  <2> HIDE DEF y
  <2>2. \A i \in Int : (k + 1) + i - 1 = k + i
    BY <1>1
  <2> QED BY <1>1, <2>1, <2>2
<1>4. g = x \o y
  BY DEF RemoveAt
<1> HIDE DEF x, y
<1>5. /\ g \in Seq(Bonds) /\ Len(g) = Len(x) + Len(y)
      /\ \A i \in 1 .. Len(x) + Len(y) : g[i] = IF i <= Len(x) THEN x[i] ELSE y[i - Len(x)]
  <2>1. /\ x \o y \in Seq(Bonds) /\ Len(x \o y) = Len(x) + Len(y)
        /\ \A i \in 1 .. Len(x) + Len(y) : (x \o y)[i] = IF i <= Len(x) THEN x[i] ELSE y[i - Len(x)]
    <3>1. x \in Seq(Bonds) /\ y \in Seq(Bonds)
      BY <1>2, <1>3
    <3> QED BY <3>1, ConcatProperties
  <2> QED BY <1>4, <2>1, Zenon
<1>6. Len(g) = Len(f) - 1
  BY <1>1, <1>2, <1>3, <1>5
<1>7. ASSUME NEW i \in 1 .. Len(f) - 1 PROVE g[i] = IF i < k THEN f[i] ELSE f[i + 1]
  <2>1. g[i] = IF i <= k - 1 THEN x[i] ELSE y[i - (k - 1)]
    BY <1>1, <1>2, <1>3, <1>5
  <2>2. CASE i < k
    BY <1>1, <1>2, <2>1, <2>2
  <2>3. CASE ~(i < k)
    <3>1. i - (k - 1) \in 1 .. Len(f) - k /\ k + (i - (k - 1)) = i + 1
      BY <1>1, <2>3
    <3> QED BY <1>1, <1>3, <2>1, <2>3, <3>1
  <2> QED BY <2>2, <2>3
<1> QED BY <1>5, <1>6, <1>7

\* A file has r with the source a afterwards, or does not have it, and keeps what it
\* has of the others.
LEMMA FiledIs ==
    ASSUME NEW f, FileOK(f), NEW r \in Remote, NEW a \in Addresses \cup {None}, NEW g, g = Filed(f, r, a)
    PROVE  /\ FileOK(g)
           /\ \A q \in Remote : \A b : Has(g, q, b) <=> IF q = r THEN a # None /\ b = a ELSE Has(f, q, b)
<1>1. /\ f \in Seq(Bonds) /\ Len(f) \in Nat /\ DOMAIN f = 1 .. Len(f)
      /\ \A i \in 1 .. Len(f) : f[i] \in Bonds /\ f[i] = <<f[i][1], f[i][2]>> /\ f[i][1] \in Remote
      /\ \A i, j \in 1 .. Len(f) : f[i][1] = f[j][1] => i = j
  BY LenProperties, ElementOfSeq DEF FileOK, Keyed, Bonds
<1>2. CASE Members(f, r) = {} /\ a = None
  <2>1. g = f
    BY <1>2 DEF Filed
  <2>2. \A b : ~Has(f, r, b)
    BY <1>1, <1>2 DEF Members, Has
  <2> QED BY <1>2, <2>1, <2>2
<1>3. CASE Members(f, r) = {} /\ a # None
  <2>1. g = Append(f, <<r, a>>)
    BY <1>3 DEF Filed
  <2>2. <<r, a>> \in Bonds
    BY <1>3 DEF Bonds
  <2>3. /\ g \in Seq(Bonds) /\ Len(g) = Len(f) + 1 /\ DOMAIN g = 1 .. Len(f) + 1
        /\ \A i \in 1 .. Len(f) : g[i] = f[i]
        /\ g[Len(f) + 1] = <<r, a>>
    BY <1>1, <2>1, <2>2, AppendProperties, LenProperties
  <2>4. \A i \in 1 .. Len(f) : f[i][1] # r
    BY <1>1, <1>3 DEF Members
  <2>5. \A i \in DOMAIN g : i \in 1 .. Len(f) \/ i = Len(f) + 1
    BY <1>1, <2>3
  <2>6. Keyed(g)
    BY <1>1, <2>3, <2>4, <2>5 DEF Keyed
  <2>7. ASSUME NEW q \in Remote, NEW b PROVE Has(g, q, b) <=> IF q = r THEN b = a ELSE Has(f, q, b)
    <3>1. Len(f) + 1 \in DOMAIN g /\ \A i \in DOMAIN f : i \in DOMAIN g
      BY <1>1, <2>3
    <3>2. CASE q = r
      <4>1. b = a => Has(g, q, b)
        BY <2>3, <3>1, <3>2 DEF Has
      <4>2. ASSUME NEW i \in DOMAIN g, g[i] = <<q, b>> PROVE b = a
        BY <1>1, <2>3, <2>4, <2>5, <3>2, <4>2
      <4> QED BY <3>2, <4>1, <4>2 DEF Has
    <3>3. CASE q # r
      <4>1. ASSUME NEW i \in DOMAIN g, g[i] = <<q, b>> PROVE i \in DOMAIN f /\ f[i] = <<q, b>>
        BY <1>1, <2>3, <2>5, <3>3, <4>1
      <4>2. ASSUME NEW i \in DOMAIN f, f[i] = <<q, b>> PROVE i \in DOMAIN g /\ g[i] = <<q, b>>
        BY <1>1, <2>3, <3>1, <4>2
      <4> QED BY <3>3, <4>1, <4>2 DEF Has
    <3> QED BY <3>2, <3>3
  <2> QED BY <1>3, <2>3, <2>6, <2>7 DEF FileOK
<1>4. ASSUME Members(f, r) # {}
      PROVE  /\ FileOK(g)
             /\ \A q \in Remote : \A b : Has(g, q, b) <=> IF q = r THEN a # None /\ b = a ELSE Has(f, q, b)
  <2> DEFINE k == CHOOSE i \in Members(f, r) : TRUE
  <2>1. g = IF a = None THEN RemoveAt(f, k) ELSE ReplaceAt(f, k, <<r, a>>)
    BY <1>4 DEF Filed
  <2>2. k \in Members(f, r)
    BY <1>4
  <2> HIDE DEF k
  <2>3. k \in 1 .. Len(f) /\ f[k][1] = r /\ \A i \in 1 .. Len(f) : f[i][1] = r => i = k
    BY <1>1, <2>2 DEF Members
  <2>4. CASE a = None
    <3>1. /\ g \in Seq(Bonds) /\ Len(g) = Len(f) - 1 /\ DOMAIN g = 1 .. Len(f) - 1
          /\ \A i \in 1 .. Len(f) - 1 : g[i] = IF i < k THEN f[i] ELSE f[i + 1]
      <4>1. f \in Seq(Bonds) /\ k \in 1 .. Len(f) /\ g = RemoveAt(f, k)
        BY <1>1, <2>1, <2>3, <2>4
      <4>2. /\ g \in Seq(Bonds) /\ Len(g) = Len(f) - 1
            /\ \A i \in 1 .. Len(f) - 1 : g[i] = IF i < k THEN f[i] ELSE f[i + 1]
        BY <4>1, RemoveIs
      <4>3. DOMAIN g = 1 .. Len(g)
        BY <4>2, LenProperties
      <4> QED BY <4>2, <4>3
    <3> DEFINE e(i) == IF i < k THEN i ELSE i + 1
    <3>2. \A i \in 1 .. Len(f) - 1 : e(i) \in 1 .. Len(f) /\ e(i) # k /\ g[i] = f[e(i)]
      BY <1>1, <2>3, <3>1
    <3>3. \A i, j \in 1 .. Len(f) - 1 : e(i) = e(j) => i = j
      BY <1>1, <2>3
    <3>4. ASSUME NEW i \in 1 .. Len(f), i # k PROVE \E j \in 1 .. Len(f) - 1 : e(j) = i
      <4>1. CASE i < k
        <5>1. i \in 1 .. Len(f) - 1 /\ e(i) = i
          BY <1>1, <2>3, <4>1
        <5> QED BY <5>1
      <4>2. CASE i > k
        <5>1. i - 1 \in 1 .. Len(f) - 1 /\ e(i - 1) = i
          BY <1>1, <2>3, <4>2
        <5> QED BY <5>1
      <4> QED BY <1>1, <2>3, <3>4, <4>1, <4>2
    <3> HIDE DEF e
    <3>5. Keyed(g)
      <4> SUFFICES ASSUME NEW i \in 1 .. Len(f) - 1, NEW j \in 1 .. Len(f) - 1, g[i][1] = g[j][1] PROVE i = j
        BY <3>1 DEF Keyed
      <4>1. e(i) = e(j)
        BY <1>1, <3>2
      <4> QED BY <3>3, <4>1
    <3>6. ASSUME NEW q \in Remote, NEW b PROVE Has(g, q, b) <=> q # r /\ Has(f, q, b)
      <4>1. ASSUME NEW i \in DOMAIN g, g[i] = <<q, b>> PROVE q # r /\ Has(f, q, b)
        <5>1. e(i) \in 1 .. Len(f) /\ e(i) # k /\ f[e(i)] = <<q, b>>
          BY <3>1, <3>2, <4>1
        <5>2. q # r
          BY <2>3, <5>1
        <5> QED BY <1>1, <5>1, <5>2 DEF Has
      <4>2. ASSUME q # r, NEW i \in DOMAIN f, f[i] = <<q, b>> PROVE Has(g, q, b)
        <5>1. i \in 1 .. Len(f) /\ i # k
          BY <1>1, <2>3, <4>2
        <5>2. PICK j \in 1 .. Len(f) - 1 : e(j) = i
          BY <3>4, <5>1
        <5>3. g[j] = <<q, b>> /\ j \in DOMAIN g
          BY <3>1, <3>2, <4>2, <5>2
        <5> QED BY <5>3 DEF Has
      <4> QED BY <4>1, <4>2 DEF Has
    <3> QED BY <2>4, <3>1, <3>5, <3>6 DEF FileOK
  <2>5. CASE a # None
    <3>1. <<r, a>> \in Bonds
      BY <2>5 DEF Bonds
    <3>2. g = [f EXCEPT ![k] = <<r, a>>]
      BY <2>1, <2>5 DEF ReplaceAt
    <3>3. /\ g \in Seq(Bonds) /\ DOMAIN g = 1 .. Len(f)
          /\ \A i \in 1 .. Len(f) : g[i] = IF i = k THEN <<r, a>> ELSE f[i]
      BY <1>1, <2>3, <3>1, <3>2, ExceptSeq, LenProperties
    <3>4. \A i \in 1 .. Len(f) : g[i][1] = f[i][1]
      BY <2>3, <3>3
    <3>5. Keyed(g)
      BY <1>1, <3>3, <3>4 DEF Keyed
    <3>6. ASSUME NEW q \in Remote, NEW b PROVE Has(g, q, b) <=> IF q = r THEN b = a ELSE Has(f, q, b)
      <4>1. CASE q = r
        <5>1. ASSUME NEW i \in DOMAIN g, g[i] = <<q, b>> PROVE b = a
          <6>1. i = k
            BY <2>3, <3>3, <3>4, <4>1, <5>1
          <6> QED BY <2>3, <3>3, <5>1, <6>1
        <5>2. b = a => Has(g, q, b)
          BY <2>3, <3>3, <4>1 DEF Has
        <5> QED BY <4>1, <5>1, <5>2 DEF Has
      <4>2. CASE q # r
        <5>1. \A i \in 1 .. Len(f) : g[i] = <<q, b>> <=> f[i] = <<q, b>>
          BY <2>3, <3>3, <4>2
        <5> QED BY <1>1, <3>3, <4>2, <5>1 DEF Has
      <4> QED BY <4>1, <4>2
    <3> QED BY <2>5, <3>3, <3>5, <3>6 DEF FileOK
  <2> QED BY <2>4, <2>5
<1> QED BY <1>2, <1>3, <1>4

LEMMA BindingIs ==
    ASSUME NEW f, FileOK(f), NEW r \in Remote
    PROVE  /\ \A a : Has(f, r, a) => Binding(f, r) = a /\ a \in Addresses
           /\ (\A a : ~Has(f, r, a)) => Binding(f, r) = None
           /\ Binding(f, r) # None => Has(f, r, Binding(f, r))
<1>1. /\ f \in Seq(Bonds) /\ DOMAIN f = 1 .. Len(f)
      /\ \A i \in 1 .. Len(f) : f[i] = <<f[i][1], f[i][2]>> /\ f[i][2] \in Addresses
      /\ \A i, j \in 1 .. Len(f) : f[i][1] = f[j][1] => i = j
  BY LenProperties, ElementOfSeq DEF FileOK, Keyed, Bonds
<1>2. CASE Members(f, r) = {}
  <2>1. Binding(f, r) = None
    BY <1>2 DEF Binding
  <2>2. \A a : ~Has(f, r, a)
    BY <1>2 DEF Members, Has
  <2> QED BY <2>1, <2>2
<1>3. CASE Members(f, r) # {}
  <2> DEFINE k == CHOOSE i \in Members(f, r) : TRUE
  <2>1. Binding(f, r) = f[k][2]
    BY <1>3 DEF Binding
  <2>2. k \in Members(f, r)
    BY <1>3
  <2> HIDE DEF k
  <2>3. k \in DOMAIN f /\ f[k] = <<r, f[k][2]>> /\ f[k][2] \in Addresses
    BY <1>1, <2>2 DEF Members
  <2>4. Has(f, r, f[k][2])
    BY <2>3 DEF Has
  <2>5. ASSUME NEW a, Has(f, r, a) PROVE a = f[k][2]
    <3>1. PICK i \in DOMAIN f : f[i] = <<r, a>>
      BY <2>5 DEF Has
    <3>2. i = k
      BY <1>1, <2>3, <3>1
    <3> QED BY <2>3, <3>1, <3>2
  <2> QED BY <2>1, <2>3, <2>4, <2>5
<1> QED BY <1>2, <1>3
-------------------------------------------------------------------------------
(* The file is read, when the device starts.                                   *)

\* A set of numbers that is not empty has a least one.
LEMMA LeastNumber ==
    ASSUME NEW T, T \subseteq Nat, T # {}
    PROVE  \E x \in T : \A y \in T : x <= y
<1>1. IsWellFoundedOn(OpToRel(<, Nat), Nat)
  BY NatLessThanWellFounded
<1>2. PICK x \in T : \A y \in T : ~(<<y, x>> \in OpToRel(<, Nat))
  BY <1>1, WFMin
<1>3. \A y \in T : ~(y < x)
  BY <1>2 DEF OpToRel
<1> QED BY <1>3

\* What holds of 0 and, if it holds of k < n, of k + 1, holds of all of 0 .. n.
LEMMA UpTo ==
    ASSUME NEW T, NEW n \in Nat, 0 \in T, \A k \in 0 .. n - 1 : k \in T => k + 1 \in T
    PROVE  0 .. n \subseteq T
<1> DEFINE Out == {k \in 0 .. n : k \notin T}
<1> SUFFICES ASSUME Out # {} PROVE FALSE
  OBVIOUS
<1>1. Out \subseteq Nat
  OBVIOUS
<1>2. PICK x \in Out : \A y \in Out : x <= y
  <2> HIDE DEF Out
  <2> QED BY <1>1, LeastNumber
<1>3. x # 0 /\ x - 1 \in 0 .. n - 1
  BY <1>2
<1>4. x - 1 \in T
  BY <1>2, <1>3
<1> QED BY <1>2, <1>3, <1>4

\* The sources after each member of the file.
Turn(w, file, f, k) == IF k = 0 THEN w.src ELSE Accepted(w, f[k - 1], file[k][1], file[k][2])
Reading(w, file, n, f) == f = [k \in 0 .. n |-> Turn(w, file, f, k)]
Read(w, file) == CHOOSE f : Reading(w, file, Len(file), f)

LEMMA ReadingExists ==
    ASSUME NEW w, NEW file, NEW n \in Nat
    PROVE  \E f : Reading(w, file, n, f)
<1> DEFINE T == {k \in Nat : \E f : Reading(w, file, k, f)}
<1>1. 0 \in T
  <2> DEFINE f == [k \in 0 .. 0 |-> w.src]
  <2>1. f = [k \in 0 .. 0 |-> Turn(w, file, f, k)]
    BY DEF Turn
  <2> QED BY <2>1 DEF Reading
<1>2. ASSUME NEW k \in 0 .. n - 1, k \in T PROVE k + 1 \in T
  <2>1. PICK f : Reading(w, file, k, f)
    BY <1>2
  <2> DEFINE g == [j \in 0 .. k + 1 |-> Turn(w, file, f, j)]
  <2>2. \A j \in 0 .. k : g[j] = f[j]
    BY <2>1 DEF Reading
  <2> HIDE DEF g
  <2>3. ASSUME NEW j \in 0 .. k + 1 PROVE Turn(w, file, g, j) = Turn(w, file, f, j)
    <3>1. CASE j = 0
      BY <3>1 DEF Turn
    <3>2. CASE j # 0
      <4>1. j - 1 \in 0 .. k
        BY <3>2
      <4>2. g[j - 1] = f[j - 1]
        BY <2>2, <4>1
      <4> QED BY <3>2, <4>2 DEF Turn
    <3> QED BY <3>1, <3>2
  <2>4. Reading(w, file, k + 1, g)
    BY <2>3 DEF Reading, g
  <2> QED BY <2>4
<1>3. 0 .. n \subseteq T
  <2> HIDE DEF T
  <2> QED BY <1>1, <1>2, UpTo
<1> QED BY <1>3

LEMMA ReadIs ==
    ASSUME NEW w, NEW file, Len(file) \in Nat
    PROVE  /\ Read(w, file)[0] = w.src
           /\ \A k \in 1 .. Len(file) :
                Read(w, file)[k] = Accepted(w, Read(w, file)[k - 1], file[k][1], file[k][2])
<1> DEFINE f == Read(w, file)
<1>1. Reading(w, file, Len(file), f)
  BY ReadingExists DEF Read
<1> HIDE DEF f
<1>2. \A k \in 0 .. Len(file) : f[k] = Turn(w, file, f, k)
  BY <1>1 DEF Reading
<1>3. f[0] = w.src
  BY <1>2 DEF Turn
<1>4. \A k \in 1 .. Len(file) : f[k] = Accepted(w, f[k - 1], file[k][1], file[k][2])
  BY <1>2 DEF Turn
<1> QED BY <1>3, <1>4 DEF f

\* The sources f, of which no two in use are the same.
Apart(w, f) == \A r, q \in w.bound \cap Remote : f[r] = f[q] => f[r] = None \/ r = q
Sources(f) == DOMAIN f = Remote /\ \A r \in Remote : f[r] \in Addresses \cup {None}

LEMMA AcceptedIs ==
    ASSUME NEW w, DOMAIN w = NetFields, NEW f, Sources(f), Apart(w, f), NEW r \in Remote, NEW a \in Addresses,
           NEW g, g = Accepted(w, f, r, a)
    PROVE  /\ Sources(g) /\ Apart(w, g) /\ g[r] \in {f[r], a}
           /\ \A q \in Remote \ {r} : g[q] = f[q]
           /\ (\A q \in (w.bound \cap Remote) \ {r} : f[q] # a) => g[r] = a
<1> DEFINE t == [w EXCEPT !.src = f]
<1>1. t.src = f /\ t.bound = w.bound
  BY DEF NetFields
<1>2. g = IF TakenByOther(t, r, a) THEN f ELSE [f EXCEPT ![r] = a]
  BY DEF Accepted
<1> HIDE DEF t
<1>3. TakenByOther(t, r, a) <=> \E q \in (w.bound \cap Remote) \ {r} : f[q] = a
  BY <1>1, RemoteAssumption DEF TakenByOther, Sourced
<1>4. CASE TakenByOther(t, r, a)
  BY <1>2, <1>3, <1>4
<1>5. CASE ~TakenByOther(t, r, a)
  <2>1. Sources(g) /\ g[r] = a /\ \A q \in Remote \ {r} : g[q] = f[q]
    BY <1>2, <1>5 DEF Sources
  <2>2. Apart(w, g)
    BY <1>3, <1>5, <2>1 DEF Apart
  <2> QED BY <2>1, <2>2
<1> QED BY <1>4, <1>5

LEMMA ReadOK ==
    ASSUME NEW w, Shaped(w), NEW file, FileOK(file), Sources(w.src), Apart(w, w.src)
    PROVE  \A k \in 0 .. Len(file) : Sources(Read(w, file)[k]) /\ Apart(w, Read(w, file)[k])
<1> DEFINE n == Len(file)
           now == Read(w, file)
           T == {k \in Nat : Sources(now[k]) /\ Apart(w, now[k])}
<1>1. n \in Nat /\ \A i \in 1 .. n : file[i][1] \in Remote /\ file[i][2] \in Addresses
  BY LenProperties, ElementOfSeq DEF FileOK, Bonds
<1>2. now[0] = w.src /\ \A k \in 1 .. n : now[k] = Accepted(w, now[k - 1], file[k][1], file[k][2])
  BY <1>1, ReadIs
<1> HIDE DEF now
<1>3. 0 \in T
  BY <1>2
<1>4. ASSUME NEW k \in 0 .. n - 1, k \in T PROVE k + 1 \in T
  <2>1. k + 1 \in 1 .. n /\ (k + 1) - 1 = k
    BY <1>1
  <2>2. now[k + 1] = Accepted(w, now[k], file[k + 1][1], file[k + 1][2])
    BY <1>2, <2>1
  <2>3. file[k + 1][1] \in Remote /\ file[k + 1][2] \in Addresses
    BY <1>1, <2>1
  <2>4. Sources(now[k]) /\ Apart(w, now[k]) /\ DOMAIN w = NetFields
    BY <1>4 DEF Shaped
  <2>5. Sources(now[k + 1]) /\ Apart(w, now[k + 1])
    BY <2>2, <2>3, <2>4, AcceptedIs
  <2> QED BY <1>1, <2>5
<1>5. 0 .. n \subseteq T
  <2> HIDE DEF T, n
  <2> QED BY <1>1, <1>3, <1>4, UpTo
<1> QED BY <1>5 DEF now

LEMMA SetToSeqIs ==
    ASSUME NEW S, IsFiniteSet(S), NEW f, f = SetToSeq(S)
    PROVE  f \in Seq(S) /\ (\A i, j \in DOMAIN f : f[i] = f[j] => i = j)
           /\ \A x \in S : \E i \in DOMAIN f : f[i] = x
<1>1. Cardinality(S) \in Nat /\ ExistsBijection(1 .. Cardinality(S), S)
  BY FS_CardinalityType
<1>2. \E g \in [1 .. Cardinality(S) -> S] : IsInjective(g)
  BY <1>1 DEF ExistsBijection, Bijection, Injection
<1>3. f \in [1 .. Cardinality(S) -> S] /\ IsInjective(f)
  BY <1>2 DEF SetToSeq
<1>4. f \in Seq(S)
  BY <1>1, <1>3, SeqDef
<1>5. IsFiniteSet(1 .. Cardinality(S)) /\ Cardinality(1 .. Cardinality(S)) = Cardinality(S)
  BY <1>1, FS_Interval
<1>6. f \in Injection(1 .. Cardinality(S), S)
  BY <1>3 DEF Injection
<1>7. f \in Surjection(1 .. Cardinality(S), S)
  BY <1>5, <1>6, FS_Injection
<1>8. \A x \in S : \E i \in DOMAIN f : f[i] = x
  BY <1>3, <1>7 DEF Surjection
<1> QED BY <1>3, <1>4, <1>8 DEF IsInjective

LEMMA NoFile == FileOK(<<>>) /\ \A r : \A a : ~Has(<<>>, r, a)
BY DEF FileOK, Keyed, Has

\* What loadRemoteSources() leaves when it finds this in the file: the sources src of it,
\* and the file as it was, as those in use are, gone, or not corrected.
Agreed(w, src) == \A r \in w.bound \cap Remote : Binding(w.sources, r) = src[r]
Refiled(w, u, found, src) ==
    \/ found = w.sources /\ Agreed(w, src) /\ u.sources = w.sources /\ u.kept = "all"
    \/ /\ u.kept = IF found = w.sources THEN "all" ELSE "some"
       /\ \A r \in Remote : \A a : Has(u.sources, r, a) <=> r \in w.bound /\ a = src[r] /\ a # None
    \/ u.sources = <<>> /\ u.kept = "some"
    \/ u.sources = w.sources /\ u.kept = "unknown"
Loading(w, u, found, src) ==
    /\ Sources(src) /\ Apart(w, src)
    /\ Shaped(u) /\ Same(w, u, {"src", "remote", "own", "sources", "kept", "ok"}) /\ u.src = src
    /\ \A r \in Remote : u.remote[r] = IF src[r] # w.src[r] THEN Unlearned ELSE w.remote[r]
    /\ \A m \in Managed : /\ SameOwn(w, u, m, {"avail", "pending"})
                           /\ \/ SameOwn(w, u, m, {})
                              \/ Mirrors[m] # None /\ u.own[m].pending = TRUE
    /\ FileOK(u.sources) /\ Refiled(w, u, found, src)

\* The file of the values S, in some order, as they have the sources src.
LEMMA AnewIs ==
    ASSUME NEW S, S \subseteq Remote, NEW src, \A r \in S : src[r] \in Addresses,
           NEW inUse, inUse = SetToSeq(S),
           NEW anew, anew = [i \in DOMAIN inUse |-> <<inUse[i], src[inUse[i]]>>]
    PROVE  FileOK(anew) /\ \A r \in Remote : \A a : Has(anew, r, a) <=> r \in S /\ a = src[r]
<1>1. \A r \in S : <<r, src[r]>> \in Bonds
  BY DEF Bonds
<1>2. IsFiniteSet(S)
  BY FS_Subset, RemoteAssumption
<1>3. inUse \in Seq(S) /\ (\A i, j \in DOMAIN inUse : inUse[i] = inUse[j] => i = j)
      /\ \A r \in S : \E i \in DOMAIN inUse : inUse[i] = r
  BY <1>2, SetToSeqIs
<1>4. /\ Len(inUse) \in Nat /\ DOMAIN inUse = 1 .. Len(inUse)
      /\ \A i \in 1 .. Len(inUse) : inUse[i] \in S
  BY <1>3, LenProperties, ElementOfSeq
<1>5. anew \in [1 .. Len(inUse) -> Bonds]
  BY <1>1, <1>4
<1>6. anew \in Seq(Bonds)
  BY <1>4, <1>5, SeqDef
<1>7. Keyed(anew)
  BY <1>3 DEF Keyed
<1>8. ASSUME NEW r \in Remote, NEW a PROVE Has(anew, r, a) <=> r \in S /\ a = src[r]
  <2>1. DOMAIN anew = DOMAIN inUse /\ \A i \in DOMAIN inUse : anew[i] = <<inUse[i], src[inUse[i]]>>
    OBVIOUS
  <2>2. ASSUME Has(anew, r, a) PROVE r \in S /\ a = src[r]
    <3>1. PICK i \in DOMAIN inUse : anew[i] = <<r, a>>
      BY <2>1, <2>2 DEF Has
    <3>2. inUse[i] = r /\ src[inUse[i]] = a
      BY <2>1, <3>1
    <3> QED BY <1>4, <3>2
  <2>3. ASSUME r \in S, a = src[r] PROVE Has(anew, r, a)
    <3>1. PICK i \in DOMAIN inUse : inUse[i] = r
      BY <1>3, <2>3
    <3>2. anew[i] = <<r, a>>
      BY <2>1, <2>3, <3>1
    <3> QED BY <2>1, <3>2 DEF Has
  <2> QED BY <2>2, <2>3
<1> QED BY <1>6, <1>7, <1>8 DEF FileOK

LEMMA LoadFoundIs ==
    ASSUME NEW w, Shaped(w), FileOK(w.sources), Sources(w.src), Apart(w, w.src),
           NEW found, FileOK(found), NEW u \in LoadFound(w, found)
    PROVE  Loading(w, u, found, Read(w, found)[Len(found)])
<1> DEFINE now == Read(w, found)
           src == now[Len(found)]
           moved == {r \in Remote : src[r] # w.src[r]}
           mirrors == UNION {Dependents(w, r) : r \in moved}
           g == [r \in Remote |-> IF r \in moved THEN Unlearned ELSE w.remote[r]]
           f == [m \in Managed |-> IF m \in mirrors THEN [w.own[m] EXCEPT !.avail = FALSE, !.pending = TRUE] ELSE w.own[m]]
           read == [w EXCEPT !.src = src, !.remote = g, !.own = f]
           inUse == SetToSeq(Sourced(read))
           anew == [i \in DOMAIN inUse |-> <<inUse[i], src[inUse[i]]>>]
           kept == IF found = w.sources THEN "all" ELSE "some"
<1>1. u \in IF found = w.sources /\ \A r \in w.bound \cap Remote : Binding(found, r) = src[r]
            THEN {[read EXCEPT !.kept = kept]}
            ELSE Unheeded(Write(read, anew, kept))
  BY DEF LoadFound, OnOwn, Read, Reading, Turn
<1>2. Len(found) \in Nat
  BY LenProperties DEF FileOK
<1>3. Sources(src) /\ Apart(w, src)
  BY <1>2, ReadOK
<1>4. \A m \in mirrors : Mirrors[m] # None
  BY ManagedAssumption DEF Dependents
<1> HIDE DEF src, mirrors, kept
<1>5. /\ DOMAIN f = Managed
      /\ \A m \in Managed : /\ DOMAIN f[m] = OwnFields
                            /\ \A h \in OwnFields \ {"avail", "pending"} : f[m][h] = w.own[m][h]
                            /\ m \in mirrors => f[m].pending = TRUE
                            /\ m \notin mirrors => f[m] = w.own[m]
  BY DEF Shaped, OwnFields
<1>6. /\ DOMAIN g = Remote
      /\ \A r \in Remote : DOMAIN g[r] = RemoteFields /\ g[r] = IF src[r] # w.src[r] THEN Unlearned ELSE w.remote[r]
  BY DEF Shaped, RemoteFields, Unlearned
<1> HIDE DEF f, g
<1>7. /\ DOMAIN read = NetFields /\ read.src = src /\ read.remote = g /\ read.own = f
      /\ Same(w, read, {"src", "remote", "own"})
  BY DEF Shaped, NetFields, Same
<1> HIDE DEF read
<1>8. Shaped(read)
  BY <1>3, <1>5, <1>6, <1>7 DEF Shaped, Same, NetFields, Sources
<1>9. read.sources = w.sources /\ read.bound = w.bound
  BY <1>7 DEF Same, NetFields
<1>10. /\ FileOK(anew)
       /\ \A r \in Remote : \A a : Has(anew, r, a) <=> r \in w.bound /\ a = src[r] /\ a # None
  <2>1. Sourced(read) = {r \in w.bound \cap Remote : src[r] # None}
    BY <1>7, <1>9 DEF Sourced
  <2>2. Sourced(read) \subseteq Remote /\ \A r \in Sourced(read) : src[r] \in Addresses
    BY <1>3, <2>1 DEF Sources
  <2>3. FileOK(anew) /\ \A r \in Remote : \A a : Has(anew, r, a) <=> r \in Sourced(read) /\ a = src[r]
    <3> HIDE DEF inUse
    <3>1. inUse = SetToSeq(Sourced(read))
      BY DEF inUse
    <3> QED BY <2>2, <3>1, AnewIs
  <2> HIDE DEF anew
  <2> QED BY <2>1, <2>3
<1> HIDE DEF anew
<1>11. /\ Shaped(u) /\ Same(read, u, {"sources", "kept", "ok"})
       /\ FileOK(u.sources) /\ Refiled(w, u, found, src)
  <2>1. CASE found = w.sources /\ \A r \in w.bound \cap Remote : Binding(found, r) = src[r]
    <3>1. u = [read EXCEPT !.kept = kept]
      BY <1>1, <2>1
    <3>2. DOMAIN u = NetFields /\ Same(read, u, {"kept"}) /\ u.sources = w.sources /\ u.kept = "all"
      BY <1>7, <1>9, <2>1, <3>1 DEF Same, NetFields, kept
    <3>3. Shaped(u)
      BY <1>8, <3>2, OtherFields DEF NetFields
    <3> QED BY <2>1, <3>2, <3>3 DEF Same, Refiled, Agreed
  <2>2. CASE ~(found = w.sources /\ \A r \in w.bound \cap Remote : Binding(found, r) = src[r])
    <3>1. Rewritten(read, u, anew, kept)
      BY <1>1, <1>8, <2>2, UnheededIs
    <3>2. FileOK(<<>>)
      BY NoFile
    <3>3. /\ Shaped(u) /\ Same(read, u, {"sources", "kept", "ok"})
          /\ \/ u.sources = anew /\ u.kept = kept
             \/ u.sources = <<>> /\ u.kept = "some"
             \/ u.sources = w.sources /\ u.kept = "unknown"
      BY <1>9, <3>1 DEF Rewritten, Filewise
    <3>4. FileOK(u.sources)
      BY <1>10, <3>2, <3>3
    <3>5. Refiled(w, u, found, src)
      BY <1>10, <3>3 DEF Refiled, kept
    <3> QED BY <3>3, <3>4, <3>5
  <2> QED BY <2>1, <2>2
<1>12. Same(w, u, {"src", "remote", "own", "sources", "kept", "ok"})
  BY <1>7, <1>11 DEF Same
<1>13. u.src = src /\ u.remote = g /\ u.own = f
  BY <1>7, <1>11 DEF Same, NetFields
<1>14. \A m \in Managed : /\ SameOwn(w, u, m, {"avail", "pending"})
                           /\ \/ SameOwn(w, u, m, {})
                              \/ Mirrors[m] # None /\ u.own[m].pending = TRUE
  BY <1>4, <1>5, <1>13 DEF SameOwn
<1>15. Loading(w, u, found, src)
  BY <1>3, <1>6, <1>11, <1>12, <1>13, <1>14 DEF Loading
<1> QED BY <1>15 DEF src

LEMMA LoadSourcesIs ==
    ASSUME NEW w, Shaped(w), FileOK(w.sources), Sources(w.src), Apart(w, w.src), NEW u \in LoadSources(w)
    PROVE  \E found : FileOK(found) /\ Loading(w, u, found, Read(w, found)[Len(found)])
<1>1. PICK found \in Found(w) : u \in LoadFound(w, found)
  BY DEF LoadSources
<1>2. found = w.sources \/ found = <<>>
  BY <1>1 DEF Found
<1>3. FileOK(found)
  BY <1>2, NoFile
<1> QED BY <1>1, <1>3, LoadFoundIs

\* What configuring r leaves of the sources and of their file: of the others, their sources;
\* and the file as it was, with r unchanged, or with the source that r has now, or with
\* nothing but that.
Filing(w, u, r) ==
    /\ FileOK(u.sources) /\ Sources(u.src) /\ u.bound = w.bound
    /\ \A q \in Remote \ {r} : u.src[q] = w.src[q]
    /\ \/ u.src[r] = w.src[r] /\ u.sources = w.sources /\ u.kept = w.kept
       \/ /\ u.kept = w.kept
          /\ \A q \in Remote \ {r} : \A b : Has(u.sources, q, b) <=> Has(w.sources, q, b)
          /\ \A b : Has(u.sources, r, b) <=> u.src[r] # None /\ b = u.src[r]
       \/ u.kept = "some" /\ \A q \in Remote : \A b : Has(u.sources, q, b) => q = r /\ b = u.src[r]

LEMMA MovingFrame ==
    ASSUME NEW w, Sources(w.src), NEW r \in w.bound \cap Remote, NEW a \in Addresses \cup {None},
           NEW t, NEW v, NEW u, Moving(w, t, v, u, r, a)
    PROVE  /\ u.bound = w.bound /\ u.sources = w.sources /\ u.kept = w.kept /\ Sources(u.src) /\ Shaped(u)
           /\ u.src[r] = a /\ \A q \in Remote \ {r} : u.src[q] = w.src[q]
<1>1. /\ u.bound = w.bound /\ u.src[r] = a /\ \A q \in Remote \ {r} : u.src[q] = w.src[q]
      /\ Same(w, u, {"own", "retained", "src", "remote", "subs", "inbox"}) /\ Shaped(u)
  BY MovingIs
<1>2. u.sources = w.sources /\ u.kept = w.kept
  BY <1>1 DEF Same, NetFields
<1>3. Sources(u.src)
  BY <1>1 DEF Sources, Shaped
<1> QED BY <1>1, <1>2, <1>3

\* What storing the source a of r leaves: the file as it was with a, or nothing but a; and
\* when it fails, the file as it was, or none.
Untouched(w, p) ==
    p.ok = FALSE /\ ((p.sources = w.sources /\ p.kept = w.kept) \/ (p.sources = <<>> /\ p.kept = "some"))
Added(w, p, r, a) ==
    /\ p.ok = TRUE /\ p.kept = w.kept
    /\ \A q \in Remote \ {r} : \A b : Has(p.sources, q, b) <=> Has(w.sources, q, b)
    /\ \A b : Has(p.sources, r, b) <=> a # None /\ b = a
Begun(p, r, a) ==
    /\ p.ok = TRUE /\ p.kept = "some"
    /\ \A q \in Remote : \A b : Has(p.sources, q, b) => q = r /\ b = a

LEMMA PersistFiles ==
    ASSUME NEW w, Shaped(w), FileOK(w.sources), NEW r \in Remote, NEW a \in Addresses \cup {None},
           NEW p \in Persist(w, r, a)
    PROVE  /\ FileOK(p.sources) /\ p.bound = w.bound /\ p.src = w.src
           /\ Untouched(w, p) \/ Added(w, p, r, a) \/ Begun(p, r, a)
<1>1. /\ Filewise(w, p)
      /\ \/ p.ok = TRUE /\ p.sources = Filed(w.sources, r, a) /\ p.kept = w.kept
         \/ p.ok = TRUE /\ p.sources = Filed(<<>>, r, a) /\ p.kept = "some"
         \/ p.ok = FALSE /\ p.sources = w.sources /\ p.kept = w.kept
         \/ p.ok = FALSE /\ p.sources = <<>> /\ p.kept = "some"
  BY PersistIs
<1>2. p.bound = w.bound /\ p.src = w.src
  BY <1>1 DEF Filewise, Same, NetFields
<1>3. CASE p.ok = TRUE /\ p.sources = Filed(w.sources, r, a) /\ p.kept = w.kept
  <2>1. /\ FileOK(p.sources)
        /\ \A q \in Remote : \A b : Has(p.sources, q, b) <=> IF q = r THEN a # None /\ b = a ELSE Has(w.sources, q, b)
    BY <1>3, FiledIs
  <2> QED BY <1>2, <1>3, <2>1 DEF Added
<1>4. CASE p.ok = TRUE /\ p.sources = Filed(<<>>, r, a) /\ p.kept = "some"
  <2>1. /\ FileOK(p.sources)
        /\ \A q \in Remote : \A b : Has(p.sources, q, b) <=> IF q = r THEN a # None /\ b = a ELSE Has(<<>>, q, b)
    BY <1>4, FiledIs, NoFile
  <2> QED BY <1>2, <1>4, <2>1, NoFile DEF Begun
<1>5. CASE p.ok = FALSE
  BY <1>1, <1>2, <1>5, NoFile DEF Untouched
<1> QED BY <1>1, <1>3, <1>4, <1>5

LEMMA ConfigureSourceFiles ==
    ASSUME NEW w, Shaped(w), FileOK(w.sources), Sources(w.src), NEW r \in w.bound \cap Remote,
           NEW a \in Addresses \cup {None}, NEW u \in ConfigureSource(w, r, a)
    PROVE  Filing(w, u, r)
<1>1. Configuring(w, u, r, a)
  BY ConfigureSourceIs
<1>2. CASE u = w
  BY <1>2 DEF Filing
<1>3. ASSUME w.src[r] = a, NEW p \in Persist(w, r, a), Shaped(u), Same(p, u, {"ok"})
      PROVE  Filing(w, u, r)
  <2>1. u.bound = p.bound /\ u.src = p.src /\ u.sources = p.sources /\ u.kept = p.kept
    BY <1>3 DEF Same, NetFields
  <2>2. /\ FileOK(p.sources) /\ p.bound = w.bound /\ p.src = w.src
        /\ Untouched(w, p) \/ Added(w, p, r, a) \/ Begun(p, r, a)
    BY <1>3, PersistFiles
  <2>3. CASE Untouched(w, p)
    BY <2>1, <2>2, <2>3, NoFile DEF Filing, Untouched
  <2>4. CASE Added(w, p, r, a)
    BY <1>3, <2>1, <2>2, <2>4 DEF Filing, Added
  <2>5. CASE Begun(p, r, a)
    BY <1>3, <2>1, <2>2, <2>5 DEF Filing, Begun
  <2> QED BY <2>2, <2>3, <2>4, <2>5
<1>4. ASSUME w.src[r] # a, NEW t, NEW v, NEW n, Moving(w, t, v, n, r, a), NEW p \in Persist(n, r, a),
             \/ p.ok /\ u = p
             \/ ~p.ok /\ \E s, x, y : Shaped(s) /\ Same(p, s, {"ok"}) /\ Moving(s, x, y, u, r, w.src[r])
      PROVE  Filing(w, u, r)
  <2>1. /\ n.bound = w.bound /\ n.sources = w.sources /\ n.kept = w.kept /\ Sources(n.src) /\ Shaped(n)
        /\ n.src[r] = a /\ \A q \in Remote \ {r} : n.src[q] = w.src[q]
    BY <1>4, MovingFrame
  <2>2. /\ FileOK(p.sources) /\ p.bound = w.bound /\ p.src = n.src
        /\ Untouched(w, p) \/ Added(w, p, r, a) \/ Begun(p, r, a)
    <3>1. FileOK(n.sources) /\ Shaped(n) /\ r \in Remote
      BY <2>1
    <3>2. /\ FileOK(p.sources) /\ p.bound = n.bound /\ p.src = n.src
          /\ Untouched(n, p) \/ Added(n, p, r, a) \/ Begun(p, r, a)
      BY <1>4, <3>1, PersistFiles
    <3> QED BY <2>1, <3>2 DEF Untouched, Added
  <2>3. CASE p.ok /\ u = p
    <3>1. Added(w, p, r, a) \/ Begun(p, r, a)
      BY <2>2, <2>3 DEF Untouched
    <3>2. u.src[r] = a /\ \A q \in Remote \ {r} : u.src[q] = w.src[q]
      BY <2>1, <2>2, <2>3
    <3>3. FileOK(u.sources) /\ u.bound = w.bound /\ Sources(u.src)
      BY <2>1, <2>2, <2>3
    <3>4. CASE Added(w, p, r, a)
      BY <2>3, <3>2, <3>3, <3>4 DEF Filing, Added
    <3>5. CASE Begun(p, r, a)
      BY <2>3, <3>2, <3>3, <3>5 DEF Filing, Begun
    <3> QED BY <3>1, <3>4, <3>5
  <2>4. ASSUME ~p.ok, NEW s, NEW x, NEW y, Shaped(s), Same(p, s, {"ok"}), Moving(s, x, y, u, r, w.src[r])
        PROVE  Filing(w, u, r)
    <3>1. s.bound = w.bound /\ s.src = n.src /\ s.sources = p.sources /\ s.kept = p.kept
      BY <2>2, <2>4 DEF Same, NetFields
    <3>2. w.src[r] \in Addresses \cup {None}
      BY DEF Sources
    <3>3. /\ u.bound = s.bound /\ u.sources = s.sources /\ u.kept = s.kept /\ Sources(u.src)
          /\ u.src[r] = w.src[r] /\ \A q \in Remote \ {r} : u.src[q] = s.src[q]
      BY <2>1, <2>4, <3>1, <3>2, MovingFrame
    <3>4. (u.sources = w.sources /\ u.kept = w.kept) \/ (u.sources = <<>> /\ u.kept = "some")
      BY <2>2, <2>4, <3>1, <3>3 DEF Untouched, Added, Begun
    <3>5. FileOK(u.sources) /\ u.bound = w.bound /\ \A q \in Remote \ {r} : u.src[q] = w.src[q]
      BY <2>1, <2>2, <3>1, <3>3
    <3> QED BY <3>3, <3>4, <3>5, NoFile DEF Filing
  <2> QED BY <1>4, <2>3, <2>4
<1> QED BY <1>1, <1>2, <1>3, <1>4 DEF Configuring

\* What unbinding x leaves of them: the file has the others, or it is gone, or it was not
\* rewritten.
Freed(w, u, x) ==
    /\ u.bound = w.bound \ {x} /\ u.src = w.src /\ FileOK(u.sources)
    /\ \/ /\ u.kept = w.kept
          /\ \A q \in Remote \ {x} : \A c : Has(u.sources, q, c) <=> Has(w.sources, q, c)
          /\ x \in Remote => \A c : ~Has(u.sources, x, c)
       \/ u.sources = <<>> /\ u.kept = "some"
       \/ u.sources = w.sources /\ u.kept = "unknown"

LEMMA UnbindRemoteFrees ==
    ASSUME NEW w, Shaped(w), FileOK(w.sources), NEW r \in Remote, NEW u \in UnbindRemote(w, r)
    PROVE  Freed(w, u, r)
<1>1. PICK t, b, f : UnbindingRemote(w, t, b, f, u, r)
  BY UnbindRemoteIs
<1>2. Stays(w, t)
  BY <1>1, LostStays DEF UnbindingRemote
<1>3. b.src = w.src /\ b.sources = w.sources /\ b.kept = w.kept /\ b.bound = w.bound \ {r}
  BY <1>1, <1>2 DEF UnbindingRemote, Same, NetFields, Stays
<1>4. f.src = w.src /\ f.sources = w.sources /\ f.kept = w.kept /\ f.bound = w.bound \ {r}
  BY <1>1, <1>3 DEF UnbindingRemote, Same, NetFields
<1>5. u.src = w.src /\ u.bound = w.bound \ {r}
  BY <1>1, <1>4 DEF UnbindingRemote, Rewritten, Filewise, Same, NetFields
<1>6. \/ u.sources = Filed(w.sources, r, None) /\ u.kept = w.kept
      \/ u.sources = <<>> /\ u.kept = "some"
      \/ u.sources = w.sources /\ u.kept = "unknown"
  BY <1>1, <1>4 DEF UnbindingRemote, Rewritten
<1>7. CASE u.sources = Filed(w.sources, r, None) /\ u.kept = w.kept
  <2>1. /\ FileOK(u.sources)
        /\ \A q \in Remote : \A c : Has(u.sources, q, c) <=> IF q = r THEN None # None /\ c = None ELSE Has(w.sources, q, c)
    <3>1. None \in Addresses \cup {None}
      OBVIOUS
    <3> QED BY <1>7, <3>1, FiledIs
  <2> QED BY <1>5, <1>7, <2>1 DEF Freed
<1>8. CASE (u.sources = <<>> /\ u.kept = "some") \/ (u.sources = w.sources /\ u.kept = "unknown")
  BY <1>5, <1>8, NoFile DEF Freed
<1> QED BY <1>6, <1>7, <1>8

-------------------------------------------------------------------------------
(* What a call does to what is bound, to the sources and to their file.        *)

Bonded(w, u, x) ==
    u.bound = w.bound \cup {x} /\ u.src = w.src /\ u.sources = w.sources /\ u.kept = w.kept
Effect(w, u) ==
    \/ Stays(w, u)
    \/ \E r \in w.bound \cap Remote : Filing(w, u, r)
    \/ \E x \in declared \ w.bound : Bonded(w, u, x)
    \/ \E x \in Dropped \cap w.bound : Freed(w, u, x)

LEMMA BindManagedBonds ==
    ASSUME NEW w, Shaped(w), NEW m \in Managed, NEW u \in BindManaged(w, m)
    PROVE  Stays(w, u) \/ Bonded(w, u, m)
<1>1. PICK t : Retuned(w, t, {m}) /\ (u = t \/ Bindings(t, u, m))
  BY BindManagedIs
<1>2. Stays(w, t)
  BY <1>1, RetunedStays
<1>3. ASSUME Bindings(t, u, m) PROVE Bonded(w, u, m)
  <2>1. PICK b, v : /\ Shaped(b) /\ Same(t, b, {"bound"}) /\ b.bound = t.bound \cup {m}
                    /\ v \in PublishManifest(b) /\ u \in PublishState(v, m)
    BY <1>3 DEF Bindings
  <2>2. Bonded(w, b, m)
    BY <1>2, <2>1 DEF Bonded, Stays, Same, NetFields
  <2>3. Stays(b, v)
    BY <2>1, PublishManifestStays
  <2>4. Shaped(v)
    BY <2>1, ManifestIs
  <2>5. {m} \in SUBSET Managed
    OBVIOUS
  <2>6. Published(v, u, {m})
    BY <2>1, <2>4, <2>5, PublishStatesIs DEF PublishState
  <2>7. Stays(v, u)
    BY <2>6, PublishedStays
  <2> QED BY <2>2, <2>3, <2>7 DEF Bonded, Stays
<1> QED BY <1>1, <1>2, <1>3

LEMMA UnbindManagedFrees ==
    ASSUME NEW w, Shaped(w), FileOK(w.sources), NEW m \in Managed, NEW u \in UnbindManaged(w, m)
    PROVE  Freed(w, u, m)
<1>1. PICK t, s, b : /\ Lost(w, t, m) /\ Same(t, s, {"retained"})
                     /\ Shaped(b) /\ Same(s, b, {"bound"}) /\ b.bound = s.bound \ {m}
                     /\ u \in PublishManifest(b)
  BY UnbindManagedIs DEF Unbinding
<1>2. Stays(w, t)
  BY <1>1, LostStays
<1>3. b.bound = w.bound \ {m} /\ b.src = w.src /\ b.sources = w.sources /\ b.kept = w.kept
  BY <1>1, <1>2 DEF Same, NetFields, Stays
<1>4. Stays(b, u)
  BY <1>1, PublishManifestStays
<1>5. m \notin Remote
  BY ManagedAssumption
<1> QED BY <1>3, <1>4, <1>5 DEF Stays, Freed

LEMMA BindRemoteBonds ==
    ASSUME NEW w, Shaped(w), NEW r \in Remote \ w.bound, NEW u \in BindRemote(w, r)
    PROVE  Stays(w, u) \/ Bonded(w, u, r)
<1>1. u = w \/ BindingRemote(w, u, r)
  BY BindRemoteIs
<1>2. ASSUME BindingRemote(w, u, r) PROVE Bonded(w, u, r)
  BY <1>2 DEF BindingRemote, Same, NetFields, Bonded
<1> QED BY <1>1, <1>2, StaysSame

-------------------------------------------------------------------------------
(* A start.                                                                    *)

\* Nothing is known of any value, and nothing is subscribed to.
Untold(w) ==
    /\ Shaped(w) /\ w.subs = {} /\ \A m \in Managed : w.own[m].value = None
    /\ \A r \in Remote : w.remote[r].wish = None

LEMMA BlankOK ==
    ASSUME NEW w, Untold(w), ~online, Apart(w, w.src)
    PROVE  NetOK(w)
<1>1. MirrorsOK(w)
  BY DEF Untold, MirrorsOK, Agrees
<1>2. Unique(w)
  BY DEF Apart, Unique, Sourced
<1>3. LinksOK(w)
  BY <1>2 DEF LinksOK, Untold, WishesOK
<1> QED BY <1>1, <1>3 DEF NetOK, Untold

LEMMA DeclaredApart ==
    ASSUME NEW w
    PROVE  Sources(Declared) /\ Apart(w, Declared)
BY RemoteAssumption DEF Sources, Apart

LEMMA StartedIs ==
    ASSUME NEW w, Shaped(w), NEW u, u = Started(w)
    PROVE  /\ Untold(u) /\ u.src = Declared /\ u.bound = {}
           /\ u.sources = w.sources /\ u.kept = w.kept
<1>1. /\ DOMAIN u = NetFields /\ u.own = [m \in Managed |-> New] /\ u.src = Declared
      /\ u.remote = [r \in Remote |-> Unlearned] /\ u.subs = {} /\ u.bound = {}
      /\ u.sources = w.sources /\ u.kept = w.kept /\ u.retained = w.retained
  BY DEF Started, Shaped, NetFields
<1>2. DOMAIN New = OwnFields /\ New.value = None /\ DOMAIN Unlearned = RemoteFields /\ Unlearned.wish = None
  BY DEF New, Unlearned, OwnFields, RemoteFields
<1>3. DOMAIN Declared = Remote
  BY RemoteAssumption
<1>4. Shaped(u)
  BY <1>1, <1>2, <1>3 DEF Shaped
<1> QED BY <1>1, <1>2, <1>4 DEF Untold

\* The device as it stops: the file may be lost in that.
LEMMA CutOffIs ==
    ASSUME NEW w, Shaped(w), NEW c \in {w} \cup CutOff(w)
    PROVE  /\ Filewise(w, c)
           /\ (c.sources = w.sources /\ c.kept = w.kept) \/ (c.sources = <<>> /\ c.kept = "some")
<1>1. CASE c = w
  BY <1>1 DEF Filewise, Same
<1>2. CASE c # w
  <2>1. c = [w EXCEPT !.sources = <<>>, !.kept = "some"]
    BY <1>2 DEF CutOff
  <2>2. DOMAIN c = NetFields /\ Same(w, c, {"sources", "kept"}) /\ c.sources = <<>> /\ c.kept = "some"
    BY <2>1 DEF Shaped, NetFields, Same
  <2>3. Shaped(c)
    BY <2>2, OtherFields DEF NetFields
  <2> QED BY <2>2, <2>3 DEF Filewise, Same
<1> QED BY <1>1, <1>2

\* The device w once it has started: its values are B, and its sources those that what
\* is found in the file gives to the declared ones.
Booted(w, u, B, v) ==
    /\ Untold(v) /\ v.bound = B /\ v.src = Declared /\ v.sources = w.sources /\ v.kept = w.kept
    /\ Untold(u) /\ u.bound = B /\ FileOK(u.sources) /\ Apart(u, u.src) /\ Sources(u.src)
    /\ \E found : /\ FileOK(found) /\ u.src = Read(v, found)[Len(found)]
                  /\ Refiled(v, u, found, u.src)

LEMMA BootIs ==
    ASSUME NEW w, Shaped(w), FileOK(w.sources), NEW B,
           NEW v \in LoadSettings([Started(w) EXCEPT !.bound = B]), NEW x \in LoadSources(v),
           NEW u, u = [x EXCEPT !.dirty = TRUE]
    PROVE  Booted(w, u, B, v)
<1> DEFINE o == Started(w)
           s == [o EXCEPT !.bound = B]
<1>1. Untold(o) /\ o.src = Declared /\ o.sources = w.sources /\ o.kept = w.kept
  BY StartedIs
<1>2. Shaped(o)
  BY <1>1 DEF Untold
<1> HIDE DEF o
<1>3. Shaped(s) /\ Same(o, s, {"bound"}) /\ s.bound = B
  BY <1>2, BoundIs
<1> HIDE DEF s
<1>4. Untold(s) /\ s.src = Declared /\ s.sources = w.sources /\ s.kept = w.kept
  BY <1>1, <1>3 DEF Untold, Same, NetFields
<1>5. v \in LoadSettings(s)
  BY DEF s, o
<1>6. PICK t : Retuned(s, t, s.bound \cap Managed) /\ Shaped(v) /\ Same(t, v, {"loaded", "ok"})
  BY <1>3, <1>5, LoadSettingsIs
<1>7. Stays(s, t)
  BY <1>6, RetunedStays
<1>8. \A m \in Managed : t.own[m].value = s.own[m].value
  BY <1>6 DEF Retuned, SameOwn, OwnFields
<1>9. t.subs = s.subs /\ t.remote = s.remote
  BY <1>6 DEF Retuned, Same, NetFields
<1>10. Untold(v)
  BY <1>4, <1>6, <1>8, <1>9 DEF Untold, Same, NetFields
<1>11. v.bound = B /\ v.src = Declared /\ v.sources = w.sources /\ v.kept = w.kept
  BY <1>3, <1>4, <1>6, <1>7 DEF Same, NetFields, Stays
<1>21. PICK found : FileOK(found) /\ Loading(v, x, found, Read(v, found)[Len(found)])
  <2>1. Sources(v.src) /\ Apart(v, v.src)
    BY <1>11, DeclaredApart
  <2> QED BY <1>10, <1>11, <2>1, LoadSourcesIs DEF Untold
<1> DEFINE src == Read(v, found)[Len(found)]
<1>12. Loading(v, x, found, src)
  BY <1>21
<1> HIDE DEF src
<1>13. DOMAIN u = NetFields /\ Same(x, u, {"dirty"}) /\ Shaped(x)
  BY <1>12 DEF Loading, Shaped, NetFields, Same
<1>14. Shaped(u)
  BY <1>13, OtherFields DEF NetFields
<1>15. /\ u.own = x.own /\ u.remote = x.remote /\ u.src = src /\ u.subs = v.subs /\ u.bound = v.bound
       /\ u.sources = x.sources /\ u.kept = x.kept
  BY <1>12, <1>13 DEF Loading, Same, NetFields
<1>16. \A m \in Managed : u.own[m].value = None
  BY <1>10, <1>12, <1>15 DEF Loading, SameOwn, OwnFields, Untold
<1>17. \A r \in Remote : u.remote[r].wish = None
  BY <1>10, <1>12, <1>15 DEF Loading, Untold, Unlearned
<1>18. Untold(u)
  BY <1>10, <1>14, <1>15, <1>16, <1>17 DEF Untold
<1>19. Apart(u, u.src) /\ Sources(u.src)
  BY <1>12, <1>15 DEF Loading, Apart
<1>20. FileOK(u.sources) /\ Refiled(v, u, found, u.src)
  BY <1>12, <1>15 DEF Loading, Refiled
<1>22. u.src = Read(v, found)[Len(found)]
  BY <1>15 DEF src
<1>23. u.bound = B
  BY <1>11, <1>15
<1> QED BY <1>10, <1>11, <1>18, <1>19, <1>20, <1>21, <1>22, <1>23 DEF Booted

-------------------------------------------------------------------------------
(* The invariant of a run.                                                     *)

\* What a call may leave behind, of a device of which w was good.
Good(w) == NetOK(w) /\ FileOK(w.sources) /\ Sources(w.src)
Leaves(w, u) == Good(u) /\ Effect(w, u)

Sound ==
    /\ Good(net) /\ firmware \in Firmwares
    /\ net.bound \subseteq declared
    /\ up => declared \ net.bound \subseteq Dropped
    /\ ~up => ~online /\ net.bound = {}

LEMMA StaysLeaves ==
    ASSUME NEW w, Good(w), NEW u, NetOK(u), Stays(w, u)
    PROVE  Leaves(w, u)
BY DEF Good, Stays, Leaves, Effect

LEMMA BoundLeaves ==
    ASSUME NEW w, Good(w), NEW x \in declared \ w.bound, x \in Managed => Mirrors[x] = None,
           x \in Managed \cup Remote,
           NEW u, u \in IF x \in Managed THEN BindManaged(w, x) ELSE BindRemote(w, x)
    PROVE  Leaves(w, u)
<1>0. Shaped(w) /\ NetOK(w)
  BY DEF Good, NetOK
<1>1. CASE x \in Managed
  <2>1. u \in BindManaged(w, x)
    BY <1>1
  <2>2. NetOK(u)
    BY <1>0, <1>1, <2>1, BindManagedOK
  <2>3. Stays(w, u) \/ Bonded(w, u, x)
    BY <1>0, <1>1, <2>1, BindManagedBonds
  <2> QED BY <2>2, <2>3, StaysLeaves DEF Good, Leaves, Effect, Bonded
<1>2. CASE x \notin Managed
  <2>1. x \in Remote \ w.bound /\ u \in BindRemote(w, x)
    BY <1>2
  <2>2. NetOK(u)
    BY <1>0, <2>1, BindRemoteOK
  <2>3. Stays(w, u) \/ Bonded(w, u, x)
    BY <1>0, <2>1, BindRemoteBonds
  <2> QED BY <2>2, <2>3, StaysLeaves DEF Good, Leaves, Effect, Bonded
<1> QED BY <1>1, <1>2

LEMMA UnboundLeaves ==
    ASSUME NEW w, Good(w), NEW x \in Dropped \cap w.bound, x \in Managed \cup Remote,
           NEW u, u \in IF x \in Managed THEN UnbindManaged(w, x) ELSE UnbindRemote(w, x)
    PROVE  Leaves(w, u)
<1>0. Shaped(w) /\ NetOK(w) /\ FileOK(w.sources)
  BY DEF Good, NetOK
<1>1. NetOK(u) /\ Freed(w, u, x)
  <2>1. CASE x \in Managed
    <3>1. u \in UnbindManaged(w, x)
      BY <2>1
    <3> QED BY <1>0, <2>1, <3>1, UnbindManagedOK, UnbindManagedFrees
  <2>2. CASE x \notin Managed
    <3>1. x \in w.bound \cap Remote /\ u \in UnbindRemote(w, x)
      BY <2>2
    <3> QED BY <1>0, <3>1, UnbindRemoteOK, UnbindRemoteFrees
  <2> QED BY <2>1, <2>2
<1> QED BY <1>1 DEF Good, Leaves, Effect, Freed

LEMMA SetSourceLeaves ==
    ASSUME NEW w, Good(w), NEW r \in w.bound \cap Remote, NEW a \in Addresses \cup {None},
           NEW u \in ConfigureSource(w, r, a)
    PROVE  Leaves(w, u)
<1>0. Shaped(w) /\ NetOK(w) /\ FileOK(w.sources) /\ Sources(w.src)
  BY DEF Good, NetOK
<1>1. NetOK(u)
  BY <1>0, ConfigureSourceOK
<1>2. Filing(w, u, r)
  BY <1>0, ConfigureSourceFiles
<1> QED BY <1>1, <1>2 DEF Good, Leaves, Effect, Filing

\* The owner of a value publishes it, or takes it back.
Hears(w, u) == \E t \in Topics : \E body \in Bodies(t) \cup {None} : u = Heard(w, t, body)

\* A call of the main loop, of the application or of a command, of one that is up.
Ordinary(w, u) ==
    \/ u \in PublishManifest(w) \/ u \in PublishResourceStates(w)
    \/ \E m \in Managed : u \in Inspect(w, m)
    \/ \E r \in Remote : u = Age(w, r)
    \/ \E m \in Managed : \E v : Mirrors[m] = None /\ u \in SetValue(w, m, v)
    \/ \E m \in Managed \cap Toggled, a \in BOOLEAN : Mirrors[m] = None /\ u \in SetAvailable(w, m, a)
    \/ \E m \in Managed \cap Tuned : \E p : u \in SetAdvertisementPolicy(w, m, p)
    \/ \E m \in Managed : \E q : u \in SetPoll(w, m, q)
    \/ \E r \in Remote \cap States : \E v : u \in RequestValue(w, r, v)
    \/ \E r \in Remote : u = [w EXCEPT !.remote[r].wish = None]
    \/ w.inbox # <<>> /\ u \in HandleIngress(w)
    \/ Hears(w, u)

LEMMA CallLeaves ==
    ASSUME NEW w, Good(w), NEW u, Ordinary(w, u)
    PROVE  Leaves(w, u) /\ Stays(w, u)
<1>0. Shaped(w) /\ NetOK(w)
  BY DEF Good, NetOK
<1> SUFFICES NetOK(u) /\ Stays(w, u)
  BY StaysLeaves
<1>1. CASE u \in PublishManifest(w)
  BY <1>0, <1>1, PublishManifestOK, PublishManifestStays
<1>2. CASE u \in PublishResourceStates(w)
  BY <1>0, <1>2, PublishResourceStatesOK, PublishResourceStatesStays
<1>3. ASSUME NEW m \in Managed, u \in Inspect(w, m) PROVE NetOK(u) /\ Stays(w, u)
  BY <1>0, <1>3, InspectOK, InspectStays
<1>4. ASSUME NEW r \in Remote, u = Age(w, r) PROVE NetOK(u) /\ Stays(w, u)
  BY <1>0, <1>4, AgeOK, AgeStays
<1>5. ASSUME NEW m \in Managed, NEW v, Mirrors[m] = None, u \in SetValue(w, m, v) PROVE NetOK(u) /\ Stays(w, u)
  BY <1>0, <1>5, SetValueOK, SetValueStays
<1>6. ASSUME NEW m \in Managed \cap Toggled, NEW a \in BOOLEAN, Mirrors[m] = None, u \in SetAvailable(w, m, a)
      PROVE  NetOK(u) /\ Stays(w, u)
  BY <1>0, <1>6, SetAvailableOK, SetAvailableStays
<1>7. ASSUME NEW m \in Managed \cap Tuned, NEW p, u \in SetAdvertisementPolicy(w, m, p) PROVE NetOK(u) /\ Stays(w, u)
  BY <1>0, <1>7, SetAdvertisementPolicyOK, SetAdvertisementPolicyStays
<1>8. ASSUME NEW m \in Managed, NEW q, u \in SetPoll(w, m, q) PROVE NetOK(u) /\ Stays(w, u)
  BY <1>0, <1>8, SetPollOK, SetPollStays
<1>9. ASSUME NEW r \in Remote \cap States, NEW v, u \in RequestValue(w, r, v) PROVE NetOK(u) /\ Stays(w, u)
  BY <1>0, <1>9, RequestValueOK, RequestValueStays
<1>10. ASSUME NEW r \in Remote, u = [w EXCEPT !.remote[r].wish = None] PROVE NetOK(u) /\ Stays(w, u)
  BY <1>0, <1>10, WishOK, WishStays
<1>11. CASE u \in HandleIngress(w)
  BY <1>0, <1>11, HandleIngressOK, HandleIngressStays
<1>12. ASSUME NEW t \in Topics, NEW body \in Bodies(t) \cup {None}, u = Heard(w, t, body) PROVE NetOK(u) /\ Stays(w, u)
  BY <1>0, <1>12, HeardOK, HeardStays
<1> QED BY <1>1, <1>2, <1>3, <1>4, <1>5, <1>6, <1>7, <1>8, <1>9, <1>10, <1>11, <1>12 DEF Ordinary, Hears

\* A call that binds, unbinds or gives a source.
Rewires(w, u) ==
    \/ \E x \in Managed \cup Remote :
         /\ x \in declared \ w.bound /\ (x \in Managed => Mirrors[x] = None)
         /\ u \in IF x \in Managed THEN BindManaged(w, x) ELSE BindRemote(w, x)
    \/ \E x \in Managed \cup Remote :
         /\ x \in Dropped \cap w.bound
         /\ u \in IF x \in Managed THEN UnbindManaged(w, x) ELSE UnbindRemote(w, x)
    \/ \E r \in w.bound \cap Remote, a \in Addresses \cup {None} : u \in ConfigureSource(w, r, a)

LEMMA RewiresLeaves ==
    ASSUME NEW w, Good(w), NEW u, Rewires(w, u)
    PROVE  Leaves(w, u)
BY BoundLeaves, UnboundLeaves, SetSourceLeaves DEF Rewires

\* A step that neither starts nor stops the device nor its connection.
Ordinarily == Ordinary(net, net') /\ (up \/ Hears(net, net')) /\ UNCHANGED <<online, firmware, up>>
Rewiring == Rewires(net, net') /\ up /\ UNCHANGED <<online, firmware, up>>

LEMMA StepCalls ==
    ASSUME Sound, [Next]_vars
    PROVE  Boot \/ Restart \/ Connect \/ Disconnect \/ UNCHANGED vars \/ Ordinarily \/ Rewiring
<1> SUFFICES ASSUME ~Boot, ~Restart, ~Connect, ~Disconnect, ~UNCHANGED vars PROVE Ordinarily \/ Rewiring
  OBVIOUS
<1>0. firmware \in Firmwares /\ (up => declared \ net.bound \subseteq Dropped) /\ (online => up)
  BY DEF Sound
<1>2. CASE ServeManifest
  BY <1>0, <1>2 DEF ServeManifest, Ordinarily, Ordinary
<1>3. CASE ServeStates
  BY <1>0, <1>3 DEF ServeStates, Ordinarily, Ordinary
<1>4. CASE RetryManifest
  BY <1>4 DEF RetryManifest, Call, others, Ordinarily, Ordinary
<1>5. ASSUME NEW m \in Managed, TickManaged(m) PROVE Ordinarily
  BY <1>5 DEF TickManaged, Call, others, Ordinarily, Ordinary
<1>6. ASSUME NEW r \in Remote, TickRemote(r) PROVE Ordinarily
  BY <1>6 DEF TickRemote, Call, others, Ordinarily, Ordinary
<1>7. ASSUME NEW x \in Managed \cup Remote, Bind(x) PROVE Rewiring
  <2>1. x \in Managed => Mirrors[x] = None
    BY <1>0, <1>7, MirrorAssumption DEF Bind, Call
  <2> QED BY <1>7, <2>1 DEF Bind, Call, others, Rewiring, Rewires
<1>8. ASSUME NEW x \in Managed \cup Remote, Unbind(x) PROVE Rewiring
  BY <1>8 DEF Unbind, Call, others, Rewiring, Rewires
<1>9. ASSUME NEW m \in Managed, NEW v \in Data, Set(m, v) PROVE Ordinarily
  BY <1>9 DEF Set, Call, others, Ordinarily, Ordinary
<1>10. ASSUME NEW m \in Managed, NEW a \in BOOLEAN, MakeAvailable(m, a) PROVE Ordinarily
  <2>1. Mirrors[m] = None
    BY <1>10, MirrorAssumption DEF MakeAvailable
  <2> QED BY <1>10, <2>1 DEF MakeAvailable, Call, others, Ordinarily, Ordinary
<1>11. ASSUME NEW m \in Managed, NEW p \in Periods, Advertise(m, p) PROVE Ordinarily
  BY <1>11 DEF Advertise, Call, others, Ordinarily, Ordinary
<1>12. ASSUME NEW m \in Managed, NEW q, Poll(m, q) PROVE Ordinarily
  BY <1>12 DEF Poll, Call, others, Ordinarily, Ordinary
<1>13. ASSUME NEW r \in Remote, NEW a \in firmware.addresses \cup {None}, SetSource(r, a) PROVE Rewiring
  <2>1. a \in Addresses \cup {None}
    BY <1>0, FirmwareAssumption
  <2> QED BY <1>13, <2>1 DEF SetSource, Call, others, Rewiring, Rewires
<1>14. ASSUME NEW r \in Sourced(net), NEW v, Wish(r, v) PROVE Ordinarily
  BY <1>14 DEF Wish, Call, others, Ordinarily, Ordinary, Sourced
<1>15. ASSUME NEW r \in Remote, WindowEnds(r) PROVE Ordinarily
  BY <1>15 DEF WindowEnds, Call, others, Ordinarily, Ordinary
<1>16. CASE Receive
  BY <1>16 DEF Receive, Call, others, Ordinarily, Ordinary
<1>17. ASSUME NEW t \in firmware.changing, NEW body \in Bodies(t) \cup {None}, OwnerPublishes(t, body)
       PROVE  Ordinarily
  <2>1. net' = Heard(net, t, body)
    BY <1>17 DEF OwnerPublishes, Heard
  <2>2. t \in Topics
    BY <1>0, FirmwareAssumption
  <2> QED BY <1>17, <2>1, <2>2 DEF OwnerPublishes, others, Ordinarily, Ordinary, Hears
<1> QED BY <1>2, <1>3, <1>4, <1>5, <1>6, <1>7, <1>8, <1>9, <1>10, <1>11, <1>12, <1>13, <1>14, <1>15, <1>16, <1>17
        DEF Next

Steps ==
    \E u : /\ u = net' /\ Leaves(net, u) /\ (up \/ Stays(net, u))
           /\ UNCHANGED <<online, firmware, up>>

LEMMA StepKinds ==
    ASSUME Sound, [Next]_vars
    PROVE  Boot \/ Restart \/ Connect \/ Disconnect \/ Steps
<1>1. PICK u : u = net'
  OBVIOUS
<1>2. Good(net)
  BY DEF Sound
<1>3. CASE UNCHANGED vars
  <2>1. NetOK(u) /\ Stays(net, u)
    BY <1>1, <1>2, <1>3, StaysSame DEF vars, Good
  <2> QED BY <1>1, <1>2, <1>3, <2>1, StaysLeaves DEF Steps, vars
<1>4. CASE Ordinarily
  <2>1. Ordinary(net, u)
    BY <1>1, <1>4 DEF Ordinarily
  <2> QED BY <1>1, <1>2, <1>4, <2>1, CallLeaves DEF Steps, Ordinarily
<1>5. CASE Rewiring
  <2>1. Rewires(net, u)
    BY <1>1, <1>5 DEF Rewiring
  <2> QED BY <1>1, <1>2, <1>5, <2>1, RewiresLeaves DEF Steps, Rewiring
<1> QED BY <1>3, <1>4, <1>5, StepCalls

LEMMA InitSound ==
    ASSUME Init
    PROVE  Sound
<1>1. /\ DOMAIN net = NetFields /\ net.own = [m \in Managed |-> New] /\ net.src = Declared
      /\ net.remote = [r \in Remote |-> Unlearned] /\ net.subs = {} /\ net.bound = {}
      /\ net.sources = <<>> /\ net.retained = [m \in Managed |-> None]
  BY DEF Init, NetFields
<1>2. DOMAIN New = OwnFields /\ New.value = None /\ DOMAIN Unlearned = RemoteFields /\ Unlearned.wish = None
  BY DEF New, Unlearned, OwnFields, RemoteFields
<1>3. DOMAIN Declared = Remote /\ ~online /\ ~up /\ firmware \in Firmwares
  BY RemoteAssumption DEF Init
<1>4. Shaped(net)
  BY <1>1, <1>2, <1>3 DEF Shaped
<1>5. Untold(net)
  BY <1>1, <1>2, <1>4 DEF Untold
<1>6. NetOK(net)
  BY <1>1, <1>3, <1>5, BlankOK, DeclaredApart
<1>7. FileOK(net.sources)
  BY <1>1 DEF FileOK, Keyed
<1> QED BY <1>1, <1>3, <1>6, <1>7, DeclaredApart DEF Sound, Good

LEMMA BoundAfter ==
    ASSUME NEW w, NEW u, Effect(w, u), w.bound \subseteq declared, declared \ w.bound \subseteq Dropped
    PROVE  u.bound \subseteq declared /\ declared \ u.bound \subseteq Dropped
<1>1. CASE Stays(w, u)
  BY <1>1 DEF Stays
<1>2. CASE \E r \in w.bound \cap Remote : Filing(w, u, r)
  BY <1>2 DEF Filing
<1>3. CASE \E x \in declared \ w.bound : Bonded(w, u, x)
  BY <1>3 DEF Bonded
<1>4. CASE \E x \in Dropped \cap w.bound : Freed(w, u, x)
  BY <1>4 DEF Freed
<1> QED BY <1>1, <1>2, <1>3, <1>4 DEF Effect

LEMMA SoundNext ==
    ASSUME Sound, [Next]_vars
    PROVE  Sound'
<1>0. /\ Good(net) /\ NetOK(net) /\ Shaped(net) /\ FileOK(net.sources) /\ Sources(net.src) /\ firmware \in Firmwares
  BY DEF Sound, Good, NetOK
<1>1. CASE Boot
  <2>1. PICK v \in LoadSettings([Started(net) EXCEPT !.bound = declared]) : \E x \in LoadSources(v) : net' = [x EXCEPT !.dirty = TRUE]
    BY <1>1 DEF Boot
  <2>2. PICK x \in LoadSources(v) : net' = [x EXCEPT !.dirty = TRUE]
    BY <2>1
  <2>3. PICK u : u = net'
    OBVIOUS
  <2>4. Booted(net, u, declared, v)
    BY <1>0, <2>1, <2>2, <2>3, BootIs
  <2>5. ~online /\ online' = online /\ up' /\ firmware' = firmware
    BY <1>1 DEF Boot, Sound
  <2>6. NetOK(u)
    BY <2>4, <2>5, BlankOK DEF Booted
  <2>7. Good(u) /\ u.bound = declared
    BY <2>4, <2>6 DEF Good, Booted
  <2>8. Good(net)'
    BY <2>3, <2>5, <2>7 DEF Good, NetOK, LinksOK
  <2> QED BY <1>0, <2>3, <2>5, <2>7, <2>8 DEF Sound, declared
<1>2. CASE Restart
  <2>1. PICK u : u = net'
    OBVIOUS
  <2>2. PICK c \in {net} \cup CutOff(net) : u = Started(c)
    BY <1>2, <2>1 DEF Restart
  <2>7. ~online' /\ ~up' /\ firmware' = firmware
    BY <1>2 DEF Restart
  <2>8. Shaped(c) /\ (c.sources = net.sources \/ c.sources = <<>>)
    BY <1>0, CutOffIs DEF Filewise
  <2>3. Untold(u) /\ u.src = Declared /\ u.sources = c.sources /\ u.bound = {}
    BY <2>2, <2>8, StartedIs
  <2>9. FileOK(u.sources)
    BY <1>0, <2>3, <2>8, NoFile
  <2>4. MirrorsOK(u)
    BY <2>3 DEF MirrorsOK
  <2>5. Unique(u) /\ WishesOK(u) /\ u.subs = {} /\ Shaped(u)
    BY <2>3 DEF Unique, Sourced, Untold, WishesOK
  <2>6. Good(net)'
    BY <2>1, <2>7, <2>9, <2>3, <2>4, <2>5, DeclaredApart DEF Good, NetOK, LinksOK
  <2> QED BY <1>0, <2>1, <2>7, <2>3, <2>6 DEF Sound
<1>3. CASE Connect
  <2>1. PICK u : u = net'
    OBVIOUS
  <2>2. u = SubscribeAll(net) /\ ~online /\ online' /\ up /\ UNCHANGED <<firmware, up>>
    BY <1>3, <2>1 DEF Connect
  <2>3. Shaped(u) /\ MirrorsOK(u) /\ Unique(u) /\ WishesOK(u) /\ u.subs = Needed(u)
    BY <1>0, <2>2, SubscribeAllOK
  <2>4. Same(net, u, {"subs", "inbox"})
    BY <1>0, <2>2, SubscribeAllIs
  <2>5. u.bound = net.bound /\ u.sources = net.sources /\ u.src = net.src
    BY <2>4 DEF Same, NetFields
  <2>6. Good(net)'
    BY <1>0, <2>1, <2>2, <2>3, <2>5 DEF Good, NetOK, LinksOK
  <2> QED BY <1>0, <2>1, <2>2, <2>5, <2>6 DEF Sound, declared
<1>4. CASE Disconnect
  <2>1. PICK u : u = net'
    OBVIOUS
  <2>2. u = [net EXCEPT !.subs = {}, !.inbox = <<>>] /\ online /\ ~online' /\ UNCHANGED <<firmware, up>>
    BY <1>4, <2>1 DEF Disconnect
  <2>3. DOMAIN u = NetFields /\ Same(net, u, {"subs", "inbox"}) /\ u.subs = {}
    BY <1>0, <2>2 DEF Shaped, NetFields, Same
  <2>4. Shaped(u)
    BY <1>0, <2>3, OtherFields DEF NetFields
  <2>5. /\ u.bound = net.bound /\ u.sources = net.sources /\ u.src = net.src
        /\ u.own = net.own /\ u.remote = net.remote
    BY <2>3 DEF Same, NetFields
  <2>6. MirrorsOK(u) /\ Unique(u) /\ WishesOK(u)
    BY <1>0, <2>5 DEF NetOK, LinksOK, MirrorsOK, Agrees, Unique, Sourced, WishesOK
  <2>7. Good(net)'
    BY <1>0, <2>1, <2>2, <2>3, <2>4, <2>5, <2>6 DEF Good, NetOK, LinksOK
  <2> QED BY <1>0, <2>1, <2>2, <2>5, <2>7 DEF Sound, declared
<1>5. CASE Steps
  <2>1. PICK u : u = net' /\ Leaves(net, u) /\ (up \/ Stays(net, u)) /\ UNCHANGED <<online, firmware, up>>
    BY <1>5 DEF Steps
  <2>2. Good(net)'
    BY <2>1 DEF Leaves, Good, NetOK, LinksOK
  <2>3. CASE up
    <3>1. u.bound \subseteq declared /\ declared \ u.bound \subseteq Dropped
      BY <2>1, <2>3, BoundAfter DEF Leaves, Sound
    <3> QED BY <1>0, <2>1, <2>2, <2>3, <3>1 DEF Sound, declared
  <2>4. CASE ~up
    <3>1. Stays(net, u)
      BY <2>1, <2>4
    <3>2. ~online /\ net.bound = {} /\ u.bound = {}
      BY <2>4, <3>1 DEF Sound, Stays
    <3> QED BY <1>0, <2>1, <2>2, <2>4, <3>2 DEF Sound
  <2> QED BY <2>3, <2>4
<1> QED BY <1>1, <1>2, <1>3, <1>4, <1>5, StepKinds

LEMMA AlwaysSound == Spec => []Sound
<1>1. Init => Sound
  BY InitSound
<1>2. Sound /\ [Next]_vars => Sound'
  BY SoundNext
<1> QED BY <1>1, <1>2, PTL DEF Spec

\* ResourcesManager: while connected the device is subscribed to the state of each source
\* in use and to the manifest of each owner in use, and to nothing else, after any sequence
\* of bindings, new sources, refused files and roll-backs.
THEOREM SubscriptionsFollowSources == Spec => []SubscriptionsMatch
<1>1. Sound => SubscriptionsMatch
  BY DEF Sound, Good, NetOK, LinksOK, Needed, SubscriptionsMatch
<1> QED BY <1>1, AlwaysSound, PTL

\* NetValueResource::setDependency(): a mirror that is available and has a value has the
\* value of its source, which is bound and available, whatever the network refused.
THEOREM MirrorsFollowSources == Spec => []MirrorAgrees
<1>1. Sound => MirrorAgrees
  BY DEF Sound, Good, NetOK, MirrorsOK, Agrees, MirrorAgrees
<1> QED BY <1>1, AlwaysSound, PTL

-------------------------------------------------------------------------------
(* The file of the sources over a restart.                                     *)

\* No two values of the file have one source.
Distinct(file) == \A q, r \in Remote : \A a : Has(file, q, a) /\ Has(file, r, a) => q = r
Unsourced(w) == \A r \in Remote : w.src[r] = None

\* While the device is up the file has declared values only; unless it was not corrected,
\* nothing but the sources in use; and if none was lost, all of them but those of values
\* that were unbound.  While it is down, each is for one value.
Follows(w) ==
    /\ \A q \in Remote : \A a : Has(w.sources, q, a) => q \in declared
    /\ w.kept # "unknown" => \A q \in Remote : \A a : Has(w.sources, q, a) => q \in w.bound /\ w.src[q] = a
    /\ w.kept = "all" =>
         \A r \in (w.bound \cap Remote) \ Dropped : w.src[r] # None => Has(w.sources, r, w.src[r])
Waits(w) ==
    /\ \A q \in Remote : \A a : Has(w.sources, q, a) => q \in declared
    /\ w.kept # "unknown" => Distinct(w.sources)
FileSound == (up => Follows(net)) /\ (~up => Waits(net))

\* The sources src are those of the file.
Reads(file, src) ==
    /\ \A r \in Remote : \A a : Has(file, r, a) => src[r] = a
    /\ \A r \in Remote : src[r] # None => Has(file, r, src[r])

\* What a start reads of a file whose sources are all different.
LEMMA ReadAll ==
    ASSUME NEW w, Shaped(w), NEW f, FileOK(f), Unsourced(w), Distinct(f),
           NEW src, src = Read(w, f)[Len(f)]
    PROVE  Reads(f, src)
<1> DEFINE n == Len(f)
           now == Read(w, f)
           OK(k) == /\ \A i \in 1 .. k : now[k][f[i][1]] = f[i][2]
                    /\ \A r \in Remote : now[k][r] # None => \E i \in 1 .. k : f[i] = <<r, now[k][r]>>
           T == {k \in 0 .. n : OK(k)}
<1>1. /\ n \in Nat /\ DOMAIN f = 1 .. n
      /\ \A i \in 1 .. n : f[i] = <<f[i][1], f[i][2]>> /\ f[i][1] \in Remote /\ f[i][2] \in Addresses
      /\ \A i, j \in 1 .. n : f[i][1] = f[j][1] => i = j
  BY LenProperties, ElementOfSeq DEF FileOK, Keyed, Bonds
<1>2. now[0] = w.src /\ \A k \in 1 .. n : now[k] = Accepted(w, now[k - 1], f[k][1], f[k][2])
  BY <1>1, ReadIs
<1>3. Sources(w.src) /\ Apart(w, w.src)
  BY DEF Sources, Apart, Shaped, Unsourced
<1>4. \A k \in 0 .. n : Sources(now[k]) /\ Apart(w, now[k])
  BY <1>3, ReadOK
<1>5. \A i, j \in 1 .. n : f[i][2] = f[j][2] => i = j
  <2> SUFFICES ASSUME NEW i \in 1 .. n, NEW j \in 1 .. n, f[i][2] = f[j][2] PROVE i = j
    OBVIOUS
  <2>1. Has(f, f[i][1], f[i][2]) /\ Has(f, f[j][1], f[i][2])
    BY <1>1 DEF Has
  <2>2. f[i][1] = f[j][1]
    BY <1>1, <2>1 DEF Distinct
  <2> QED BY <1>1, <2>2
<1> HIDE DEF now
<1>6. 0 \in T
  BY <1>1, <1>2 DEF Unsourced
<1>7. ASSUME NEW k \in 0 .. n - 1, k \in T PROVE k + 1 \in T
  <2> DEFINE r == f[k + 1][1]
             a == f[k + 1][2]
             g == now[k + 1]
  <2>1. k + 1 \in 1 .. n /\ (k + 1) - 1 = k /\ k \in 0 .. n /\ k + 1 \in 0 .. n
    BY <1>1
  <2>2. g = Accepted(w, now[k], r, a) /\ r \in Remote /\ a \in Addresses
    BY <1>1, <1>2, <2>1
  <2>3. OK(k)
    BY <1>7
  <2>4. \A q \in (w.bound \cap Remote) \ {r} : now[k][q] # a
    <3> SUFFICES ASSUME NEW q \in Remote \ {r}, now[k][q] = a PROVE FALSE
      OBVIOUS
    <3>1. now[k][q] # None
      BY <2>2, RemoteAssumption
    <3>2. PICK i \in 1 .. k : f[i] = <<q, a>>
      BY <2>3, <3>1
    <3>3. i \in 1 .. n /\ f[i][2] = f[k + 1][2] /\ i # k + 1
      BY <2>1, <3>2
    <3> QED BY <1>5, <2>1, <3>3
  <2>5. g[r] = a /\ \A q \in Remote \ {r} : g[q] = now[k][q]
    <3>1. Sources(now[k]) /\ Apart(w, now[k]) /\ DOMAIN w = NetFields
      BY <1>4, <2>1 DEF Shaped
    <3> HIDE DEF g, r, a
    <3> QED BY <2>2, <2>4, <3>1, AcceptedIs
  <2>6. \A i \in 1 .. k + 1 : g[f[i][1]] = f[i][2]
    <3> SUFFICES ASSUME NEW i \in 1 .. k + 1 PROVE g[f[i][1]] = f[i][2]
      OBVIOUS
    <3>1. CASE i = k + 1
      BY <2>5, <3>1
    <3>2. CASE i # k + 1
      <4>1. i \in 1 .. k /\ i \in 1 .. n
        BY <2>1, <3>2
      <4>2. f[i][1] \in Remote \ {r}
        BY <1>1, <2>1, <3>2, <4>1
      <4>3. g[f[i][1]] = now[k][f[i][1]]
        BY <2>5, <4>2
      <4>4. now[k][f[i][1]] = f[i][2]
        BY <2>3, <4>1
      <4> QED BY <4>3, <4>4
    <3> QED BY <3>1, <3>2
  <2>7. \A q \in Remote : g[q] # None => \E i \in 1 .. k + 1 : f[i] = <<q, g[q]>>
    <3> SUFFICES ASSUME NEW q \in Remote, g[q] # None PROVE \E i \in 1 .. k + 1 : f[i] = <<q, g[q]>>
      OBVIOUS
    <3>1. CASE q = r
      <4>1. f[k + 1] = <<q, g[q]>>
        BY <1>1, <2>1, <2>5, <3>1
      <4> QED BY <2>1, <4>1
    <3>2. CASE q # r
      <4>1. now[k][q] = g[q]
        BY <2>5, <3>2
      <4>2. PICK i \in 1 .. k : f[i] = <<q, now[k][q]>>
        BY <2>3, <4>1
      <4>3. i \in 1 .. k + 1
        BY <2>1
      <4> QED BY <4>1, <4>2, <4>3
    <3> QED BY <3>1, <3>2
  <2> QED BY <2>1, <2>6, <2>7
<1>8. n \in T
  <2>1. 0 .. n \subseteq T
    <3> HIDE DEF T, n
    <3> QED BY <1>1, <1>6, <1>7, UpTo
  <2> QED BY <1>1, <2>1
<1>9. OK(n) /\ src = now[n]
  BY <1>8 DEF now
<1>10. ASSUME NEW r \in Remote, NEW a, Has(f, r, a) PROVE src[r] = a
  <2>1. PICK i \in 1 .. n : f[i] = <<r, a>>
    BY <1>1, <1>10 DEF Has
  <2> QED BY <1>9, <2>1
<1>11. ASSUME NEW r \in Remote, src[r] # None PROVE Has(f, r, src[r])
  <2>1. PICK i \in 1 .. n : f[i] = <<r, src[r]>>
    BY <1>9, <1>11
  <2> QED BY <1>1, <2>1 DEF Has
<1> QED BY <1>10, <1>11 DEF Reads

LEMMA FollowsOn ==
    ASSUME NEW w, Follows(w), w.bound \subseteq declared, declared \ w.bound \subseteq Dropped,
           NEW u, Effect(w, u)
    PROVE  Follows(u)
<1>1. CASE Stays(w, u)
  BY <1>1 DEF Stays, Follows
<1>2. ASSUME NEW r \in w.bound \cap Remote, Filing(w, u, r) PROVE Follows(u)
  <2>0. r \in declared /\ u.bound = w.bound /\ \A q \in Remote \ {r} : u.src[q] = w.src[q]
    BY <1>2 DEF Filing
  <2>1. CASE u.src[r] = w.src[r] /\ u.sources = w.sources /\ u.kept = w.kept
    <3>1. \A q \in Remote : u.src[q] = w.src[q]
      BY <2>0, <2>1
    <3> QED BY <2>0, <2>1, <3>1 DEF Follows
  <2>2. CASE /\ u.kept = w.kept
             /\ \A q \in Remote \ {r} : \A b : Has(u.sources, q, b) <=> Has(w.sources, q, b)
             /\ \A b : Has(u.sources, r, b) <=> u.src[r] # None /\ b = u.src[r]
    <3>1. ASSUME NEW q \in Remote, NEW a, Has(u.sources, q, a) PROVE q \in declared
      BY <2>0, <2>2, <3>1 DEF Follows
    <3>2. ASSUME u.kept # "unknown", NEW q \in Remote, NEW a, Has(u.sources, q, a)
          PROVE  q \in u.bound /\ u.src[q] = a
      BY <2>0, <2>2, <3>2 DEF Follows
    <3>3. ASSUME u.kept = "all", NEW q \in (u.bound \cap Remote) \ Dropped, u.src[q] # None
          PROVE  Has(u.sources, q, u.src[q])
      BY <2>0, <2>2, <3>3 DEF Follows
    <3> QED BY <3>1, <3>2, <3>3 DEF Follows
  <2>3. CASE u.kept = "some" /\ \A q \in Remote : \A b : Has(u.sources, q, b) => q = r /\ b = u.src[r]
    BY <2>0, <2>3 DEF Follows
  <2> QED BY <1>2, <2>1, <2>2, <2>3 DEF Filing
<1>3. ASSUME NEW x \in declared \ w.bound, Bonded(w, u, x) PROVE Follows(u)
  BY <1>3 DEF Bonded, Follows
<1>4. ASSUME NEW x \in Dropped \cap w.bound, Freed(w, u, x) PROVE Follows(u)
  <2>1. CASE /\ u.kept = w.kept
             /\ \A q \in Remote \ {x} : \A c : Has(u.sources, q, c) <=> Has(w.sources, q, c)
             /\ x \in Remote => \A c : ~Has(u.sources, x, c)
    <3>1. ASSUME NEW q \in Remote, NEW a, Has(u.sources, q, a) PROVE q # x /\ Has(w.sources, q, a)
      BY <2>1, <3>1
    <3>2. ASSUME u.kept = "all", NEW q \in (u.bound \cap Remote) \ Dropped, u.src[q] # None
          PROVE  Has(u.sources, q, u.src[q])
      BY <1>4, <2>1, <3>2 DEF Freed, Follows
    <3> QED BY <1>4, <2>1, <3>1, <3>2 DEF Freed, Follows
  <2>2. CASE u.sources = <<>> /\ u.kept = "some"
    BY <2>2, NoFile DEF Follows
  <2>3. CASE u.sources = w.sources /\ u.kept = "unknown"
    BY <2>3 DEF Follows
  <2> QED BY <1>4, <2>1, <2>2, <2>3 DEF Freed
<1> QED BY <1>1, <1>2, <1>3, <1>4 DEF Effect

\* The device stops, and the file is as it was or is lost.
LEMMA FollowedWaits ==
    ASSUME NEW w, Good(w), Follows(w), w.bound \subseteq declared,
           NEW u, (u.sources = w.sources /\ u.kept = w.kept) \/ u.sources = <<>>
    PROVE  Waits(u)
<1>1. ASSUME w.kept # "unknown", NEW q \in Remote, NEW r \in Remote, NEW a,
             Has(w.sources, q, a), Has(w.sources, r, a)
      PROVE  q = r
  <2>1. a \in Addresses /\ a # None
    BY <1>1, BindingIs, RemoteAssumption DEF Good
  <2>2. q \in Sourced(w) /\ r \in Sourced(w) /\ w.src[q] = w.src[r]
    BY <1>1, <2>1 DEF Follows, Sourced
  <2> QED BY <2>2 DEF Good, NetOK, LinksOK, Unique
<1>2. CASE u.sources = w.sources /\ u.kept = w.kept
  BY <1>1, <1>2 DEF Waits, Follows, Distinct
<1>3. CASE u.sources = <<>>
  BY <1>3, NoFile DEF Waits, Distinct
<1> QED BY <1>2, <1>3

\* What a start leaves of the file agrees with the sources that it gives.
LEMMA BootedFollows ==
    ASSUME NEW w, FileOK(w.sources), Waits(w), NEW u, NEW v, Booted(w, u, declared, v)
    PROVE  Follows(u)
<1>0. /\ v.bound = declared /\ u.bound = declared /\ v.sources = w.sources /\ v.kept = w.kept
      /\ FileOK(u.sources)
  BY DEF Booted
<1>1. PICK found : Refiled(v, u, found, u.src)
  BY DEF Booted
<1>2. \A q \in Remote : \A a : Has(w.sources, q, a) => q \in declared
  BY DEF Waits
<1>3. CASE found = v.sources /\ Agreed(v, u.src) /\ u.sources = v.sources /\ u.kept = "all"
  <2>1. ASSUME NEW q \in Remote, NEW a, Has(w.sources, q, a) PROVE u.src[q] = a
    <3>1. Binding(w.sources, q) = a
      BY <2>1, BindingIs
    <3> QED BY <1>0, <1>2, <1>3, <2>1, <3>1 DEF Agreed
  <2>2. ASSUME NEW r \in declared \cap Remote, u.src[r] # None PROVE Has(w.sources, r, u.src[r])
    <3>1. Binding(w.sources, r) = u.src[r]
      BY <1>0, <1>3 DEF Agreed
    <3> QED BY <2>2, <3>1, BindingIs
  <2> QED BY <1>0, <1>2, <1>3, <2>1, <2>2 DEF Follows
<1>4. CASE \A r \in Remote : \A a : Has(u.sources, r, a) <=> r \in v.bound /\ a = u.src[r] /\ a # None
  BY <1>0, <1>4 DEF Follows
<1>5. CASE u.sources = <<>> /\ u.kept = "some"
  BY <1>5, NoFile DEF Follows
<1>6. CASE u.sources = v.sources /\ u.kept = "unknown"
  BY <1>0, <1>2, <1>6 DEF Follows
<1> QED BY <1>1, <1>3, <1>4, <1>5, <1>6 DEF Refiled

\* Each declared value has the source that the file has for it, if it could be read.
LEMMA BootedRestores ==
    ASSUME \A r \in Remote : Declared[r] = None,
           NEW w, FileOK(w.sources), Waits(w), w.kept # "unknown",
           NEW u, NEW v, Booted(w, u, declared, v), u.kept = "all"
    PROVE  \A r \in declared \cap Remote :
                Binding(w.sources, r) # None => u.src[r] = Binding(w.sources, r)
<1>0. Shaped(v) /\ v.bound = declared /\ v.sources = w.sources /\ Unsourced(v)
  BY DEF Booted, Untold, Unsourced
<1>1. PICK found : u.src = Read(v, found)[Len(found)] /\ Refiled(v, u, found, u.src)
  BY DEF Booted
<1>2. found = w.sources
  BY <1>0, <1>1 DEF Refiled
<1>3. Reads(w.sources, u.src)
  BY <1>0, <1>1, <1>2, ReadAll DEF Waits
<1> QED BY <1>3, BindingIs DEF Reads

\* What a step is, as far as the file and the sources go.
LEMMA StepFiles ==
    ASSUME Sound, [Next]_vars
    PROVE  \/ \E u, v : u = net' /\ Booted(net, u, declared, v) /\ ~up /\ up' /\ firmware' = firmware
           \/ \E u : /\ u = net' /\ up /\ ~up' /\ firmware' = firmware
                     /\ (u.sources = net.sources /\ u.kept = net.kept) \/ u.sources = <<>>
           \/ \E u : /\ u = net' /\ Effect(net, u) /\ (up \/ Stays(net, u))
                     /\ up' = up /\ firmware' = firmware
<1>0. Good(net) /\ Shaped(net) /\ FileOK(net.sources)
  BY DEF Sound, Good, NetOK
<1>1. CASE Boot
  <2>1. PICK v \in LoadSettings([Started(net) EXCEPT !.bound = declared]) : \E x \in LoadSources(v) : net' = [x EXCEPT !.dirty = TRUE]
    BY <1>1 DEF Boot
  <2>2. PICK x \in LoadSources(v) : net' = [x EXCEPT !.dirty = TRUE]
    BY <2>1
  <2>3. PICK u : u = net'
    OBVIOUS
  <2>4. Booted(net, u, declared, v)
    BY <1>0, <2>1, <2>2, <2>3, BootIs
  <2> QED BY <1>1, <2>3, <2>4 DEF Boot
<1>2. CASE Restart
  <2>1. PICK u : u = net'
    OBVIOUS
  <2>2. PICK c \in {net} \cup CutOff(net) : u = Started(c)
    BY <1>2, <2>1 DEF Restart
  <2>3. Shaped(c) /\ ((c.sources = net.sources /\ c.kept = net.kept) \/ c.sources = <<>>)
    BY <1>0, CutOffIs DEF Filewise
  <2>4. u.sources = c.sources /\ u.kept = c.kept
    BY <2>2, <2>3, StartedIs
  <2> QED BY <1>2, <2>1, <2>3, <2>4 DEF Restart
<1>3. CASE Connect
  <2>1. PICK u : u = net'
    OBVIOUS
  <2>2. Same(net, u, {"subs", "inbox"})
    BY <1>0, <1>3, <2>1, SubscribeAllIs DEF Connect
  <2>3. Stays(net, u)
    BY <2>2 DEF Same, NetFields, Stays
  <2> QED BY <1>3, <2>1, <2>3 DEF Connect, Effect
<1>4. CASE Disconnect
  <2>1. PICK u : u = net'
    OBVIOUS
  <2>2. Stays(net, u)
    BY <1>0, <1>4, <2>1 DEF Disconnect, Stays, Shaped, NetFields
  <2> QED BY <1>4, <2>1, <2>2 DEF Disconnect, Effect
<1>5. CASE Steps
  BY <1>5 DEF Steps, Leaves
<1> QED BY <1>1, <1>2, <1>3, <1>4, <1>5, StepKinds

LEMMA FileSoundNext ==
    ASSUME Sound, FileSound, [Next]_vars
    PROVE  FileSound'
<1>0. Good(net) /\ FileOK(net.sources) /\ net.bound \subseteq declared
  BY DEF Sound, Good
<1>1. ASSUME NEW u, NEW v, u = net', Booted(net, u, declared, v), ~up, up', firmware' = firmware PROVE FileSound'
  <2>1. Follows(u)
    BY <1>0, <1>1, BootedFollows DEF FileSound
  <2> QED BY <1>1, <2>1 DEF FileSound, Follows, declared
<1>2. ASSUME NEW u, u = net', up, ~up', firmware' = firmware,
             (u.sources = net.sources /\ u.kept = net.kept) \/ u.sources = <<>>
      PROVE  FileSound'
  <2>1. Waits(u)
    BY <1>0, <1>2, FollowedWaits DEF FileSound
  <2> QED BY <1>2, <2>1 DEF FileSound, Waits, declared
<1>3. ASSUME NEW u, u = net', Effect(net, u), up \/ Stays(net, u), up' = up, firmware' = firmware PROVE FileSound'
  <2>1. CASE up
    <3>1. Follows(u)
      BY <1>0, <1>3, <2>1, FollowsOn DEF FileSound, Sound
    <3> QED BY <1>3, <2>1, <3>1 DEF FileSound, Follows, declared
  <2>2. CASE ~up
    <3>1. Waits(u)
      BY <1>3, <2>2 DEF FileSound, Waits, Stays
    <3> QED BY <1>3, <2>2, <3>1 DEF FileSound, Waits, declared
  <2> QED BY <2>1, <2>2
<1> QED BY <1>1, <1>2, <1>3, StepFiles

\* What SourcesSurvive asks of a step.
FiledAtStop ==
    /\ net.kept # "unknown" => \A r \in net.bound \cap Remote : Binding(net.sources, r) \in {None, net.src[r]}
    /\ net.kept = "all" => \A r \in (net.bound \cap Remote) \ Dropped : Binding(net.sources, r) = net.src[r]
ReadAtStart ==
    net.kept # "unknown" /\ net'.kept = "all" =>
        \A r \in declared \cap Remote :
            Binding(net.sources, r) # None => net'.src[r] = Binding(net.sources, r)

LEMMA FiledAndRead ==
    ASSUME \A r \in Remote : Declared[r] = None, Sound, FileSound, [Next]_vars
    PROVE  (up /\ ~up' => FiledAtStop) /\ (~up /\ up' => ReadAtStart)
<1>0. FileOK(net.sources)
  BY DEF Sound, Good
<1>1. ASSUME up PROVE FiledAtStop
  <2>1. Follows(net)
    BY <1>1 DEF FileSound
  <2>2. ASSUME net.kept # "unknown", NEW r \in net.bound \cap Remote
        PROVE  Binding(net.sources, r) \in {None, net.src[r]}
    BY <1>0, <2>1, <2>2, BindingIs DEF Follows
  <2>3. ASSUME net.kept = "all", NEW r \in (net.bound \cap Remote) \ Dropped
        PROVE  Binding(net.sources, r) = net.src[r]
    <3>1. CASE net.src[r] # None
      <4>1. Has(net.sources, r, net.src[r])
        BY <2>1, <2>3, <3>1 DEF Follows
      <4> QED BY <1>0, <4>1, BindingIs
    <3>2. CASE net.src[r] = None
      BY <2>2, <2>3, <3>2
    <3> QED BY <3>1, <3>2
  <2> QED BY <2>2, <2>3 DEF FiledAtStop
<1>2. ASSUME ~up, up' PROVE ReadAtStart
  <2>1. PICK u, v : u = net' /\ Booted(net, u, declared, v)
    BY <1>2, StepFiles
  <2>2. Waits(net)
    BY <1>2 DEF FileSound
  <2>3. ASSUME net.kept # "unknown", u.kept = "all"
        PROVE  \A r \in declared \cap Remote :
                    Binding(net.sources, r) # None => u.src[r] = Binding(net.sources, r)
    BY <1>0, <2>1, <2>2, <2>3, BootedRestores
  <2> QED BY <2>1, <2>3 DEF ReadAtStart
<1> QED BY <1>1, <1>2

\* ResourcesManager with its source file, which is written in place: after any failed write,
\* with or without the loss of the file, any read that fails and a stop in the middle of a
\* write, the file has no other source for a value than it has, and all of them while none
\* was lost; and a start that can read it gives each value the source it has there.  One
\* hypothesis, without which the code does not have the property: the firmware gives no
\* value a source of its own.
THEOREM SourcesOutliveRestarts ==
    ASSUME \A r \in Remote : Declared[r] = None
    PROVE  Spec => SourcesSurvive
<1>1. Init => FileSound
  <2>1. Init => ~up /\ net.sources = <<>>
    BY DEF Init
  <2> QED BY <2>1, NoFile DEF FileSound, Waits, Distinct
<1>2. Sound /\ FileSound /\ [Next]_vars => FileSound'
  BY FileSoundNext
<1>3. Sound /\ FileSound /\ [Next]_vars => [(up /\ ~up' => FiledAtStop) /\ (~up /\ up' => ReadAtStart)]_vars
  BY FiledAndRead
<1>4. SourcesSurvive <=> [][(up /\ ~up' => FiledAtStop) /\ (~up /\ up' => ReadAtStart)]_vars
  <2>1. [/\ up /\ ~up' =>
              /\ net.kept # "unknown" =>
                   \A r \in net.bound \cap Remote : Binding(net.sources, r) \in {None, net.src[r]}
              /\ net.kept = "all" =>
                   \A r \in (net.bound \cap Remote) \ Dropped : Binding(net.sources, r) = net.src[r]
         /\ ~up /\ up' /\ net.kept # "unknown" /\ net'.kept = "all" =>
              \A r \in declared \cap Remote :
                  Binding(net.sources, r) # None => net'.src[r] = Binding(net.sources, r)]_vars
        <=> [(up /\ ~up' => FiledAtStop) /\ (~up /\ up' => ReadAtStart)]_vars
    BY DEF FiledAtStop, ReadAtStart
  <2> QED BY <2>1, PTL DEF SourcesSurvive
<1> QED BY <1>1, <1>2, <1>3, <1>4, AlwaysSound, PTL DEF Spec
-------------------------------------------------------------------------------
(* That device, broker and owners agree once nothing is under way, when no     *)
(* value is both made unavailable and given a policy: what the broker has.     *)

Suited(w, m) == (m \in Tuned => w.own[m].avail = TRUE) /\ (m \notin Tuned => w.own[m].period # "off")

\* What is not to be retained of m was withdrawn or will be, and nothing else will be.
Withheld(w, m) ==
    /\ w.own[m].avail # TRUE \/ w.own[m].period = "off" => w.retained[m] = None \/ w.own[m].pending = TRUE
    /\ Mirrors[m] = None /\ w.own[m].pending = TRUE => w.own[m].avail # TRUE \/ w.own[m].period = "off"

\* What m offers is retained or will be published.
Served(w, m) ==
    m \in w.bound /\ Mirrors[m] = None /\ Offered(w.own[m])
        => w.retained[m] = w.own[m].value \/ w.own[m].retry = TRUE

Facing(w, m) == Suited(w, m) /\ Withheld(w, m) /\ Served(w, m)
Faces(w) == \A m \in Managed : Facing(w, m)

Described(w) == w.dirty = TRUE \/ w.manifest = Manifest(w)

LEMMA FacingSame ==
    ASSUME NEW w, NEW u, NEW m, Facing(w, m), SameOwn(w, u, m, {"poll"}),
           u.retained[m] = w.retained[m], m \in u.bound => m \in w.bound
    PROVE  Facing(u, m)
<1>1. /\ u.own[m].avail = w.own[m].avail /\ u.own[m].period = w.own[m].period
      /\ u.own[m].pending = w.own[m].pending /\ u.own[m].retry = w.own[m].retry
      /\ u.own[m].value = w.own[m].value
  BY DEF SameOwn, OwnFields
<1> QED BY <1>1 DEF Facing, Suited, Withheld, Served, Offered

LEMMA SameOwnLess ==
    ASSUME NEW w, NEW u, NEW m, SameOwn(w, u, m, {})
    PROVE  SameOwn(w, u, m, {"poll"})
BY DEF SameOwn

LEMMA FacesSame ==
    ASSUME NEW w, NEW u, Faces(w), u.own = w.own, u.retained = w.retained, u.bound \cap Managed \subseteq w.bound
    PROVE  Faces(u)
BY DEF Faces, Facing, Suited, Withheld, Served, Offered

LEMMA PublishedFaces ==
    ASSUME NEW w, NEW S, NEW u, Published(w, u, S),
           \A m \in Managed : Suited(w, m) /\ Withheld(w, m) /\ (m \in S \/ Served(w, m))
    PROVE  Faces(u)
<1> SUFFICES ASSUME NEW m \in Managed PROVE Facing(u, m)
  BY DEF Faces
<1>1. /\ u.own[m].avail = w.own[m].avail /\ u.own[m].period = w.own[m].period
      /\ u.own[m].pending = w.own[m].pending /\ u.own[m].value = w.own[m].value
  BY DEF Published, SameOwn, OwnFields
<1>2. u.bound = w.bound
  BY DEF Published, Same, NetFields
<1>3. Suited(u, m)
  BY <1>1 DEF Suited
<1>4. CASE m \in S /\ Offered(w.own[m])
  BY <1>1, <1>3, <1>4 DEF Published, Facing, Withheld, Served, Offered
<1>5. CASE ~(m \in S /\ Offered(w.own[m]))
  <2>1. u.retained[m] = w.retained[m] /\ u.own[m].retry = w.own[m].retry
    BY <1>5 DEF Published
  <2> QED BY <1>1, <1>2, <1>3, <1>5, <2>1 DEF Facing, Withheld, Served, Offered
<1> QED BY <1>4, <1>5

LEMMA WithdrawnFaces ==
    ASSUME NEW w, NEW S, NEW u, Withdrawn(w, u, S), \A m \in Managed \ S : Facing(w, m),
           \A m \in Managed \cap S : /\ Suited(w, m)
                                     /\ Mirrors[m] = None => w.own[m].avail # TRUE \/ w.own[m].period = "off"
    PROVE  Faces(u)
<1> SUFFICES ASSUME NEW m \in Managed PROVE Facing(u, m)
  BY DEF Faces
<1>1. u.bound = w.bound
  BY DEF Withdrawn, Same, NetFields
<1>2. CASE m \notin S
  BY <1>1, <1>2, FacingSame, SameOwnLess DEF Withdrawn
<1>3. CASE m \in S
  <2>1. /\ u.own[m].avail = w.own[m].avail /\ u.own[m].period = w.own[m].period
        /\ u.own[m].value = w.own[m].value
    BY DEF Withdrawn, SameOwn, OwnFields
  <2>2. (u.retained[m] = None /\ u.own[m].pending = FALSE) \/ u.own[m].pending = TRUE
    BY <1>3 DEF Withdrawn
  <2> QED BY <1>3, <2>1, <2>2 DEF Facing, Suited, Withheld, Served, Offered
<1> QED BY <1>2, <1>3

LEMMA DependentsMirror ==
    ASSUME NEW w, NEW x \in Managed \cup Remote
    PROVE  \A m \in Dependents(w, x) : m \in Managed /\ Mirrors[m] # None /\ m \notin Tuned
BY ManagedAssumption, MirrorAssumption DEF Dependents

LEMMA LostFaces ==
    ASSUME NEW w, NEW u, NEW x \in Managed \cup Remote, Lost(w, u, x), Faces(w)
    PROVE  Faces(u)
<1> SUFFICES ASSUME NEW m \in Managed PROVE Facing(u, m)
  BY DEF Faces
<1>1. u.bound = w.bound /\ Facing(w, m)
  BY DEF Lost, Same, NetFields, Faces
<1>2. CASE m \notin Dependents(w, x)
  BY <1>1, <1>2, FacingSame, SameOwnLess DEF Lost
<1>3. CASE m \in Dependents(w, x)
  <2>1. u.own[m].avail = FALSE /\ u.own[m].period = w.own[m].period
    BY <1>3 DEF Lost, SameOwn, OwnFields
  <2>2. u.retained[m] = None \/ u.own[m].pending = TRUE
    BY <1>3 DEF Lost
  <2>3. Mirrors[m] # None /\ m \notin Tuned
    BY <1>3, DependentsMirror
  <2> QED BY <1>1, <2>1, <2>2, <2>3 DEF Facing, Suited, Withheld, Served, Offered
<1> QED BY <1>2, <1>3

LEMMA ToldFaces ==
    ASSUME NEW w, NEW u, NEW x \in Managed \cup Remote, NEW v, Told(w, u, x, v), Faces(w)
    PROVE  Faces(u)
<1> SUFFICES ASSUME NEW m \in Managed PROVE Facing(u, m)
  BY DEF Faces
<1>1. u.bound = w.bound /\ Facing(w, m)
  BY DEF Told, Same, NetFields, Faces
<1>2. CASE m \notin Dependents(w, x)
  BY <1>1, <1>2, FacingSame, SameOwnLess DEF Told
<1>3. CASE m \in Dependents(w, x)
  <2>1. u.own[m].avail = TRUE /\ u.own[m].period = w.own[m].period
    BY <1>3 DEF Told, SameOwn, OwnFields
  <2>3. Mirrors[m] # None /\ m \notin Tuned
    BY <1>3, DependentsMirror
  <2> QED BY <1>1, <2>1, <2>3 DEF Facing, Suited, Withheld, Served
<1> QED BY <1>2, <1>3

\* u differs from w in nothing that the manifest or the owners of other values see.
Likewise(w, u) ==
    /\ Same(w, u, {"own", "retained", "policy", "sources", "kept", "loaded", "ok"})
    /\ \A m \in Managed : u.own[m].period = w.own[m].period /\ u.own[m].poll = w.own[m].poll

LEMMA LikewiseTwice ==
    ASSUME NEW w, NEW t, NEW u, Likewise(w, t), Likewise(t, u)
    PROVE  Likewise(w, u)
BY DEF Likewise, Same, NetFields

LEMMA LikewiseSame ==
    ASSUME NEW w PROVE Likewise(w, w)
BY DEF Likewise, Same

LEMMA LikewiseDescribed ==
    ASSUME NEW w, NEW u, Likewise(w, u), Described(w)
    PROVE  Described(u)
<1>1. u.bound = w.bound /\ u.dirty = w.dirty /\ u.manifest = w.manifest
  BY DEF Likewise, Same, NetFields
<1> QED BY <1>1, ManifestSame DEF Likewise, Described

LEMMA PublishedLikewise ==
    ASSUME NEW w, NEW u, NEW S, Published(w, u, S) PROVE Likewise(w, u)
BY DEF Published, Likewise, Same, SameOwn, OwnFields

LEMMA WithdrawnLikewise ==
    ASSUME NEW w, NEW u, NEW S, Withdrawn(w, u, S) PROVE Likewise(w, u)
BY DEF Withdrawn, Likewise, Same, SameOwn, OwnFields

LEMMA LostLikewise ==
    ASSUME NEW w, NEW u, NEW x, Lost(w, u, x) PROVE Likewise(w, u)
BY DEF Lost, Likewise, Same, SameOwn, OwnFields

LEMMA ToldLikewise ==
    ASSUME NEW w, NEW u, NEW x, NEW v, Told(w, u, x, v) PROVE Likewise(w, u)
BY DEF Told, Likewise, Same, SameOwn, OwnFields

LEMMA PutsLikewise ==
    ASSUME NEW w, NEW u, NEW m \in Managed, NEW g \in OwnFields \ {"period", "poll"}, NEW v, Puts(w, u, m, g, v)
    PROVE  Likewise(w, u)
BY DEF Puts, Likewise, Same, SameOwn, OwnFields

LEMMA ManifestDescribed ==
    ASSUME NEW w, Shaped(w), NEW u \in PublishManifest(w)
    PROVE  /\ Described(u) /\ Shaped(u) /\ Same(w, u, {"dirty", "manifest"})
<1>1. /\ Shaped(u) /\ Same(w, u, {"dirty", "manifest"})
      /\ u.manifest = Manifest(w) \/ u.dirty = TRUE
  BY ManifestIs
<1>2. u.bound = w.bound /\ u.own = w.own
  BY <1>1 DEF Same, NetFields
<1>3. Manifest(u) = Manifest(w)
  BY <1>2, ManifestSame
<1> QED BY <1>1, <1>3 DEF Described

\* What the broker retains of the device, and how it describes it, are as they should be
\* but for what will be tried again.
Abreast(w) == Faces(w) /\ Described(w)

LEMMA PublishManifestAbreast ==
    ASSUME NEW w, Shaped(w), Faces(w), NEW u \in PublishManifest(w)
    PROVE  Abreast(u)
<1>1. Described(u) /\ Same(w, u, {"dirty", "manifest"})
  BY ManifestDescribed
<1>2. u.own = w.own /\ u.retained = w.retained /\ u.bound = w.bound
  BY <1>1 DEF Same, NetFields
<1> QED BY <1>1, <1>2, FacesSame DEF Abreast

LEMMA PublishResourceStatesAbreast ==
    ASSUME NEW w, Shaped(w), Abreast(w), NEW u \in PublishResourceStates(w)
    PROVE  Abreast(u) /\ Likewise(w, u)
<1>1. Published(w, u, w.bound \cap Managed)
  BY PublishStatesIs DEF PublishResourceStates
<1>2. Faces(u)
  BY <1>1, PublishedFaces DEF Abreast, Faces, Facing
<1>3. Likewise(w, u)
  BY <1>1, PublishedLikewise
<1> QED BY <1>2, <1>3, LikewiseDescribed DEF Abreast

LEMMA InspectAbreast ==
    ASSUME NEW w, Shaped(w), Abreast(w), NEW m \in Managed, NEW u \in Inspect(w, m)
    PROVE  Abreast(u) /\ Likewise(w, u)
<1>0. \A k \in Managed : Facing(w, k)
  BY DEF Abreast, Faces
<1>1. CASE w.own[m].pending = TRUE
  <2>1. Withdrawn(w, u, {m})
    BY <1>1, WithdrawStatesIs DEF Inspect, WithdrawState
  <2>2. Suited(w, m) /\ (Mirrors[m] = None => w.own[m].avail # TRUE \/ w.own[m].period = "off")
    BY <1>0, <1>1 DEF Facing, Withheld
  <2>3. Faces(u)
    BY <1>0, <2>1, <2>2, WithdrawnFaces
  <2>4. Likewise(w, u)
    BY <2>1, WithdrawnLikewise
  <2> QED BY <2>3, <2>4, LikewiseDescribed DEF Abreast
<1>2. CASE w.own[m].pending # TRUE
  <2>1. u \in PublishState(w, m) \/ u = w
    BY <1>2 DEF Inspect
  <2>2. CASE u \in PublishState(w, m)
    <3>1. Published(w, u, {m})
      BY <2>2, PublishStatesIs DEF PublishState
    <3>2. Faces(u)
      BY <1>0, <3>1, PublishedFaces DEF Facing
    <3>3. Likewise(w, u)
      BY <3>1, PublishedLikewise
    <3> QED BY <3>2, <3>3, LikewiseDescribed DEF Abreast
  <2> QED BY <2>1, <2>2, LikewiseSame
<1> QED BY <1>1, <1>2

LEMMA TellFaces ==
    ASSUME NEW w, Shaped(w), NEW m \in Managed, NEW u \in Tell(w, m),
           \A k \in Managed : Suited(w, k) /\ Withheld(w, k) /\ (k = m \/ Served(w, k))
    PROVE  Faces(u) /\ Likewise(w, u)
<1>1. CASE ~w.own[m].avail /\ u = w
  <2>1. Served(w, m)
    BY <1>1 DEF Served, Offered
  <2> QED BY <1>1, <2>1, LikewiseSame DEF Faces, Facing
<1>2. ASSUME NEW t, Published(w, t, {m}), Told(t, u, m, t.own[m].value) PROVE Faces(u) /\ Likewise(w, u)
  <2>1. Faces(t)
    BY <1>2, PublishedFaces
  <2>2. Faces(u)
    BY <1>2, <2>1, ToldFaces
  <2>3. Likewise(w, t) /\ Likewise(t, u)
    BY <1>2, PublishedLikewise, ToldLikewise
  <2> QED BY <2>2, <2>3, LikewiseTwice
<1> QED BY <1>1, <1>2, TellIs

LEMMA SetValueAbreast ==
    ASSUME NEW w, Shaped(w), Abreast(w), NEW m \in Managed, NEW v, NEW u \in SetValue(w, m, v)
    PROVE  Abreast(u) /\ Likewise(w, u)
<1> DEFINE t == [w EXCEPT !.own[m].value = v]
<1>0. u \in IF Bound(w, m) THEN Tell(t, m) ELSE {t}
  BY DEF SetValue
<1>1. Puts(w, t, m, "value", v)
  BY OwnPuts DEF OwnFields
<1> HIDE DEF t
<1>2. Shaped(t) /\ t.retained = w.retained /\ t.bound = w.bound
  BY <1>1 DEF Puts, Same, NetFields
<1>3. \A k \in Managed : Suited(t, k) /\ Withheld(t, k) /\ (k = m \/ Served(t, k))
  <2>1. ASSUME NEW k \in Managed, k # m PROVE Facing(t, k)
    BY <1>1, <1>2, <2>1, FacingSame, SameOwnLess DEF Puts, Abreast, Faces
  <2>2. Suited(t, m) /\ Withheld(t, m)
    <3>1. t.own[m].avail = w.own[m].avail /\ t.own[m].period = w.own[m].period /\ t.own[m].pending = w.own[m].pending
      BY <1>1 DEF Puts, SameOwn, OwnFields
    <3>2. Suited(w, m) /\ Withheld(w, m)
      BY DEF Abreast, Faces, Facing
    <3> QED BY <1>2, <3>1, <3>2 DEF Suited, Withheld
  <2> QED BY <2>1, <2>2 DEF Facing
<1>4. Likewise(w, t)
  BY <1>1, PutsLikewise DEF OwnFields
<1>5. CASE Bound(w, m)
  <2>1. Faces(u) /\ Likewise(t, u)
    BY <1>0, <1>2, <1>3, <1>5, TellFaces
  <2>2. Likewise(w, u)
    BY <1>4, <2>1, LikewiseTwice
  <2> QED BY <2>1, <2>2, LikewiseDescribed DEF Abreast
<1>6. CASE ~Bound(w, m)
  <2>1. u = t /\ Served(t, m)
    BY <1>0, <1>2, <1>6 DEF Served, Bound
  <2>2. Faces(u)
    BY <1>3, <2>1 DEF Faces, Facing
  <2> QED BY <1>4, <2>1, <2>2, LikewiseDescribed DEF Abreast
<1> QED BY <1>5, <1>6

LEMMA PutsFacing ==
    ASSUME NEW w, Faces(w), NEW m \in Managed, NEW g, NEW v, NEW u, Puts(w, u, m, g, v)
    PROVE  /\ Shaped(u) /\ u.retained = w.retained /\ u.bound = w.bound
           /\ \A k \in Managed \ {m} : Facing(u, k)
<1>1. Shaped(u) /\ u.retained = w.retained /\ u.bound = w.bound
  BY DEF Puts, Same, NetFields
<1> QED BY <1>1, FacingSame, SameOwnLess DEF Puts, Faces

LEMMA SetAvailableAbreast ==
    ASSUME NEW w, Shaped(w), Abreast(w), NEW m \in Managed \ Tuned, Mirrors[m] = None, NEW a \in BOOLEAN,
           NEW u \in SetAvailable(w, m, a)
    PROVE  Abreast(u) /\ Likewise(w, u)
<1>1. PICK t : Availed(w, t, u, m, a)
  BY SetAvailableIs
<1>2. Faces(w) /\ Facing(w, m)
  BY DEF Abreast, Faces
<1>3. /\ Shaped(t) /\ t.retained = w.retained /\ t.bound = w.bound
      /\ \A k \in Managed \ {m} : Facing(t, k)
  BY <1>1, <1>2, PutsFacing DEF Availed
<1>4. t.own[m].avail = a /\ t.own[m].period # "off" /\ Suited(t, m)
  BY <1>1, <1>2 DEF Availed, Puts, SameOwn, OwnFields, Facing, Suited
<1>5. Likewise(w, t)
  BY <1>1, PutsLikewise DEF Availed, OwnFields
<1>6. SUFFICES Faces(u) /\ Likewise(w, u)
  BY LikewiseDescribed DEF Abreast
<1>7. CASE m \notin w.bound /\ Puts(t, u, m, "pending", ~a)
  <2>1. Likewise(w, u)
    BY <1>5, <1>7, PutsLikewise, LikewiseTwice DEF OwnFields
  <2>2. /\ u.own[m].pending = ~a /\ u.own[m].avail = a /\ u.own[m].period # "off" /\ u.bound = w.bound
    BY <1>3, <1>4, <1>7 DEF Puts, SameOwn, OwnFields, Same, NetFields
  <2>3. Facing(u, m)
    BY <1>7, <2>2 DEF Facing, Suited, Withheld, Served
  <2>4. \A k \in Managed \ {m} : Facing(u, k)
    <3>1. u.retained = t.retained /\ u.bound = t.bound
      BY <1>7 DEF Puts, Same, NetFields
    <3> QED BY <1>3, <1>7, <3>1, FacingSame, SameOwnLess DEF Puts
  <2> QED BY <2>1, <2>3, <2>4 DEF Faces
<1>8. CASE u = w
  BY <1>2, <1>8, LikewiseSame
<1>9. ASSUME a = FALSE, NEW v, Withdrawn(t, v, {m}), u \in WithdrawFromDependents(v, m)
      PROVE  Faces(u) /\ Likewise(w, u)
  <2>1. Faces(v)
    BY <1>3, <1>4, <1>9, WithdrawnFaces
  <2>2. Lost(v, u, m)
    BY <1>9, WithdrawFromDependentsIs DEF Withdrawn
  <2>3. Likewise(t, v) /\ Likewise(v, u)
    BY <1>9, <2>2, WithdrawnLikewise, LostLikewise
  <2> QED BY <1>5, <2>1, <2>2, <2>3, LostFaces, LikewiseTwice
<1>10. ASSUME a = TRUE, NEW v, Puts(t, v, m, "pending", FALSE),
              u \in IF v.own[m].value = None THEN {v} ELSE Tell(v, m)
       PROVE  Faces(u) /\ Likewise(w, u)
  <2>1. /\ Shaped(v) /\ v.own[m].pending = FALSE /\ v.own[m].avail = TRUE /\ v.own[m].period # "off"
        /\ v.bound = t.bound /\ v.retained = t.retained
    BY <1>4, <1>10 DEF Puts, SameOwn, OwnFields, Same, NetFields
  <2>2. Suited(v, m) /\ Withheld(v, m)
    BY <2>1 DEF Suited, Withheld
  <2>3. \A k \in Managed \ {m} : Facing(v, k)
    BY <1>3, <1>10, <2>1, FacingSame, SameOwnLess DEF Puts
  <2>4. \A k \in Managed : Suited(v, k) /\ Withheld(v, k) /\ (k = m \/ Served(v, k))
    BY <2>2, <2>3 DEF Facing
  <2>5. Likewise(w, v)
    BY <1>5, <1>10, PutsLikewise, LikewiseTwice DEF OwnFields
  <2>6. CASE u = v /\ v.own[m].value = None
    <3>1. Served(v, m)
      BY <2>6 DEF Served, Offered
    <3> QED BY <2>4, <2>5, <2>6, <3>1 DEF Faces, Facing
  <2>7. CASE u \in Tell(v, m)
    BY <2>1, <2>4, <2>5, <2>7, TellFaces, LikewiseTwice
  <2> QED BY <1>10, <2>6, <2>7
<1> QED BY <1>1, <1>7, <1>8, <1>9, <1>10 DEF Availed

\* u differs from w in nothing that concerns the owners of other values.
Beside(w, u) ==
    /\ u.theirs = w.theirs /\ u.inbox = w.inbox /\ u.src = w.src /\ u.bound \cap Remote \subseteq w.bound
    /\ \A r \in Remote : u.remote[r].value = w.remote[r].value /\ u.remote[r].avail = w.remote[r].avail

LEMMA LikewiseBeside ==
    ASSUME NEW w, NEW u, Likewise(w, u) PROVE Beside(w, u)
BY DEF Likewise, Same, NetFields, Beside

LEMMA SameBeside ==
    ASSUME NEW w, NEW u, NEW F, Same(w, u, F), F \subseteq NetFields \ {"theirs", "inbox", "src", "remote", "bound"}
    PROVE  Beside(w, u)
BY DEF Same, NetFields, Beside

LEMMA BesideTwice ==
    ASSUME NEW w, NEW t, NEW u, Beside(w, t), Beside(t, u)
    PROVE  Beside(w, u)
BY DEF Beside

LEMMA SetAdvertisementPolicyAbreast ==
    ASSUME NEW w, Shaped(w), Abreast(w), NEW m \in Managed \cap Tuned, NEW p,
           NEW u \in SetAdvertisementPolicy(w, m, p)
    PROVE  Abreast(u) /\ Beside(w, u)
<1>0. Faces(w) /\ Facing(w, m)
  BY DEF Abreast, Faces
<1>1. CASE u = w
  BY <1>1, LikewiseSame, LikewiseBeside
<1>2. ASSUME NEW t, Adopted(w, t, m, p),
             \/ p = "off" /\ Withdrawn(t, u, {m})
             \/ p # "off" /\ \E v : /\ Puts(t, v, m, "pending", FALSE)
                                    /\ \/ w.own[m].period = "off" /\ Published(v, u, {m})
                                       \/ w.own[m].period # "off" /\ u = v
      PROVE  Abreast(u) /\ Beside(w, u)
  <2>1. /\ t.retained = w.retained /\ t.bound = w.bound /\ Described(t) /\ Beside(w, t)
        /\ t.own[m].avail = TRUE /\ t.own[m].period = p
    BY <1>0, <1>2 DEF Adopted, Same, NetFields, Described, Beside, Facing, Suited, SameOwn, OwnFields
  <2>2. \A k \in Managed \ {m} : Facing(t, k)
    BY <1>0, <1>2, <2>1, FacingSame, SameOwnLess DEF Adopted, Faces
  <2>3. CASE p = "off" /\ Withdrawn(t, u, {m})
    <3>1. Faces(u)
      BY <2>1, <2>2, <2>3, WithdrawnFaces DEF Suited
    <3>2. Likewise(t, u)
      BY <2>3, WithdrawnLikewise
    <3> QED BY <2>1, <3>1, <3>2, LikewiseDescribed, LikewiseBeside, BesideTwice DEF Abreast
  <2>4. ASSUME p # "off", NEW v, Puts(t, v, m, "pending", FALSE),
               \/ w.own[m].period = "off" /\ Published(v, u, {m})
               \/ w.own[m].period # "off" /\ u = v
        PROVE  Abreast(u) /\ Beside(w, u)
    <3>1. /\ v.own[m].pending = FALSE /\ v.own[m].avail = TRUE /\ v.own[m].period = p
          /\ v.retained = t.retained /\ v.bound = t.bound
          /\ v.own[m].value = t.own[m].value /\ v.own[m].retry = t.own[m].retry
      BY <2>1, <2>4 DEF Puts, Same, NetFields, SameOwn, OwnFields
    <3>2. \A k \in Managed \ {m} : Facing(v, k)
      BY <2>2, <2>4, <3>1, FacingSame, SameOwnLess DEF Puts
    <3>3. Suited(v, m) /\ Withheld(v, m)
      BY <2>4, <3>1 DEF Suited, Withheld
    <3>4. Likewise(t, v)
      BY <2>4, PutsLikewise DEF OwnFields
    <3>5. CASE Published(v, u, {m})
      <4>1. Faces(u)
        BY <3>2, <3>3, <3>5, PublishedFaces DEF Facing
      <4>2. Likewise(t, u)
        BY <3>4, <3>5, PublishedLikewise, LikewiseTwice
      <4> QED BY <2>1, <4>1, <4>2, LikewiseDescribed, LikewiseBeside, BesideTwice DEF Abreast
    <3>6. CASE w.own[m].period # "off" /\ u = v
      <4>1. t.own[m].value = w.own[m].value /\ t.own[m].retry = w.own[m].retry /\ w.own[m].avail = TRUE
        BY <1>0, <1>2 DEF Adopted, SameOwn, OwnFields, Facing, Suited
      <4>2. Served(v, m)
        BY <1>0, <2>1, <3>1, <3>6, <4>1 DEF Facing, Served, Offered
      <4>3. Faces(u)
        BY <3>2, <3>3, <3>6, <4>2 DEF Faces, Facing
      <4> QED BY <2>1, <3>4, <3>6, <4>3, LikewiseDescribed, LikewiseBeside, BesideTwice DEF Abreast
    <3> QED BY <2>4, <3>5, <3>6
  <2> QED BY <1>2, <2>3, <2>4
<1> QED BY <1>1, <1>2, SetAdvertisementPolicyIs

LEMMA SetPollAbreast ==
    ASSUME NEW w, Shaped(w), Abreast(w), NEW m \in Managed, NEW q, NEW u \in SetPoll(w, m, q)
    PROVE  Abreast(u) /\ Beside(w, u)
<1>1. CASE u = w
  BY <1>1, LikewiseSame, LikewiseBeside
<1>2. CASE Polled(w, u, m)
  <2>1. u.retained = w.retained /\ u.bound = w.bound /\ Described(u) /\ Beside(w, u)
    BY <1>2 DEF Polled, Same, NetFields, Described, Beside
  <2>2. \A k \in Managed : SameOwn(w, u, k, {"poll"})
    BY <1>2, SameOwnLess DEF Polled
  <2> QED BY <2>1, <2>2, FacingSame DEF Abreast, Faces
<1> QED BY <1>1, <1>2, SetPollIs

LEMMA RetunedFaces ==
    ASSUME NEW w, Faces(w), NEW S, NEW u, Retuned(w, u, S),
           \A m \in S \cap Managed : m \notin w.bound \/ w.own[m].value = None
    PROVE  Faces(u)
<1> SUFFICES ASSUME NEW m \in Managed PROVE Facing(u, m)
  BY DEF Faces
<1>1. u.retained = w.retained /\ u.bound = w.bound /\ Facing(w, m)
  BY DEF Retuned, Same, NetFields, Faces
<1>2. CASE SameOwn(w, u, m, {})
  BY <1>1, <1>2, FacingSame, SameOwnLess
<1>3. CASE /\ m \in S \cap Tuned /\ SameOwn(w, u, m, {"period", "poll", "pending"})
           /\ u.own[m].pending = (u.own[m].period = "off")
  <2>1. u.own[m].avail = w.own[m].avail /\ u.own[m].value = w.own[m].value
    BY <1>3 DEF SameOwn, OwnFields
  <2>2. Suited(u, m) /\ u.own[m].avail = TRUE
    BY <1>1, <1>3, <2>1 DEF Facing, Suited
  <2>3. Served(u, m)
    BY <1>1, <1>3, <2>1 DEF Served, Offered
  <2>4. u.own[m].pending = TRUE <=> u.own[m].period = "off"
    BY <1>3
  <2> QED BY <2>2, <2>3, <2>4 DEF Facing, Withheld
<1> QED BY <1>2, <1>3 DEF Retuned

LEMMA BindManagedAbreast ==
    ASSUME NEW w, Shaped(w), Abreast(w), NEW m \in Managed \ w.bound, NEW u \in BindManaged(w, m)
    PROVE  Abreast(u) /\ Beside(w, u)
<1>1. PICK t : Retuned(w, t, {m}) /\ (u = t \/ Bindings(t, u, m))
  BY BindManagedIs
<1>2. Faces(t) /\ Shaped(t) /\ t.bound = w.bound /\ Beside(w, t)
  <2>1. Faces(t)
    BY <1>1, RetunedFaces DEF Abreast
  <2>2. Shaped(t) /\ Same(w, t, {"own", "policy", "ok"})
    BY <1>1 DEF Retuned
  <2>3. Beside(w, t) /\ t.bound = w.bound
    BY <2>2 DEF Beside, Same, NetFields
  <2> QED BY <2>1, <2>2, <2>3
<1>3. CASE u = t
  <2>1. t.dirty = w.dirty /\ t.manifest = w.manifest
    BY <1>1 DEF Retuned, Same, NetFields
  <2>2. \A k \in w.bound \cap Managed : SameOwn(w, t, k, {})
    BY <1>1 DEF Retuned
  <2>3. Manifest(t) = Manifest(w)
    BY <1>2, <2>2 DEF Manifest, SameOwn, OwnFields
  <2>4. Described(t)
    BY <2>1, <2>3 DEF Abreast, Described
  <2> QED BY <1>2, <1>3, <2>4 DEF Abreast
<1>4. ASSUME NEW b, NEW v, Shaped(b), Same(t, b, {"bound"}), b.bound = t.bound \cup {m},
             v \in PublishManifest(b), u \in PublishState(v, m)
      PROVE  Abreast(u) /\ Beside(w, u)
  <2>1. Described(v) /\ Shaped(v) /\ Same(b, v, {"dirty", "manifest"})
    BY <1>4, ManifestDescribed
  <2>2. v.own = t.own /\ v.retained = t.retained /\ v.bound = t.bound \cup {m}
    BY <1>4, <2>1 DEF Same, NetFields
  <2>3. Beside(t, v)
    <3>1. v.theirs = t.theirs /\ v.inbox = t.inbox /\ v.src = t.src /\ v.remote = t.remote
      BY <1>4, <2>1 DEF Same, NetFields
    <3> QED BY <2>2, <3>1, ManagedAssumption DEF Beside
  <2>4. Published(v, u, {m})
    BY <1>4, <2>1, PublishStatesIs DEF PublishState
  <2>5. \A k \in Managed : Suited(v, k) /\ Withheld(v, k) /\ (k \in {m} \/ Served(v, k))
    <3>1. \A k \in Managed : Facing(t, k)
      BY <1>2 DEF Faces
    <3> QED BY <2>2, <3>1 DEF Facing, Suited, Withheld, Served
  <2>6. Faces(u)
    BY <2>4, <2>5, PublishedFaces
  <2>7. Likewise(v, u)
    BY <2>4, PublishedLikewise
  <2> QED BY <1>2, <2>1, <2>3, <2>6, <2>7, LikewiseDescribed, LikewiseBeside, BesideTwice DEF Abreast
<1> QED BY <1>1, <1>3, <1>4 DEF Bindings

LEMMA UnbindManagedAbreast ==
    ASSUME NEW w, Shaped(w), Abreast(w), NEW m \in Managed, NEW u \in UnbindManaged(w, m)
    PROVE  Abreast(u) /\ Beside(w, u)
<1>1. PICK t, s, b : /\ Lost(w, t, m)
                     /\ Shaped(s) /\ Same(t, s, {"retained"})
                     /\ \A k \in Managed \ {m} : s.retained[k] = t.retained[k]
                     /\ s.retained[m] \in {t.retained[m], None}
                     /\ Shaped(b) /\ Same(s, b, {"bound"}) /\ b.bound = s.bound \ {m}
                     /\ u \in PublishManifest(b)
  BY UnbindManagedIs DEF Unbinding
<1>2. Faces(t) /\ Likewise(w, t)
  BY <1>1, LostFaces, LostLikewise DEF Abreast
<1>3. b.own = t.own /\ b.retained = s.retained /\ b.bound = t.bound \ {m}
  BY <1>1 DEF Same, NetFields
<1>4. Faces(b)
  <2> SUFFICES ASSUME NEW k \in Managed PROVE Facing(b, k)
    BY DEF Faces
  <2>1. Facing(t, k)
    BY <1>2 DEF Faces
  <2> QED BY <1>1, <1>3, <2>1 DEF Facing, Suited, Withheld, Served
<1>5. Beside(t, b)
  BY <1>1, <1>3 DEF Beside, Same, NetFields
<1>6. Same(b, u, {"dirty", "manifest"})
  BY <1>1, ManifestDescribed
<1>7. Beside(b, u)
  BY <1>6, SameBeside DEF NetFields
<1>8. Abreast(u)
  BY <1>1, <1>4, PublishManifestAbreast
<1> QED BY <1>2, <1>5, <1>7, <1>8, LikewiseBeside, BesideTwice
-------------------------------------------------------------------------------
(* What the device knows of the values of other devices, and what is on its way. *)

LEMMA SetToSeqAll ==
    ASSUME NEW S, IsFiniteSet(S)
    PROVE  \A x \in S : \E i \in DOMAIN SetToSeq(S) : SetToSeq(S)[i] = x
<1> DEFINE f == SetToSeq(S)
           n == Cardinality(S)
<1>1. n \in Nat /\ ExistsBijection(1 .. n, S)
  BY FS_CardinalityType
<1>2. \E g \in [1 .. n -> S] : IsInjective(g)
  BY <1>1 DEF ExistsBijection, Bijection, Injection
<1>3. f \in [1 .. n -> S] /\ IsInjective(f)
  BY <1>2 DEF SetToSeq
<1>4. IsFiniteSet(1 .. n) /\ Cardinality(1 .. n) = n
  BY <1>1, FS_Interval
<1> HIDE DEF f
<1>5. f \in Injection(1 .. n, S)
  BY <1>3 DEF Injection, IsInjective
<1> HIDE DEF n
<1>6. f \in Surjection(1 .. n, S)
  BY <1>4, <1>5, FS_Injection DEF n
<1>7. DOMAIN f = 1 .. n /\ \A x \in S : \E i \in 1 .. n : f[i] = x
  BY <1>6 DEF Surjection
<1> QED BY <1>7 DEF f

Letters == UNION {{[topic |-> t, body |-> b] : b \in Bodies(t) \cup {Deleted}} : t \in Topics}

LEMMA LetterIs ==
    /\ \A x \in Letters : x.topic \in Topics /\ x.body \in Bodies(x.topic) \cup {Deleted}
    /\ \A t \in Topics : \A b \in Bodies(t) \cup {Deleted} : [topic |-> t, body |-> b] \in Letters
BY DEF Letters

\* The last of the messages q about t says b; there is none about it.
Tells(q, t, b) ==
    \E i \in 1 .. Len(q) : /\ q[i].topic = t /\ q[i].body = b
                           /\ \A j \in 1 .. Len(q) : q[j].topic = t => j <= i
Mute(q, t) == \A i \in 1 .. Len(q) : q[i].topic # t

LEMMA AppendTells ==
    ASSUME NEW q \in Seq(Letters), NEW x \in Letters, NEW t
    PROVE  /\ Append(q, x) \in Seq(Letters)
           /\ x.topic = t => Tells(Append(q, x), t, x.body)
           /\ x.topic # t => /\ \A b : Tells(q, t, b) => Tells(Append(q, x), t, b)
                             /\ Mute(q, t) => Mute(Append(q, x), t)
<1> DEFINE s == Append(q, x)
           n == Len(q)
<1>1. /\ s \in Seq(Letters) /\ Len(s) = n + 1 /\ \A i \in 1 .. n : s[i] = q[i]
      /\ s[n + 1] = x
  BY AppendProperties
<1>2. n \in Nat
  BY LenProperties
<1> HIDE DEF s, n
<1>3. ASSUME NEW i \in 1 .. n + 1 PROVE (i \in 1 .. n /\ s[i] = q[i]) \/ (i = n + 1 /\ s[i] = x)
  BY <1>1, <1>2, <1>3
<1>4. x.topic = t => Tells(s, t, x.body)
  BY <1>1, <1>2 DEF Tells
<1>5. ASSUME x.topic # t, NEW b, Tells(q, t, b) PROVE Tells(s, t, b)
  <2>1. PICK i \in 1 .. n : q[i].topic = t /\ q[i].body = b /\ \A j \in 1 .. n : q[j].topic = t => j <= i
    BY <1>5 DEF Tells, n
  <2>2. i \in 1 .. n + 1 /\ s[i].topic = t /\ s[i].body = b
    BY <1>1, <1>2, <2>1
  <2>3. \A j \in 1 .. n + 1 : s[j].topic = t => j <= i
    BY <1>3, <1>5, <2>1
  <2> QED BY <1>1, <2>2, <2>3 DEF Tells
<1>6. x.topic # t /\ Mute(q, t) => Mute(s, t)
  BY <1>1, <1>3 DEF Mute, n
<1> QED BY <1>1, <1>4, <1>5, <1>6 DEF s

LEMMA TailTells ==
    ASSUME NEW q \in Seq(Letters), q # <<>>, NEW t
    PROVE  /\ Head(q) \in Letters /\ Tail(q) \in Seq(Letters)
           /\ Mute(q, t) => Head(q).topic # t /\ Mute(Tail(q), t)
           /\ \A b : Tells(q, t, b) => \/ Tells(Tail(q), t, b)
                                       \/ Head(q).topic = t /\ Head(q).body = b /\ Mute(Tail(q), t)
<1> DEFINE s == Tail(q)
           n == Len(s)
<1>1. /\ Head(q) \in Letters /\ s \in Seq(Letters) /\ n = Len(q) - 1 /\ \A i \in 1 .. n : s[i] = q[i + 1]
  BY HeadTailProperties
<1>2. n \in Nat /\ Len(q) = n + 1
  BY <1>1, LenProperties
<1>3. Head(q) = q[1]
  OBVIOUS
<1> HIDE DEF s
<1>4. Mute(q, t) => Head(q).topic # t /\ Mute(s, t)
  BY <1>1, <1>2, <1>3 DEF Mute
<1>5. ASSUME NEW b, Tells(q, t, b)
      PROVE  Tells(s, t, b) \/ (Head(q).topic = t /\ Head(q).body = b /\ Mute(s, t))
  <2>1. PICK i \in 1 .. n + 1 : q[i].topic = t /\ q[i].body = b /\ \A j \in 1 .. n + 1 : q[j].topic = t => j <= i
    BY <1>2, <1>5 DEF Tells
  <2>2. CASE i = 1
    <3>1. ASSUME NEW j \in 1 .. n PROVE s[j].topic # t
      BY <1>1, <1>2, <2>1, <2>2
    <3> QED BY <1>3, <2>1, <2>2, <3>1 DEF Mute
  <2>3. CASE i # 1
    <3>1. i - 1 \in 1 .. n /\ s[i - 1] = q[i]
      BY <1>1, <1>2, <2>3
    <3>2. ASSUME NEW j \in 1 .. n, s[j].topic = t PROVE j <= i - 1
      BY <1>1, <1>2, <2>1, <3>2
    <3> QED BY <2>1, <3>1, <3>2 DEF Tells
  <2> QED BY <2>2, <2>3
<1> QED BY <1>1, <1>4, <1>5 DEF s

LEMMA JoinTells ==
    ASSUME NEW q \in Seq(Letters), NEW p \in Seq(Letters), NEW t
    PROVE  /\ q \o p \in Seq(Letters)
           /\ \A b : Tells(p, t, b) => Tells(q \o p, t, b)
           /\ Mute(p, t) => /\ \A b : Tells(q, t, b) => Tells(q \o p, t, b)
                            /\ Mute(q, t) => Mute(q \o p, t)
<1> DEFINE s == q \o p
           n == Len(q)
           k == Len(p)
<1>1. /\ s \in Seq(Letters) /\ Len(s) = n + k
      /\ \A i \in 1 .. n + k : s[i] = IF i <= n THEN q[i] ELSE p[i - n]
  BY ConcatProperties
<1>2. n \in Nat /\ k \in Nat
  BY LenProperties
<1> HIDE DEF s, n, k
<1>3. ASSUME NEW i \in 1 .. n + k
      PROVE  (i \in 1 .. n /\ s[i] = q[i]) \/ (i - n \in 1 .. k /\ s[i] = p[i - n])
  BY <1>1, <1>2, <1>3
<1>4. \A i \in 1 .. n : i \in 1 .. n + k /\ s[i] = q[i]
  BY <1>1, <1>2
<1>5. \A i \in 1 .. k : i + n \in 1 .. n + k /\ s[i + n] = p[i]
  BY <1>1, <1>2
<1>6. ASSUME NEW b, Tells(p, t, b) PROVE Tells(s, t, b)
  <2>1. PICK i \in 1 .. k : p[i].topic = t /\ p[i].body = b /\ \A j \in 1 .. k : p[j].topic = t => j <= i
    BY <1>6 DEF Tells, k
  <2>2. ASSUME NEW j \in 1 .. n + k, s[j].topic = t PROVE j <= i + n
    <3>1. CASE j \in 1 .. n
      BY <1>2, <3>1
    <3>2. CASE j - n \in 1 .. k /\ s[j] = p[j - n]
      BY <1>2, <2>1, <2>2, <3>2
    <3> QED BY <1>3, <3>1, <3>2
  <2> QED BY <1>1, <1>5, <2>1, <2>2 DEF Tells
<1>7. ASSUME Mute(p, t), NEW b, Tells(q, t, b) PROVE Tells(s, t, b)
  <2>1. PICK i \in 1 .. n : q[i].topic = t /\ q[i].body = b /\ \A j \in 1 .. n : q[j].topic = t => j <= i
    BY <1>7 DEF Tells, n
  <2>2. ASSUME NEW j \in 1 .. n + k, s[j].topic = t PROVE j <= i
    BY <1>3, <1>7, <2>1, <2>2 DEF Mute, k
  <2> QED BY <1>1, <1>4, <2>1, <2>2 DEF Tells
<1>8. Mute(p, t) /\ Mute(q, t) => Mute(s, t)
  BY <1>1, <1>3 DEF Mute, n, k
<1> QED BY <1>1, <1>6, <1>7, <1>8 DEF s

\* The values that other devices give are values.
Known(w) ==
    /\ DOMAIN w.theirs = Topics
    /\ \A t \in Topics : w.theirs[t] \in Bodies(t) \cup {None}

LEMMA RetainedTells ==
    ASSUME NEW w, Known(w), NEW T \in SUBSET Topics, IsFiniteSet(T)
    PROVE  /\ Retained(w, T) \in Seq(Letters)
           /\ \A t : t \notin T => Mute(Retained(w, T), t)
           /\ \A t \in T : w.theirs[t] # None => Tells(Retained(w, T), t, w.theirs[t])
<1> DEFINE S == {t \in T : w.theirs[t] # None}
           told == SetToSeq(S)
           n == Len(told)
           q == [i \in DOMAIN told |-> [topic |-> told[i], body |-> w.theirs[told[i]]]]
<1>1. Retained(w, T) = q
  BY DEF Retained
<1>2. IsFiniteSet(S)
  BY FS_Subset
<1> HIDE DEF S
<1>3. told \in Seq(S) /\ \A i, j \in DOMAIN told : told[i] = told[j] => i = j
  BY <1>2, SetToSeqIs
<1>4. \A x \in S : \E i \in DOMAIN told : told[i] = x
  BY <1>2, SetToSeqAll
<1> HIDE DEF told
<1>5. n \in Nat /\ DOMAIN told = 1 .. n /\ \A i \in 1 .. n : told[i] \in S
  BY <1>3, LenProperties, ElementOfSeq
<1>6. q = [i \in 1 .. n |-> [topic |-> told[i], body |-> w.theirs[told[i]]]]
  BY <1>5
<1> HIDE DEF n
<1>7. ASSUME NEW i \in 1 .. n
      PROVE  q[i].topic = told[i] /\ q[i].body = w.theirs[told[i]] /\ q[i] \in Letters
  <2>1. told[i] \in Topics /\ w.theirs[told[i]] \in Bodies(told[i]) \cup {Deleted}
    BY <1>5 DEF S, Known
  <2>2. q[i] = [topic |-> told[i], body |-> w.theirs[told[i]]]
    BY <1>6
  <2> QED BY <2>1, <2>2, LetterIs
<1>8. q \in Seq(Letters) /\ Len(q) = n
  <2>1. q \in [1 .. n -> Letters]
    BY <1>6, <1>7
  <2>2. q \in Seq(Letters)
    BY <1>5, <2>1, SeqDef
  <2> QED BY <1>5, <2>1, <2>2, LenProperties
<1> HIDE DEF q
<1>9. ASSUME NEW t, t \notin T PROVE Mute(q, t)
  BY <1>5, <1>7, <1>8, <1>9 DEF Mute, S
<1>10. ASSUME NEW t \in T, w.theirs[t] # None PROVE Tells(q, t, w.theirs[t])
  <2>1. PICK i \in 1 .. n : told[i] = t
    BY <1>4, <1>5, <1>10 DEF S
  <2>2. \A j \in 1 .. n : q[j].topic = t => j <= i
    BY <1>3, <1>5, <1>7, <2>1
  <2> QED BY <1>7, <1>8, <2>1, <2>2 DEF Tells
<1> QED BY <1>1, <1>8, <1>9, <1>10

\* What the device has for r is of the source that r has; and what is on its way.
Apt(w) ==
    /\ Known(w) /\ w.inbox \in Seq(Letters)
    /\ \A r \in Remote : w.remote[r].value # None => w.remote[r].value[1] = w.src[r]

\* The value r is given by its owner is the last that is on its way, or the one r has.
Current(w, r) ==
    LET t == StateTopic(w.src[r])
    IN  w.theirs[t] # None => \/ Tells(w.inbox, t, w.theirs[t])
                              \/ /\ Mute(w.inbox, t)
                                 /\ w.remote[r].value = w.theirs[t] /\ w.remote[r].avail = TRUE
AllCurrent(w) == \A r \in Sourced(w) : Current(w, r)

\* Of a device that has, or has not, a connection.
Heedful(w) == Apt(w) /\ (online => AllCurrent(w))

LEMMA TopicsApart ==
    /\ \A a, b : StateTopic(a) = StateTopic(b) => a = b
    /\ \A a, o : StateTopic(a) # ManifestTopic(o)
    /\ \A a : StateTopic(a)[1] = "state" /\ StateTopic(a)[2] = a
    /\ \A o : ManifestTopic(o)[1] = "manifest"
    /\ \A a \in Addresses : StateTopic(a) \in Topics /\ ManifestTopic(a[1]) \in Topics
    /\ \A t \in Topics : (\E a \in Addresses : t = StateTopic(a)) \/ t[1] = "manifest"
    /\ "state" # "manifest"
BY DEF StateTopic, ManifestTopic, Topics

LEMMA BesideKept ==
    ASSUME NEW w, NEW u, Beside(w, u), Heedful(w)
    PROVE  Heedful(u)
<1>1. Sourced(u) \subseteq Sourced(w)
  BY DEF Sourced, Beside
<1> QED BY <1>1 DEF Beside, Heedful, Apt, Known, AllCurrent, Current, Sourced

LEMMA AlikeDescribed ==
    ASSUME NEW w, NEW u, Described(w), u.dirty = w.dirty, u.manifest = w.manifest,
           u.bound \cap Managed = w.bound \cap Managed,
           \A m \in Managed : u.own[m].period = w.own[m].period /\ u.own[m].poll = w.own[m].poll
    PROVE  Described(u)
BY DEF Described, Manifest

LEMMA SameAbreast ==
    ASSUME NEW w, NEW u, NEW F, Same(w, u, F), F \subseteq NetFields \ {"own", "retained", "bound", "dirty", "manifest"}
    PROVE  (Faces(w) => Faces(u)) /\ (Described(w) => Described(u))
<1>1. u.own = w.own /\ u.retained = w.retained /\ u.bound = w.bound /\ u.dirty = w.dirty /\ u.manifest = w.manifest
  BY DEF Same, NetFields
<1> QED BY <1>1, FacesSame, AlikeDescribed

\* Messages about the topics T, what is retained of them, after those that were on their way.
LEMMA JoinKept ==
    ASSUME NEW w, Apt(w), NEW T \in SUBSET Topics, IsFiniteSet(T), NEW u,
           u.theirs = w.theirs, u.inbox = w.inbox \o Retained(w, T)
    PROVE  /\ Known(u) /\ u.inbox \in Seq(Letters)
           /\ \A r : /\ u.src[r] \in Addresses /\ StateTopic(u.src[r]) \in T => Current(u, r)
                     /\ /\ StateTopic(u.src[r]) \notin T /\ u.src[r] = w.src[r] /\ Current(w, r)
                        /\ u.remote[r].value = w.remote[r].value /\ u.remote[r].avail = w.remote[r].avail
                        => Current(u, r)
<1> DEFINE p == Retained(w, T)
<1>1. Known(w) /\ Known(u) /\ w.inbox \in Seq(Letters)
  BY DEF Apt, Known
<1>2. /\ p \in Seq(Letters) /\ \A t : t \notin T => Mute(p, t)
      /\ \A t \in T : w.theirs[t] # None => Tells(p, t, w.theirs[t])
  BY <1>1, RetainedTells
<1>3. u.inbox = w.inbox \o p
  OBVIOUS
<1> HIDE DEF p
<1>4. u.inbox \in Seq(Letters)
  BY <1>1, <1>2, <1>3, JoinTells
<1>5. ASSUME NEW r, u.src[r] \in Addresses, StateTopic(u.src[r]) \in T
      PROVE  Current(u, r)
  <2>1. PICK t : t = StateTopic(u.src[r])
    OBVIOUS
  <2>2. w.theirs[t] # None => Tells(p, t, w.theirs[t])
    BY <1>2, <1>5, <2>1
  <2>3. \A b : Tells(p, t, b) => Tells(w.inbox \o p, t, b)
    BY <1>1, <1>2, JoinTells
  <2> QED BY <1>3, <2>1, <2>2, <2>3 DEF Current
<1>6. ASSUME NEW r, StateTopic(u.src[r]) \notin T, u.src[r] = w.src[r], Current(w, r),
             u.remote[r].value = w.remote[r].value, u.remote[r].avail = w.remote[r].avail
      PROVE  Current(u, r)
  <2>1. PICK t : t = StateTopic(u.src[r])
    OBVIOUS
  <2>2. Mute(p, t)
    BY <1>2, <1>6, <2>1
  <2>3. /\ \A b : Tells(w.inbox, t, b) => Tells(u.inbox, t, b)
        /\ Mute(w.inbox, t) => Mute(u.inbox, t)
    BY <1>1, <1>2, <1>3, <2>2, JoinTells
  <2> QED BY <1>6, <2>1, <2>3 DEF Current
<1> QED BY <1>1, <1>4, <1>5, <1>6

LEMMA OwnTopics ==
    ASSUME NEW X, NEW f, NEW a \in Addresses \cup {None}, NEW b
    PROVE  /\ Own(X, f, a, b) \in SUBSET Topics /\ IsFiniteSet(Own(X, f, a, b))
           /\ \A c : StateTopic(c) \in Own(X, f, a, b) => c = a
           /\ a # None => StateTopic(a) \in Own(X, f, a, b)
<1>1. CASE a = None
  BY <1>1, FS_EmptySet DEF Own, Ingress
<1>2. CASE a # None
  <2>1. Own(X, f, a, b) \subseteq {StateTopic(a)} \cup {ManifestTopic(a[1])} /\ StateTopic(a) \in Own(X, f, a, b)
    BY <1>2 DEF Own, Ingress
  <2>2. IsFiniteSet({StateTopic(a)} \cup {ManifestTopic(a[1])})
    BY FS_Singleton, FS_Union
  <2>3. IsFiniteSet(Own(X, f, a, b))
    BY <2>1, <2>2, FS_Subset
  <2> QED BY <1>2, <2>1, <2>3, TopicsApart
<1> QED BY <1>1, <1>2

LEMMA NeededTopics ==
    ASSUME NEW w, Sources(w.src)
    PROVE  Needed(w) \in SUBSET Topics /\ IsFiniteSet(Needed(w))
<1> DEFINE S == Sourced(w)
           A == {StateTopic(w.src[r]) : r \in S}
           B == {ManifestTopic(w.src[r][1]) : r \in S}
           f == [r \in S |-> StateTopic(w.src[r])]
           g == [r \in S |-> ManifestTopic(w.src[r][1])]
<1>1. S \subseteq Remote /\ \A r \in S : w.src[r] \in Addresses
  BY DEF Sourced, Sources
<1>2. IsFiniteSet(S)
  BY <1>1, FS_Subset, RemoteAssumption
<1>3. A \cup B \subseteq Topics
  BY <1>1, TopicsApart
<1>4. Needed(w) = A \cup B
  BY DEF Needed
<1>5. f \in Surjection(S, A) /\ g \in Surjection(S, B)
  BY DEF Surjection
<1> HIDE DEF f, g, A, B, S
<1>6. IsFiniteSet(A) /\ IsFiniteSet(B)
  BY <1>2, <1>5, FS_Surjection
<1> QED BY <1>3, <1>4, <1>6, FS_Union

\* Device, broker and owners agree but for what is under way.
Reconciled(w) == Heedful(w) /\ Abreast(w)

LEMMA ReconciledBeside ==
    ASSUME NEW w, Reconciled(w), NEW u, Beside(w, u), Abreast(u)
    PROVE  Reconciled(u)
BY BesideKept DEF Reconciled

LEMMA ReconciledSame ==
    ASSUME NEW w, Reconciled(w), NEW u, NEW F, Same(w, u, F),
           F \subseteq NetFields \ {"own", "retained", "bound", "dirty", "manifest", "theirs", "inbox", "src", "remote"}
    PROVE  Reconciled(u)
<1>1. Beside(w, u)
  BY SameBeside
<1>2. F \subseteq NetFields \ {"own", "retained", "bound", "dirty", "manifest"}
  OBVIOUS
<1>3. Abreast(u)
  BY <1>2, SameAbreast DEF Reconciled, Abreast
<1> QED BY <1>1, <1>3, ReconciledBeside

LEMMA MovingHeedful ==
    ASSUME NEW w, Heedful(w), Sources(w.src), NEW r \in w.bound \cap Remote, NEW a \in Addresses \cup {None},
           ~TakenByOther(w, r, a), NEW t, NEW v, NEW u, Moving(w, t, v, u, r, a)
    PROVE  Heedful(u)
<1> DEFINE T == Own(Sourced(w) \ {r}, w.src, a, w.src[r])
<1>1. /\ u.bound = w.bound /\ u.src[r] = a /\ \A q \in Remote \ {r} : u.src[q] = w.src[q]
      /\ u.remote[r] = Unlearned /\ \A q \in Remote \ {r} : u.remote[q] = w.remote[q]
      /\ Sourced(u) \ {r} = Sourced(w) \ {r}
      /\ Same(w, u, {"own", "retained", "src", "remote", "subs", "inbox"})
  BY MovingIs
<1>2. u.theirs = w.theirs
  BY <1>1 DEF Same, NetFields
<1>3. /\ T \in SUBSET Topics /\ IsFiniteSet(T) /\ \A c : StateTopic(c) \in T => c = a
      /\ a # None => StateTopic(a) \in T
  BY OwnTopics
<1>4. /\ online => u.inbox = w.inbox \o Retained(w, T)
      /\ ~online => u.inbox = w.inbox
  BY DEF Moving
<1> HIDE DEF T
<1>5. \A q \in Remote : u.remote[q].value # None => u.remote[q].value[1] = u.src[q]
  <2>1. Unlearned.value = None
    BY DEF Unlearned
  <2> QED BY <1>1, <2>1 DEF Heedful, Apt
<1>6. CASE ~online
  BY <1>2, <1>4, <1>5, <1>6 DEF Heedful, Apt, Known
<1>7. CASE online
  <2>1. Known(u) /\ u.inbox \in Seq(Letters)
    BY <1>2, <1>3, <1>4, <1>7, JoinKept DEF Heedful
  <2>2. ASSUME NEW q \in Sourced(u) PROVE Current(u, q)
    <3>1. CASE q = r
      <4>1. u.src[q] \in Addresses /\ StateTopic(u.src[q]) \in T
        BY <1>1, <1>3, <3>1 DEF Sourced
      <4> QED BY <1>2, <1>3, <1>4, <1>7, <4>1, JoinKept DEF Heedful
    <3>2. CASE q # r
      <4>1. q \in Sourced(w) \ {r} /\ q \in Remote /\ w.src[q] # None
        BY <1>1, <3>2 DEF Sourced
      <4>2. w.src[q] # a /\ u.src[q] = w.src[q] /\ u.remote[q] = w.remote[q]
        BY <1>1, <4>1, TakenIs
      <4>3. StateTopic(u.src[q]) \notin T
        BY <1>3, <4>2
      <4>4. Current(w, q)
        BY <1>7, <4>1 DEF Heedful, AllCurrent
      <4> QED BY <1>2, <1>3, <1>4, <1>7, <4>2, <4>3, <4>4, JoinKept DEF Heedful
    <3> QED BY <3>1, <3>2
  <2> QED BY <1>5, <2>1, <2>2 DEF Heedful, Apt, AllCurrent
<1> QED BY <1>6, <1>7

LEMMA MovingReconciled ==
    ASSUME NEW w, Reconciled(w), Sources(w.src), NEW r \in w.bound \cap Remote, NEW a \in Addresses \cup {None},
           ~TakenByOther(w, r, a), NEW t, NEW v, NEW u, Moving(w, t, v, u, r, a)
    PROVE  Reconciled(u)
<1>1. Heedful(u)
  BY MovingHeedful DEF Reconciled
<1>2. Same(w, t, {"src", "remote"}) /\ Lost(t, v, r) /\ Same(v, u, {"subs", "inbox"})
  BY DEF Moving, Sourcing
<1>3. Faces(t) /\ Described(t)
  BY <1>2, SameAbreast DEF Reconciled, Abreast, NetFields
<1>4. Faces(v) /\ Described(v)
  BY <1>2, <1>3, LostFaces, LostLikewise, LikewiseDescribed
<1>5. Faces(u) /\ Described(u)
  BY <1>2, <1>4, SameAbreast DEF NetFields
<1> QED BY <1>1, <1>5 DEF Reconciled, Abreast

LEMMA ConfigureSourceReconciled ==
    ASSUME NEW w, Good(w), Reconciled(w), NEW r \in w.bound \cap Remote, NEW a \in Addresses \cup {None},
           NEW u \in ConfigureSource(w, r, a)
    PROVE  Reconciled(u)
<1>0. NetOK(w) /\ Shaped(w) /\ Sources(w.src) /\ w.src[r] \in Addresses \cup {None}
  BY DEF Good, NetOK, Sources
<1>1. Configuring(w, u, r, a)
  BY <1>0, ConfigureSourceIs
<1>2. ASSUME NEW x, Shaped(x), Reconciled(x), NEW p \in Persist(x, r, a)
      PROVE  Reconciled(p) /\ Same(x, p, {"sources", "kept", "ok"})
  BY <1>2, PersistIs, ReconciledSame DEF NetFields, Filewise
<1>3. ASSUME NEW x, Reconciled(x), NEW y, Same(x, y, {"ok"})
      PROVE  Reconciled(y)
  BY <1>3, ReconciledSame DEF NetFields
<1>4. ASSUME NEW p, p \in Persist(w, r, a), Shaped(u), Same(p, u, {"ok"})
      PROVE  Reconciled(u)
  BY <1>0, <1>2, <1>3, <1>4
<1>5. ASSUME ~TakenByOther(w, r, a), NEW t, NEW v, NEW n, Moving(w, t, v, n, r, a),
             NEW p, p \in Persist(n, r, a),
             \/ p.ok /\ u = p
             \/ ~p.ok /\ \E s, x, y : Shaped(s) /\ Same(p, s, {"ok"}) /\ Moving(s, x, y, u, r, w.src[r])
      PROVE  Reconciled(u)
  <2>1. Reconciled(n)
    BY <1>0, <1>5, MovingReconciled
  <2>2. /\ n.bound = w.bound /\ n.src[r] = a /\ Sourced(n) \ {r} = Sourced(w) \ {r}
        /\ \A q \in Remote \ {r} : n.src[q] = w.src[q]
        /\ Shaped(n)
    BY <1>5, MovingIs
  <2>3. Reconciled(p) /\ Same(n, p, {"sources", "kept", "ok"})
    BY <1>2, <1>5, <2>1, <2>2
  <2>4. ASSUME NEW s, NEW x, NEW y, Shaped(s), Same(p, s, {"ok"}), Moving(s, x, y, u, r, w.src[r])
        PROVE  Reconciled(u)
    <3>1. Reconciled(s)
      BY <1>3, <2>3, <2>4
    <3>2. s.bound = n.bound /\ s.src = n.src
      BY <2>3, <2>4 DEF Same, NetFields
    <3>3. DOMAIN n.src = Remote
      BY <2>2 DEF Shaped
    <3>4. Sources(s.src)
      BY <1>0, <2>2, <3>2, <3>3 DEF Sources
    <3>5. Sourced(s) = Sourced(n)
      BY <3>2 DEF Sourced
    <3>6. ~TakenByOther(s, r, w.src[r])
      <4>1. ASSUME w.src[r] # None, NEW q \in Sourced(w) \ {r}
            PROVE  w.src[q] # w.src[r]
        BY <1>0, <4>1 DEF NetOK, LinksOK, Unique, Sourced
      <4>2. ASSUME w.src[r] # None, NEW q \in Sourced(s) \ {r}
            PROVE  s.src[q] # w.src[r]
        <5>1. q \in Sourced(w) \ {r} /\ s.src[q] = w.src[q]
          BY <2>2, <3>2, <3>5, <4>2 DEF Sourced
        <5> QED BY <4>1, <4>2, <5>1
      <4> QED BY <4>2, TakenIs
    <3>7. r \in s.bound \cap Remote
      BY <2>2, <3>2
    <3> QED BY <1>0, <2>4, <3>1, <3>4, <3>6, <3>7, MovingReconciled
  <2> QED BY <1>5, <2>3, <2>4
<1> QED BY <1>1, <1>4, <1>5 DEF Configuring

LEMMA BindRemoteReconciled ==
    ASSUME NEW w, Good(w), Reconciled(w), NEW r \in Remote \ w.bound, NEW u \in BindRemote(w, r)
    PROVE  Reconciled(u)
<1> SUFFICES ASSUME BindingRemote(w, u, r) PROVE Reconciled(u)
  BY BindRemoteIs DEF Good, NetOK
<1> DEFINE T == Concerned(w, w.src[r], TRUE, {r})
<1>1. /\ ~TakenByOther(w, r, w.src[r])
      /\ Same(w, u, {"bound", "subs", "inbox"}) /\ u.bound = w.bound \cup {r}
      /\ online => u.inbox = w.inbox \o Retained(w, T)
      /\ ~online => u.inbox = w.inbox
  BY DEF BindingRemote
<1>2. w.src[r] \in Addresses \cup {None}
  BY DEF Good, Sources
<1>3. T = Own(Sourced(w) \ {r}, w.src, w.src[r], None)
  BY DEF Concerned, LastOf, OwnerInUse, Own, OwnerChanged
<1> HIDE DEF T
<1>4. /\ T \in SUBSET Topics /\ IsFiniteSet(T) /\ \A c : StateTopic(c) \in T => c = w.src[r]
      /\ w.src[r] # None => StateTopic(w.src[r]) \in T
  BY <1>2, <1>3, OwnTopics
<1>5. u.theirs = w.theirs /\ u.src = w.src /\ u.remote = w.remote
  BY <1>1 DEF Same, NetFields
<1>6. Apt(w) /\ \A q \in Remote : u.remote[q].value # None => u.remote[q].value[1] = u.src[q]
  BY <1>5 DEF Reconciled, Heedful, Apt
<1>7. ASSUME ~online PROVE Heedful(u)
  BY <1>1, <1>5, <1>6, <1>7 DEF Heedful, Apt, Known
<1>8. ASSUME online PROVE Heedful(u)
  <2>1. Known(u) /\ u.inbox \in Seq(Letters)
    BY <1>1, <1>4, <1>5, <1>6, <1>8, JoinKept
  <2>2. ASSUME NEW q \in Sourced(u) PROVE Current(u, q)
    <3>1. CASE q = r
      <4>1. u.src[q] \in Addresses /\ StateTopic(u.src[q]) \in T
        BY <1>2, <1>4, <1>5, <3>1 DEF Sourced
      <4> QED BY <1>1, <1>4, <1>5, <1>6, <1>8, <4>1, JoinKept
    <3>2. CASE q # r
      <4>1. q \in Sourced(w) \ {r}
        BY <1>1, <1>5, <3>2 DEF Sourced
      <4>2. w.src[q] # w.src[r]
        BY <1>1, <4>1, TakenIs DEF Sourced
      <4>3. StateTopic(u.src[q]) \notin T
        BY <1>4, <1>5, <4>2
      <4>4. Current(w, q)
        BY <1>8, <4>1 DEF Reconciled, Heedful, AllCurrent
      <4> QED BY <1>1, <1>4, <1>5, <1>6, <1>8, <4>3, <4>4, JoinKept
    <3> QED BY <3>1, <3>2
  <2> QED BY <1>6, <2>1, <2>2 DEF Heedful, Apt, AllCurrent
<1>9. Faces(u) /\ Described(u)
  <2>1. u.own = w.own /\ u.retained = w.retained /\ u.dirty = w.dirty /\ u.manifest = w.manifest
    BY <1>1 DEF Same, NetFields
  <2>2. u.bound \cap Managed = w.bound \cap Managed
    BY <1>1, ManagedAssumption
  <2> QED BY <2>1, <2>2, FacesSame, AlikeDescribed DEF Reconciled, Abreast
<1> QED BY <1>7, <1>8, <1>9 DEF Reconciled, Abreast

LEMMA UnbindRemoteReconciled ==
    ASSUME NEW w, Good(w), Reconciled(w), NEW r \in w.bound \cap Remote, NEW u \in UnbindRemote(w, r)
    PROVE  Reconciled(u)
<1>1. PICK t, b, f : UnbindingRemote(w, t, b, f, u, r)
  BY UnbindRemoteIs DEF Good, NetOK
<1>2. /\ Lost(w, t, r) /\ Same(t, b, {"bound"}) /\ b.bound = w.bound \ {r}
      /\ Same(b, f, {"subs"}) /\ Same(f, u, {"sources", "kept", "ok"})
  BY <1>1 DEF UnbindingRemote, Rewritten, Filewise
<1>3. Abreast(t) /\ Beside(w, t)
  BY <1>2, LostFaces, LostLikewise, LikewiseDescribed, LikewiseBeside DEF Reconciled, Abreast
<1>4. Reconciled(t)
  BY <1>3, ReconciledBeside
<1>5. /\ b.own = t.own /\ b.retained = t.retained /\ b.dirty = t.dirty /\ b.manifest = t.manifest
      /\ b.theirs = t.theirs /\ b.inbox = t.inbox /\ b.src = t.src /\ b.remote = t.remote /\ t.bound = w.bound
  BY <1>2 DEF Lost, Same, NetFields
<1>6. b.bound \cap Managed = t.bound \cap Managed
  BY <1>2, <1>5, ManagedAssumption
<1>7. Faces(b) /\ Described(b)
  BY <1>3, <1>5, <1>6, FacesSame, AlikeDescribed DEF Abreast
<1>8. Beside(t, b)
  BY <1>2, <1>5 DEF Beside
<1>9. Reconciled(b)
  BY <1>4, <1>7, <1>8, ReconciledBeside DEF Abreast
<1>10. Reconciled(f)
  BY <1>2, <1>9, ReconciledSame DEF NetFields
<1> QED BY <1>2, <1>10, ReconciledSame DEF NetFields

\* A message has been taken from the queue, and given to those of R whose source it names.
LEMMA TakenOffHeedful ==
    ASSUME NEW w, Heedful(w), Sources(w.src), w.inbox # <<>>, NEW u, NEW R \in SUBSET Remote,
           u.theirs = w.theirs, u.src = w.src, u.bound = w.bound, u.inbox = Tail(w.inbox),
           \A q \in Remote \ R : u.remote[q].value = w.remote[q].value /\ u.remote[q].avail = w.remote[q].avail,
           \A q \in Sourced(w) \ R : Head(w.inbox).topic # StateTopic(w.src[q]),
           \A q \in R : /\ Head(w.inbox).topic = StateTopic(w.src[q])
                        /\ \/ Head(w.inbox).body = Deleted /\ u.remote[q].value = w.remote[q].value
                           \/ Head(w.inbox).body # Deleted /\ u.remote[q].value = Head(w.inbox).body
                              /\ u.remote[q].avail = TRUE
    PROVE  Heedful(u)
<1> DEFINE topic == Head(w.inbox).topic
           body == Head(w.inbox).body
<1>1. Known(w) /\ w.inbox \in Seq(Letters)
  BY DEF Heedful, Apt
<1>2. topic \in Topics /\ body \in Bodies(topic) \cup {Deleted} /\ Tail(w.inbox) \in Seq(Letters)
  BY <1>1, TailTells, LetterIs
<1> HIDE DEF topic, body
<1>3. ASSUME NEW q \in Remote, u.remote[q].value # None PROVE u.remote[q].value[1] = u.src[q]
  <2>1. CASE u.remote[q].value = w.remote[q].value
    BY <1>3, <2>1 DEF Heedful, Apt
  <2>2. CASE q \in R /\ body # Deleted /\ u.remote[q].value = body
    <3>1. topic = StateTopic(w.src[q])
      BY <2>2 DEF topic
    <3>2. body \in Bodies(StateTopic(w.src[q]))
      BY <1>2, <2>2, <3>1
    <3>3. Bodies(StateTopic(w.src[q])) = {<<w.src[q], d>> : d \in Versions}
      BY DEF Bodies, StateTopic
    <3> QED BY <2>2, <3>2, <3>3
  <2> QED BY <2>1, <2>2 DEF body
<1>4. ASSUME online, NEW q \in Sourced(w) PROVE Current(u, q)
  <2>1. PICK t : t = StateTopic(w.src[q])
    OBVIOUS
  <2>2. t \in Topics /\ q \in Remote
    BY <2>1, TopicsApart DEF Sourced, Sources
  <2>3. SUFFICES ASSUME w.theirs[t] # None
                 PROVE  \/ Tells(Tail(w.inbox), t, w.theirs[t])
                        \/ /\ Mute(Tail(w.inbox), t)
                           /\ u.remote[q].value = w.theirs[t] /\ u.remote[q].avail = TRUE
    BY <2>1 DEF Current
  <2>4. \/ Tells(w.inbox, t, w.theirs[t])
        \/ Mute(w.inbox, t) /\ w.remote[q].value = w.theirs[t] /\ w.remote[q].avail = TRUE
    BY <1>4, <2>1, <2>3 DEF Heedful, AllCurrent, Current
  <2>5. w.theirs[t] # Deleted
    BY <1>1, <2>2, <2>3, FirmwareAssumption DEF Known
  <2>6. /\ Mute(w.inbox, t) => topic # t /\ Mute(Tail(w.inbox), t)
        /\ \A b : Tells(w.inbox, t, b) => \/ Tells(Tail(w.inbox), t, b)
                                          \/ topic = t /\ body = b /\ Mute(Tail(w.inbox), t)
    BY <1>1, TailTells DEF topic, body
  <2>7. topic # t => q \notin R
    BY <2>1 DEF topic
  <2>8. topic = t => q \in R
    BY <2>1 DEF topic
  <2>9. CASE Mute(w.inbox, t) /\ w.remote[q].value = w.theirs[t] /\ w.remote[q].avail = TRUE
    BY <2>2, <2>6, <2>7, <2>9
  <2>10. CASE topic = t /\ body = w.theirs[t] /\ Mute(Tail(w.inbox), t)
    <3>1. q \in R /\ body # Deleted
      BY <2>5, <2>8, <2>10
    <3>2. u.remote[q].value = body /\ u.remote[q].avail = TRUE
      BY <3>1 DEF body
    <3> QED BY <2>10, <3>2
  <2> QED BY <2>4, <2>6, <2>9, <2>10
<1>5. Sourced(u) = Sourced(w)
  BY DEF Sourced
<1> QED BY <1>1, <1>2, <1>3, <1>4, <1>5 DEF Heedful, Apt, Known, AllCurrent

LEMMA HandleIngressReconciled ==
    ASSUME NEW w, Good(w), Reconciled(w), w.inbox # <<>>, NEW u \in HandleIngress(w)
    PROVE  Reconciled(u)
<1> DEFINE t == [w EXCEPT !.inbox = Tail(@)]
           topic == Head(w.inbox).topic
           body == Head(w.inbox).body
           named == NamedBy(w, topic)
<1>0. Shaped(w) /\ Sources(w.src) /\ Unique(w) /\ Heedful(w) /\ Faces(w) /\ Described(w)
  BY DEF Good, NetOK, LinksOK, Reconciled, Abreast
<1>1. u \in IF topic[1] = "manifest" THEN {ApplyManifest(t, topic[2], body)}
            ELSE IF named = {} THEN {t} ELSE ApplyRemoteState(t, CHOOSE r \in named : TRUE, body)
  BY DEF HandleIngress
<1>2. DOMAIN t = NetFields /\ Same(w, t, {"inbox"}) /\ t.inbox = Tail(w.inbox)
  BY <1>0 DEF Shaped, NetFields, Same
<1> HIDE DEF t
<1>3. Shaped(t)
  BY <1>0, <1>2, OtherFields DEF NetFields
<1>4. t.theirs = w.theirs /\ t.src = w.src /\ t.bound = w.bound /\ t.remote = w.remote /\ Faces(t) /\ Described(t)
  BY <1>0, <1>2, SameAbreast DEF Same, NetFields
<1>5. ASSUME named = {} PROVE \A q \in Sourced(w) : Head(w.inbox).topic # StateTopic(w.src[q])
  BY <1>5 DEF NamedBy
<1>6. topic[1] = "manifest" => \A q \in Sourced(w) : Head(w.inbox).topic # StateTopic(w.src[q])
  BY TopicsApart
<1>7. CASE topic[1] = "manifest"
  <2> DEFINE f == [r \in Remote |->
                     IF r \in Sourced(t) /\ t.src[r][1] = topic[2]
                     THEN [t.remote[r] EXCEPT !.period = IF body = Deleted THEN None ELSE body] ELSE t.remote[r]]
  <2>1. u = [t EXCEPT !.remote = f]
    BY <1>1, <1>2, <1>7 DEF ApplyManifest, NetFields
  <2>2. \A q \in Remote : f[q].value = w.remote[q].value /\ f[q].avail = w.remote[q].avail
    BY <1>0, <1>4 DEF Shaped, RemoteFields
  <2> HIDE DEF f
  <2>3. Same(t, u, {"remote"}) /\ u.remote = f
    BY <1>2, <2>1 DEF Same, NetFields
  <2>4. Faces(u) /\ Described(u)
    BY <1>4, <2>3, SameAbreast DEF NetFields
  <2>5. u.theirs = w.theirs /\ u.src = w.src /\ u.bound = w.bound /\ u.inbox = Tail(w.inbox)
    BY <1>2, <1>4, <2>3 DEF Same, NetFields
  <2>6. Heedful(u)
    <3> DEFINE R == {}
    <3>1. /\ R \in SUBSET Remote /\ \A q \in R : FALSE
          /\ \A q \in Remote \ R : u.remote[q].value = w.remote[q].value /\ u.remote[q].avail = w.remote[q].avail
          /\ \A q \in Sourced(w) \ R : Head(w.inbox).topic # StateTopic(w.src[q])
      BY <1>6, <1>7, <2>2, <2>3
    <3> HIDE DEF R
    <3> QED BY <1>0, <2>5, <3>1, TakenOffHeedful
  <2> QED BY <2>4, <2>6 DEF Reconciled, Abreast
<1>8. CASE topic[1] # "manifest" /\ named = {}
  <2>1. u = t
    BY <1>1, <1>8
  <2>2. Heedful(u)
    <3> DEFINE R == {}
    <3>1. /\ R \in SUBSET Remote /\ \A q \in R : FALSE
          /\ \A q \in Remote \ R : u.remote[q].value = w.remote[q].value /\ u.remote[q].avail = w.remote[q].avail
          /\ \A q \in Sourced(w) \ R : Head(w.inbox).topic # StateTopic(w.src[q])
      BY <1>4, <1>5, <1>8, <2>1
    <3> HIDE DEF R
    <3> QED BY <1>0, <1>2, <1>4, <2>1, <3>1, TakenOffHeedful
  <2> QED BY <1>4, <2>1, <2>2 DEF Reconciled, Abreast
<1>9. CASE topic[1] # "manifest" /\ named # {}
  <2>1. PICK r \in named : u \in ApplyRemoteState(t, r, body)
    BY <1>1, <1>9
  <2>2. r \in Sourced(w) /\ r \in Remote /\ StateTopic(w.src[r]) = topic
    BY <2>1 DEF NamedBy, Sourced
  <2>3. PICK v : Applied(t, v, u, r, body)
    BY <1>3, <2>1, <2>2, ApplyRemoteStateIs
  <2>4. PICK x : /\ Same(t, v, {"remote"}) /\ v.remote[r] = x /\ \A q \in Remote \ {r} : v.remote[q] = t.remote[q]
                 /\ \/ body = Deleted /\ x.value = t.remote[r].value /\ Lost(v, u, r)
                    \/ body # Deleted /\ x.avail = TRUE /\ x.value = body /\ Told(v, u, r, Effective(x))
    BY <2>3 DEF Applied, Learned
  <2>5. Faces(v) /\ Described(v)
    BY <1>4, <2>4, SameAbreast DEF NetFields
  <2>6. Faces(u) /\ Likewise(v, u)
    BY <2>2, <2>4, <2>5, LostFaces, ToldFaces, LostLikewise, ToldLikewise
  <2>7. Described(u)
    BY <2>5, <2>6, LikewiseDescribed
  <2>8. /\ u.theirs = w.theirs /\ u.src = w.src /\ u.bound = w.bound /\ u.inbox = Tail(w.inbox)
        /\ u.remote = v.remote
    BY <1>2, <1>4, <2>4, <2>6 DEF Likewise, Same, NetFields
  <2>9. Heedful(u)
    <3> DEFINE R == {r}
    <3>1. R \in SUBSET Remote
      BY <2>2
    <3>2. \A q \in Remote \ R : u.remote[q].value = w.remote[q].value /\ u.remote[q].avail = w.remote[q].avail
      BY <1>4, <2>4, <2>8
    <3>3. \A q \in Sourced(w) \ R : Head(w.inbox).topic # StateTopic(w.src[q])
      BY <1>0, <2>2, TopicsApart DEF Unique
    <3>4. \A q \in R : /\ Head(w.inbox).topic = StateTopic(w.src[q])
                       /\ \/ Head(w.inbox).body = Deleted /\ u.remote[q].value = w.remote[q].value
                          \/ Head(w.inbox).body # Deleted /\ u.remote[q].value = Head(w.inbox).body
                             /\ u.remote[q].avail = TRUE
      BY <1>4, <2>2, <2>4, <2>8
    <3>5. u.theirs = w.theirs /\ u.src = w.src /\ u.bound = w.bound /\ u.inbox = Tail(w.inbox)
      BY <2>8
    <3> HIDE DEF R, topic, body, named
    <3> QED BY <1>0, <3>1, <3>2, <3>3, <3>4, <3>5, TakenOffHeedful
  <2> QED BY <2>6, <2>7, <2>9 DEF Reconciled, Abreast
<1> QED BY <1>7, <1>8, <1>9

LEMMA HeardHeedful ==
    ASSUME NEW w, Good(w), Heedful(w), NEW t \in Topics, NEW body \in Bodies(t) \cup {None},
           NEW u, u = Heard(w, t, body)
    PROVE  Heedful(u) /\ Same(w, u, {"theirs", "inbox"})
<1> DEFINE s == [w EXCEPT !.theirs[t] = body]
           x == [topic |-> t, body |-> IF body = None THEN Deleted ELSE body]
<1>0. Shaped(w) /\ Known(w) /\ w.inbox \in Seq(Letters) /\ (online => w.subs = Needed(w))
  BY DEF Good, NetOK, LinksOK, Heedful, Apt
<1>1. /\ DOMAIN s = NetFields /\ Same(w, s, {"theirs"}) /\ s.theirs = [w.theirs EXCEPT ![t] = body]
  BY <1>0 DEF Shaped, NetFields, Same
<1>2. u = IF t \in w.subs THEN [s EXCEPT !.inbox = Append(s.inbox, x)] ELSE s
  BY DEF Heard, Hear
<1>3. x \in Letters /\ x.topic = t /\ (body # None => x.body = body)
  BY LetterIs
<1> HIDE DEF s, x
<1>4. s.inbox = w.inbox
  BY <1>1 DEF Same, NetFields
<1>5. /\ Same(w, u, {"theirs", "inbox"}) /\ u.theirs = [w.theirs EXCEPT ![t] = body]
      /\ u.inbox = IF t \in w.subs THEN Append(w.inbox, x) ELSE w.inbox
  BY <1>1, <1>2, <1>4 DEF Same, NetFields
<1>6. u.src = w.src /\ u.remote = w.remote /\ u.bound = w.bound
  BY <1>5 DEF Same, NetFields
<1>7. Known(u) /\ u.theirs[t] = body /\ \A k \in Topics \ {t} : u.theirs[k] = w.theirs[k]
  BY <1>0, <1>5 DEF Known
<1>8. u.inbox \in Seq(Letters)
  BY <1>0, <1>3, <1>5, AppendTells
<1>9. ASSUME online, NEW r \in Sourced(u) PROVE Current(u, r)
  <2>1. PICK k : k = StateTopic(w.src[r])
    OBVIOUS
  <2>2. r \in Sourced(w) /\ k \in Topics /\ k \in w.subs
    BY <1>0, <1>6, <1>9, <2>1, TopicsApart DEF Sourced, Good, Sources, Needed
  <2>3. CASE k = t
    <3>1. u.inbox = Append(w.inbox, x)
      BY <1>5, <2>2, <2>3
    <3>2. Tells(u.inbox, t, x.body)
      BY <1>0, <1>3, <3>1, AppendTells
    <3> QED BY <1>3, <1>6, <1>7, <2>1, <2>3, <3>2 DEF Current
  <2>4. CASE k # t
    <3>1. /\ \A b : Tells(w.inbox, k, b) => Tells(u.inbox, k, b)
          /\ Mute(w.inbox, k) => Mute(u.inbox, k)
      BY <1>0, <1>3, <1>5, <2>4, AppendTells
    <3>2. Current(w, r)
      BY <1>9, <2>2 DEF Heedful, AllCurrent
    <3> QED BY <1>6, <1>7, <2>1, <2>2, <2>4, <3>1, <3>2 DEF Current
  <2> QED BY <2>3, <2>4
<1> QED BY <1>5, <1>6, <1>7, <1>8, <1>9 DEF Heedful, Apt, AllCurrent

LEMMA HeardReconciled ==
    ASSUME NEW w, Good(w), Reconciled(w), NEW t \in Topics, NEW body \in Bodies(t) \cup {None},
           NEW u, u = Heard(w, t, body)
    PROVE  Reconciled(u)
<1>1. Heedful(u) /\ Same(w, u, {"theirs", "inbox"})
  BY HeardHeedful DEF Reconciled
<1> QED BY <1>1, SameAbreast DEF Reconciled, Abreast, NetFields

LEMMA RemoteReconciled ==
    ASSUME NEW w, Shaped(w), Reconciled(w), NEW f,
           \A r \in Remote : f[r].avail = w.remote[r].avail /\ f[r].value = w.remote[r].value,
           NEW u, u = [w EXCEPT !.remote = f]
    PROVE  Reconciled(u)
<1>1. Same(w, u, {"remote"}) /\ u.remote = f
  BY DEF Shaped, NetFields, Same
<1>2. Beside(w, u)
  BY <1>1 DEF Beside, Same, NetFields
<1>3. Abreast(u)
  BY <1>1, SameAbreast DEF Reconciled, Abreast, NetFields
<1> QED BY <1>2, <1>3, ReconciledBeside

LEMMA WishReconciled ==
    ASSUME NEW w, Shaped(w), Reconciled(w), NEW r \in Remote, NEW v, NEW u, u = [w EXCEPT !.remote[r].wish = v]
    PROVE  Reconciled(u)
<1> DEFINE f == [w.remote EXCEPT ![r] = [w.remote[r] EXCEPT !.wish = v]]
<1>1. u = [w EXCEPT !.remote = f]
  BY DEF Shaped, NetFields
<1>2. \A q \in Remote : f[q].avail = w.remote[q].avail /\ f[q].value = w.remote[q].value
  BY DEF Shaped, RemoteFields
<1> HIDE DEF f
<1> QED BY <1>1, <1>2, RemoteReconciled

LEMMA AgeReconciled ==
    ASSUME NEW w, Shaped(w), Reconciled(w), NEW r \in Remote, NEW u, u = Age(w, r)
    PROVE  Reconciled(u)
<1> DEFINE f == [w.remote EXCEPT ![r] = [w.remote[r] EXCEPT !.fresh = "stale"]]
<1>1. u = w \/ u = [w EXCEPT !.remote = f]
  BY DEF Age, Shaped, NetFields
<1>2. \A q \in Remote : f[q].avail = w.remote[q].avail /\ f[q].value = w.remote[q].value
  BY DEF Shaped, RemoteFields
<1> HIDE DEF f
<1> QED BY <1>1, <1>2, RemoteReconciled

LEMMA OrdinaryReconciled ==
    ASSUME Toggled \cap Tuned = {}, NEW w, Good(w), Reconciled(w), NEW u, Ordinary(w, u)
    PROVE  Reconciled(u)
<1>0. Shaped(w) /\ Abreast(w) /\ Faces(w)
  BY DEF Good, NetOK, Reconciled, Abreast
<1>a. ASSUME Abreast(u), Likewise(w, u) PROVE Reconciled(u)
  BY <1>a, LikewiseBeside, ReconciledBeside
<1>1. CASE u \in PublishManifest(w)
  <2>1. Same(w, u, {"dirty", "manifest"})
    BY <1>0, <1>1, ManifestDescribed
  <2> QED BY <1>0, <1>1, <2>1, PublishManifestAbreast, SameBeside, ReconciledBeside DEF NetFields
<1>2. CASE u \in PublishResourceStates(w)
  BY <1>0, <1>2, <1>a, PublishResourceStatesAbreast
<1>3. ASSUME NEW m \in Managed, u \in Inspect(w, m) PROVE Reconciled(u)
  BY <1>0, <1>3, <1>a, InspectAbreast
<1>4. ASSUME NEW r \in Remote, u = Age(w, r) PROVE Reconciled(u)
  BY <1>0, <1>4, AgeReconciled
<1>5. ASSUME NEW m \in Managed, NEW v, u \in SetValue(w, m, v) PROVE Reconciled(u)
  BY <1>0, <1>5, <1>a, SetValueAbreast
<1>6. ASSUME NEW m \in Managed \cap Toggled, NEW a \in BOOLEAN, Mirrors[m] = None, u \in SetAvailable(w, m, a)
      PROVE  Reconciled(u)
  BY <1>0, <1>6, <1>a, SetAvailableAbreast
<1>7. ASSUME NEW m \in Managed \cap Tuned, NEW p, u \in SetAdvertisementPolicy(w, m, p) PROVE Reconciled(u)
  BY <1>0, <1>7, SetAdvertisementPolicyAbreast, ReconciledBeside
<1>8. ASSUME NEW m \in Managed, NEW q, u \in SetPoll(w, m, q) PROVE Reconciled(u)
  BY <1>0, <1>8, SetPollAbreast, ReconciledBeside
<1>9. ASSUME NEW r \in Remote \cap States, NEW v, u \in RequestValue(w, r, v) PROVE Reconciled(u)
  <2>1. u = w \/ u = [w EXCEPT !.remote[r].wish = v]
    BY <1>9 DEF RequestValue
  <2> QED BY <1>0, <2>1, WishReconciled
<1>10. ASSUME NEW r \in Remote, u = [w EXCEPT !.remote[r].wish = None] PROVE Reconciled(u)
  BY <1>0, <1>10, WishReconciled
<1>11. CASE w.inbox # <<>> /\ u \in HandleIngress(w)
  BY <1>11, HandleIngressReconciled
<1>12. CASE Hears(w, u)
  BY <1>12, HeardReconciled DEF Hears
<1> QED BY <1>1, <1>2, <1>3, <1>4, <1>5, <1>6, <1>7, <1>8, <1>9, <1>10, <1>11, <1>12 DEF Ordinary

LEMMA RewiresReconciled ==
    ASSUME NEW w, Good(w), Reconciled(w), NEW u, Rewires(w, u)
    PROVE  Reconciled(u)
<1>0. Shaped(w) /\ Abreast(w)
  BY DEF Good, NetOK, Reconciled
<1>1. ASSUME NEW x \in Managed \cup Remote, x \notin w.bound,
             u \in IF x \in Managed THEN BindManaged(w, x) ELSE BindRemote(w, x)
      PROVE  Reconciled(u)
  <2>1. CASE x \in Managed
    <3>1. x \in Managed \ w.bound /\ u \in BindManaged(w, x)
      BY <1>1, <2>1
    <3> QED BY <1>0, <3>1, BindManagedAbreast, ReconciledBeside
  <2>2. CASE x \notin Managed
    <3>1. x \in Remote \ w.bound /\ u \in BindRemote(w, x)
      BY <1>1, <2>2
    <3> QED BY <3>1, BindRemoteReconciled
  <2> QED BY <2>1, <2>2
<1>2. ASSUME NEW x \in Managed \cup Remote, x \in w.bound,
             u \in IF x \in Managed THEN UnbindManaged(w, x) ELSE UnbindRemote(w, x)
      PROVE  Reconciled(u)
  <2>1. CASE x \in Managed
    <3>1. u \in UnbindManaged(w, x)
      BY <1>2, <2>1
    <3> QED BY <1>0, <2>1, <3>1, UnbindManagedAbreast, ReconciledBeside
  <2>2. CASE x \notin Managed
    <3>1. x \in w.bound \cap Remote /\ u \in UnbindRemote(w, x)
      BY <1>2, <2>2
    <3> QED BY <3>1, UnbindRemoteReconciled
  <2> QED BY <2>1, <2>2
<1>3. ASSUME NEW r \in w.bound \cap Remote, NEW a \in Addresses \cup {None}, u \in ConfigureSource(w, r, a)
      PROVE  Reconciled(u)
  BY <1>3, ConfigureSourceReconciled
<1> QED BY <1>1, <1>2, <1>3 DEF Rewires

\* A device that has not started, and the broker it left.
Idle(w) ==
    /\ Apt(w) /\ Faces(w) /\ w.inbox = <<>>
    /\ \A m \in Managed : w.own[m].value = None
    /\ \A r \in Remote : w.remote[r].value = None

LEMMA BlankFaces ==
    ASSUME NEW w, w.own = [m \in Managed |-> New]
    PROVE  Faces(w) /\ \A m \in Managed : w.own[m].value = None
<1> SUFFICES ASSUME NEW m \in Managed PROVE Facing(w, m) /\ w.own[m].value = None
  BY DEF Faces
<1>1. /\ w.own[m].value = None /\ w.own[m].avail = TRUE /\ w.own[m].period = "often"
      /\ w.own[m].pending = FALSE
  BY DEF New
<1> QED BY <1>1 DEF Facing, Suited, Withheld, Served, Offered

LEMMA StartedIdle ==
    ASSUME NEW w, Shaped(w), Known(w), NEW u, u = Started(w)
    PROVE  Idle(u)
<1>1. /\ u.own = [m \in Managed |-> New] /\ u.remote = [r \in Remote |-> Unlearned]
      /\ u.theirs = w.theirs /\ u.inbox = <<>>
  BY DEF Started, Shaped, NetFields
<1>2. <<>> \in Seq(Letters)
  BY EmptySeq
<1>3. \A r \in Remote : u.remote[r].value = None
  BY <1>1 DEF Unlearned
<1> QED BY <1>1, <1>2, <1>3, BlankFaces DEF Idle, Apt, Known

LEMMA BootReconciled ==
    ASSUME NEW w, Good(w), Known(w), NEW B,
           NEW v \in LoadSettings([Started(w) EXCEPT !.bound = B]), NEW x \in LoadSources(v),
           NEW u, u = [x EXCEPT !.dirty = TRUE]
    PROVE  Apt(u) /\ Abreast(u)
<1> DEFINE o == Started(w)
           s == [o EXCEPT !.bound = B]
<1>0. Shaped(w) /\ FileOK(w.sources)
  BY DEF Good, NetOK
<1>1. Untold(o) /\ Idle(o) /\ o.src = Declared /\ o.sources = w.sources
  BY <1>0, StartedIs, StartedIdle
<1>2. Shaped(o)
  BY <1>1 DEF Untold
<1> HIDE DEF o
<1>3. Shaped(s) /\ Same(o, s, {"bound"})
  BY <1>2, BoundIs
<1> HIDE DEF s
<1>4. /\ s.theirs = o.theirs /\ s.inbox = o.inbox /\ s.src = o.src /\ s.remote = o.remote /\ s.own = o.own
      /\ s.retained = o.retained /\ s.sources = o.sources
  BY <1>3 DEF Same, NetFields
<1>5. Idle(s)
  <2>1. Apt(s)
    BY <1>1, <1>4 DEF Idle, Apt, Known
  <2>2. ASSUME NEW m \in Managed PROVE Facing(s, m)
    <3>1. Facing(o, m) /\ s.own[m].value = None
      BY <1>1, <1>4 DEF Idle, Faces
    <3> QED BY <1>4, <3>1 DEF Facing, Suited, Withheld, Served, Offered
  <2> QED BY <1>1, <1>4, <2>1, <2>2 DEF Idle, Faces
<1>6. v \in LoadSettings(s)
  BY DEF s, o
<1>7. PICK t : Retuned(s, t, s.bound \cap Managed) /\ Shaped(v) /\ Same(t, v, {"loaded", "ok"})
  BY <1>3, <1>6, LoadSettingsIs
<1>8. Faces(t) /\ \A m \in Managed : t.own[m].value = None
  <2>1. Faces(s) /\ \A m \in Managed : s.own[m].value = None
    BY <1>5 DEF Idle
  <2>2. Faces(t)
    BY <1>7, <2>1, RetunedFaces
  <2>3. \A m \in Managed : t.own[m].value = s.own[m].value
    BY <1>7 DEF Retuned, SameOwn, OwnFields
  <2> QED BY <2>1, <2>2, <2>3
<1>9. /\ v.theirs = s.theirs /\ v.inbox = s.inbox /\ v.src = s.src /\ v.remote = s.remote /\ v.own = t.own
      /\ v.retained = t.retained /\ v.sources = s.sources /\ v.bound = t.bound
  BY <1>7 DEF Retuned, Same, NetFields
<1>10. Idle(v)
  BY <1>5, <1>8, <1>9, FacesSame DEF Idle, Apt, Known
<1>11. PICK found, src : Loading(v, x, found, src)
  <2>1. Sources(v.src) /\ Apart(v, v.src) /\ FileOK(v.sources)
    BY <1>0, <1>1, <1>4, <1>9, DeclaredApart
  <2> QED BY <1>7, <2>1, LoadSourcesIs
<1>12. DOMAIN u = NetFields /\ Same(x, u, {"dirty"}) /\ u.dirty = TRUE
  BY <1>11 DEF Loading, Shaped, NetFields, Same
<1>13. /\ u.theirs = v.theirs /\ u.inbox = v.inbox /\ u.remote = x.remote /\ u.own = x.own
       /\ u.retained = v.retained /\ u.bound = v.bound
  BY <1>11, <1>12 DEF Loading, Same, NetFields
<1>14. \A r \in Remote : u.remote[r].value = None
  BY <1>10, <1>11, <1>13 DEF Loading, Idle, Unlearned
<1>15. Apt(u)
  BY <1>10, <1>13, <1>14 DEF Idle, Apt, Known
<1>16. Faces(u)
  <2> SUFFICES ASSUME NEW m \in Managed PROVE Facing(u, m)
    BY DEF Faces
  <2>1. Facing(v, m)
    BY <1>10 DEF Idle, Faces
  <2>2. CASE SameOwn(v, u, m, {})
    BY <1>13, <2>1, <2>2, FacingSame, SameOwnLess
  <2>3. CASE Mirrors[m] # None /\ u.own[m].pending = TRUE
    <3>1. u.own[m].period = v.own[m].period /\ m \notin Tuned
      BY <1>11, <1>13, <2>3, MirrorAssumption DEF Loading, SameOwn, OwnFields
    <3> QED BY <2>1, <2>3, <3>1 DEF Facing, Suited, Withheld, Served
  <2>4. SameOwn(v, x, m, {}) \/ (Mirrors[m] # None /\ x.own[m].pending = TRUE)
    BY <1>11 DEF Loading
  <2>5. SameOwn(v, x, m, {}) => SameOwn(v, u, m, {})
    BY <1>13 DEF SameOwn
  <2> QED BY <1>13, <2>2, <2>3, <2>4, <2>5
<1> QED BY <1>12, <1>15, <1>16 DEF Abreast, Described

\* The invariant of a run.
Settled == Heedful(net) /\ Faces(net) /\ (up => Described(net))

LEMMA InitSettled ==
    ASSUME Init
    PROVE  Settled
<1>1. /\ net.own = [m \in Managed |-> New] /\ net.remote = [r \in Remote |-> Unlearned]
      /\ net.theirs = [t \in Topics |-> IF t \in firmware.changing THEN None ELSE CHOOSE b \in Bodies(t) : TRUE]
      /\ net.inbox = <<>> /\ ~online /\ ~up
  BY DEF Init
<1>2. Known(net)
  <2>1. ASSUME NEW t \in Topics PROVE net.theirs[t] \in Bodies(t) \cup {None}
    <3>1. Bodies(t) # {}
      BY FirmwareAssumption
    <3>2. (CHOOSE b \in Bodies(t) : TRUE) \in Bodies(t)
      BY <3>1
    <3> QED BY <1>1, <3>2
  <2> QED BY <1>1, <2>1 DEF Known
<1>3. <<>> \in Seq(Letters) /\ \A r \in Remote : net.remote[r].value = None
  BY <1>1, EmptySeq DEF Unlearned
<1> QED BY <1>1, <1>2, <1>3, BlankFaces DEF Settled, Heedful, Apt

LEMMA SettledNext ==
    ASSUME Toggled \cap Tuned = {}, Sound, Settled, [Next]_vars
    PROVE  Settled'
<1>0. /\ Good(net) /\ Shaped(net) /\ Sources(net.src) /\ Heedful(net) /\ Apt(net) /\ Known(net) /\ Faces(net)
      /\ (up => Described(net)) /\ (~up => ~online)
  BY DEF Sound, Good, NetOK, Settled, Heedful, Apt
<1>1. PICK u : u = net'
  OBVIOUS
<1>2. ASSUME Apt(u), online' => AllCurrent(u), Faces(u), up' => Described(u) PROVE Settled'
  BY <1>1, <1>2 DEF Settled, Heedful
<1>3. CASE Boot
  <2>1. PICK v \in LoadSettings([Started(net) EXCEPT !.bound = declared]) : \E x \in LoadSources(v) : u = [x EXCEPT !.dirty = TRUE]
    BY <1>1, <1>3 DEF Boot
  <2>2. PICK x \in LoadSources(v) : u = [x EXCEPT !.dirty = TRUE]
    BY <2>1
  <2>3. Apt(u) /\ Abreast(u)
    BY <1>0, <2>1, <2>2, BootReconciled
  <2>4. ~online'
    BY <1>0, <1>3 DEF Boot
  <2> QED BY <1>2, <2>3, <2>4 DEF Abreast
<1>4. CASE Restart
  <2>1. PICK c \in {net} \cup CutOff(net) : u = Started(c)
    BY <1>1, <1>4 DEF Restart
  <2>2. ~online' /\ ~up'
    BY <1>4 DEF Restart
  <2>3. Shaped(c) /\ Known(c)
    BY <1>0, CutOffIs DEF Filewise, Same, NetFields, Known
  <2> QED BY <1>2, <2>1, <2>2, <2>3, StartedIdle DEF Idle
<1>5. CASE Connect
  <2>1. u = SubscribeAll(net) /\ up
    BY <1>1, <1>5 DEF Connect
  <2>2. Same(net, u, {"subs", "inbox"}) /\ u.inbox = net.inbox \o Retained(net, Needed(net))
    BY <1>0, <2>1, SubscribeAllIs
  <2>3. u.theirs = net.theirs /\ u.src = net.src /\ u.remote = net.remote /\ u.bound = net.bound
    BY <2>2 DEF Same, NetFields
  <2>4. Needed(net) \in SUBSET Topics /\ IsFiniteSet(Needed(net))
    BY <1>0, NeededTopics
  <2>5. Known(u) /\ u.inbox \in Seq(Letters)
    BY <1>0, <2>2, <2>3, <2>4, JoinKept
  <2>6. Apt(u)
    BY <1>0, <2>3, <2>5 DEF Apt
  <2>7. ASSUME NEW r \in Sourced(u) PROVE Current(u, r)
    <3>1. u.src[r] \in Addresses /\ StateTopic(u.src[r]) \in Needed(net)
      BY <1>0, <2>3 DEF Sourced, Sources, Needed
    <3> QED BY <1>0, <2>2, <2>3, <2>4, <3>1, JoinKept
  <2>8. Faces(u) /\ Described(u)
    BY <1>0, <2>1, <2>2, SameAbreast DEF NetFields
  <2> QED BY <1>2, <2>6, <2>7, <2>8 DEF AllCurrent
<1>6. CASE Disconnect
  <2>1. u = [net EXCEPT !.subs = {}, !.inbox = <<>>] /\ ~online' /\ up' = up
    BY <1>1, <1>6 DEF Disconnect
  <2>2. Same(net, u, {"subs", "inbox"}) /\ u.inbox = <<>>
    BY <1>0, <2>1 DEF Shaped, NetFields, Same
  <2>3. u.theirs = net.theirs /\ u.src = net.src /\ u.remote = net.remote
    BY <2>2 DEF Same, NetFields
  <2>4. Apt(u)
    BY <1>0, <2>2, <2>3, EmptySeq DEF Apt, Known
  <2>5. Faces(u) /\ (Described(net) => Described(u))
    BY <1>0, <2>2, SameAbreast DEF NetFields
  <2> QED BY <1>0, <1>2, <2>1, <2>4, <2>5
<1>7. CASE UNCHANGED vars
  BY <1>0, <1>1, <1>2, <1>7 DEF vars, Heedful
<1>8. CASE Ordinarily
  <2>1. Ordinary(net, u) /\ (up \/ Hears(net, u)) /\ online' = online /\ up' = up
    BY <1>1, <1>8 DEF Ordinarily
  <2>2. CASE up
    <3>1. Reconciled(u)
      BY <1>0, <2>1, <2>2, OrdinaryReconciled DEF Reconciled, Abreast
    <3> QED BY <1>2, <2>1, <3>1 DEF Reconciled, Abreast, Heedful
  <2>3. CASE ~up
    <3>1. Heedful(u) /\ Same(net, u, {"theirs", "inbox"})
      BY <1>0, <2>1, <2>3, HeardHeedful DEF Hears
    <3>2. Faces(u)
      BY <1>0, <3>1, SameAbreast DEF NetFields
    <3> QED BY <1>2, <2>1, <2>3, <3>1, <3>2 DEF Heedful
  <2> QED BY <2>2, <2>3
<1>9. CASE Rewiring
  <2>1. Rewires(net, u) /\ up /\ online' = online /\ up' = up
    BY <1>1, <1>9 DEF Rewiring
  <2>2. Reconciled(u)
    BY <1>0, <2>1, RewiresReconciled DEF Reconciled, Abreast
  <2> QED BY <1>2, <2>1, <2>2 DEF Reconciled, Abreast, Heedful
<1> QED BY <1>3, <1>4, <1>5, <1>6, <1>7, <1>8, <1>9, StepCalls

LEMMA SettledFollows == Sound /\ Settled => Converged
<1> SUFFICES ASSUME Sound, Settled, AtRest PROVE Converged
  BY DEF Converged
<1>1. /\ online /\ up /\ ~net.dirty /\ net.inbox = <<>>
      /\ \A m \in net.bound \cap Managed : ~net.own[m].pending /\ ~net.own[m].retry
  BY DEF AtRest, Sound
<1>2. Apt(net) /\ AllCurrent(net) /\ Faces(net) /\ Described(net)
  BY <1>1 DEF Settled, Heedful
<1>3. net.manifest = Manifest(net)
  BY <1>1, <1>2 DEF Described
<1>4. ASSUME NEW m \in net.bound \cap Managed
      PROVE  /\ Mirrors[m] = None /\ Offered(net.own[m]) => net.retained[m] = net.own[m].value
             /\ ~net.own[m].avail \/ net.own[m].period = "off" => net.retained[m] = None
  <2>1. Withheld(net, m) /\ Served(net, m)
    BY <1>2 DEF Faces, Facing
  <2> QED BY <1>1, <2>1 DEF Withheld, Served
<1>5. ASSUME NEW r \in Sourced(net)
      PROVE  /\ net.remote[r].value # None => net.remote[r].value[1] = net.src[r]
             /\ net.theirs[StateTopic(net.src[r])] # None =>
                  net.remote[r].value = net.theirs[StateTopic(net.src[r])] /\ net.remote[r].avail
  <2>1. net.remote[r].value # None => net.remote[r].value[1] = net.src[r]
    BY <1>2 DEF Apt, Sourced
  <2>2. Len(net.inbox) = 0
    BY <1>1
  <2>3. \A t, b : ~Tells(net.inbox, t, b)
    BY <2>2 DEF Tells
  <2>4. Current(net, r)
    BY <1>2 DEF AllCurrent
  <2> QED BY <2>1, <2>3, <2>4 DEF Current
<1> QED BY <1>3, <1>4, <1>5 DEF Converged

\* ResourcesManager::tick() and the requests of SystemState: once connected and with nothing
\* left to publish, withdraw or receive, the manifest at the broker is the one of the device,
\* the broker retains what the device offers and nothing that it withdrew, and a remote value
\* is the one that the source it has now retains.  No value is both made
\* unavailable and given a policy: the two share one mark of a withdrawal that is pending.
THEOREM RestConverges ==
    ASSUME Toggled \cap Tuned = {}
    PROVE  Spec => []Converged
<1>1. Init => Settled
  BY InitSettled
<1>2. Sound /\ Settled /\ [Next]_vars => Settled'
  BY SettledNext
<1>3. Sound /\ Settled => Converged
  BY SettledFollows
<1> QED BY <1>1, <1>2, <1>3, AlwaysSound, PTL DEF Spec

-------------------------------------------------------------------------------
(* The web server and the list of its websocket clients.                       *)
-------------------------------------------------------------------------------
(* The inductive invariant of the list.                                        *)

Kinds == {"http", "websocket", "left"}
ServerStates == {"stopped", "high", "normal"}
Sessions == UNION {[D -> Kinds] : D \in SUBSET Sockets}
Web == [server : Nat, handle : Nat, started : Nat, state : ServerStates, sessions : Sessions,
        slots : [Slots -> [fd : Sockets \cup {0}, active : BOOLEAN]], count : Int,
        next : 0 .. MaxSockets, does : {"nothing", "stops", "sends", "removes"},
        at : Nat \cup ServerStates, sent : Nat, raced : BOOLEAN]

\* A session keeps its server, and the server its limit of sessions.
SessionsOK(w) ==
    /\ IsFiniteSet(Open(w)) /\ Cardinality(Open(w)) <= MaxSockets
    /\ w.server = 0 => Open(w) = {}
    /\ w.server # 0 => w.handle = w.server
    /\ w.does = "stops" => w.at \in ServerStates

\* Whoever is in the list is there once and has a session, of a websocket unless a
\* command is about to remove it.
Leaving(w, i) == w.does = "removes" /\ i = w.at
ListOK(w) ==
    /\ \A i, j \in ActiveSlots(w) : w.slots[i].fd = w.slots[j].fd => i = j
    /\ \A i \in ActiveSlots(w) :
          /\ w.slots[i].fd \in Open(w)
          /\ IF Leaving(w, i) THEN w.sessions[w.slots[i].fd] # "http"
                              ELSE w.sessions[w.slots[i].fd] = "websocket"
    /\ w.does \in {"sends", "removes"} => w.at \in Nat \ {0}
    /\ w.does = "removes" => w.at \in Slots

\* As long as the tasks have not met in the list, it is exact.
Exact(w) ==
    /\ Websockets(w) \subseteq Clients(w)
    /\ w.count = Cardinality(ActiveSlots(w)) /\ w.next = Lowest(FreeSlots(w))
    /\ w.does = "removes" => w.at \in ActiveSlots(w) /\ w.sessions[w.slots[w.at].fd] = "left"

WebOK(w) == w \in Web /\ SessionsOK(w) /\ ListOK(w) /\ (~w.raced => Exact(w))

-------------------------------------------------------------------------------
(* The list.                                                                   *)

LEMMA LowestIs ==
    ASSUME NEW S \in SUBSET Slots, S # {}
    PROVE  Lowest(S) \in S /\ \A j \in S : Lowest(S) <= j
<1>1. S \subseteq Nat
  BY DEF Slots
<1>2. IsWellFoundedOn(OpToRel(<, Nat), Nat)
  BY NatLessThanWellFounded
<1>3. PICK i \in S : \A j \in S : ~(<<j, i>> \in OpToRel(<, Nat))
  BY <1>1, <1>2, WFMin
<1>4. \A j \in S : ~(j < i)
  BY <1>1, <1>3 DEF OpToRel
<1>5. \A j \in S : i <= j
  BY <1>1, <1>4
<1> QED
  BY <1>5 DEF Lowest

LEMMA LowestIsUnique ==
    ASSUME NEW S \in SUBSET Slots, NEW i \in S, \A j \in S : i <= j
    PROVE  Lowest(S) = i
<1>1. Lowest(S) \in S /\ Lowest(S) <= i
  BY LowestIs
<1>2. S \subseteq Nat
  BY WebAssumption DEF Slots
<1>3. i <= Lowest(S)
  BY <1>1
<1>4. Lowest(S) \in Nat /\ i \in Nat
  BY <1>1, <1>2
<1> QED
  BY <1>1, <1>3, <1>4

LEMMA SlotsAreFinite ==
    ASSUME NEW S \in SUBSET Slots
    PROVE  IsFiniteSet(S) /\ Cardinality(S) \in Nat /\ Cardinality(S) <= MaxSockets
           /\ (Cardinality(S) = MaxSockets => S = Slots)
<1>1. IsFiniteSet(Slots) /\ Cardinality(Slots) = MaxSockets
  BY FS_Interval, WebAssumption DEF Slots
<1> QED
  BY <1>1, FS_Subset, FS_CardinalityType

LEMMA SessionsAre ==
    ASSUME NEW w \in Web
    PROVE  /\ Open(w) \subseteq Sockets /\ w.sessions \in [Open(w) -> Kinds]
           /\ ActiveSlots(w) = {i \in Slots : w.slots[i].active}
<1>1. PICK D \in SUBSET Sockets : w.sessions \in [D -> Kinds]
  BY DEF Web, Sessions
<1> QED
  BY <1>1 DEF Open, ActiveSlots, FreeSlots

\* A slot that is cleared, whether or not another task cleared it before.
LEMMA ClearSlotOK ==
    ASSUME NEW w \in Web, NEW i \in Slots
    PROVE  /\ ClearSlot(w, i) \in Web /\ ClearSlot(w, i).sessions = w.sessions
           /\ ClearSlot(w, i).raced = w.raced /\ ClearSlot(w, i).server = w.server
           /\ ClearSlot(w, i).handle = w.handle /\ ClearSlot(w, i).does = w.does
           /\ ClearSlot(w, i).at = w.at
           /\ ActiveSlots(ClearSlot(w, i)) = ActiveSlots(w) \ {i}
           /\ \A j \in Slots : ClearSlot(w, i).slots[j].fd = w.slots[j].fd
           /\ w.count = Cardinality(ActiveSlots(w)) /\ i \in ActiveSlots(w) =>
                 ClearSlot(w, i).count = Cardinality(ActiveSlots(w) \ {i})
           /\ w.next = Lowest(FreeSlots(w)) /\ i \in ActiveSlots(w) =>
                 ClearSlot(w, i).next = Lowest(FreeSlots(ClearSlot(w, i)))
<1> DEFINE c == ClearSlot(w, i)
<1>1. /\ c.sessions = w.sessions /\ c.raced = w.raced /\ c.server = w.server
      /\ c.handle = w.handle /\ c.does = w.does /\ c.at = w.at
      /\ c.count = w.count - 1 /\ c.next = IF w.next = NoSlot \/ i < w.next THEN i ELSE w.next
      /\ c.slots = [w.slots EXCEPT ![i] = [w.slots[i] EXCEPT !.active = FALSE]]
  BY DEF ClearSlot, Web
<1>2. \A j \in Slots : /\ c.slots[j].fd = w.slots[j].fd
                       /\ c.slots[j].active <=> (w.slots[j].active /\ j # i)
  BY <1>1 DEF Web
<1>3. c \in Web
  <2>1. [w.slots[i] EXCEPT !.active = FALSE] \in [fd : Sockets \cup {0}, active : BOOLEAN]
    BY DEF Web
  <2>2. c.slots \in [Slots -> [fd : Sockets \cup {0}, active : BOOLEAN]]
    BY <1>1, <2>1 DEF Web
  <2>3. w.count - 1 \in Int /\ c.next \in 0 .. MaxSockets
    BY <1>1, WebAssumption DEF Web, Slots
  <2> QED BY <1>1, <2>2, <2>3 DEF ClearSlot, Web
<1>4. ActiveSlots(c) = ActiveSlots(w) \ {i} /\ FreeSlots(c) = FreeSlots(w) \cup {i}
  BY <1>2 DEF ActiveSlots, FreeSlots
<1>5. ASSUME w.count = Cardinality(ActiveSlots(w)), i \in ActiveSlots(w)
      PROVE  c.count = Cardinality(ActiveSlots(w) \ {i})
  <2>1. IsFiniteSet(ActiveSlots(w))
    BY SlotsAreFinite DEF ActiveSlots
  <2> QED BY <1>1, <1>5, <2>1, FS_RemoveElement
<1>6. ASSUME w.next = Lowest(FreeSlots(w)), i \in ActiveSlots(w)
      PROVE  c.next = Lowest(FreeSlots(c))
  <2>1. FreeSlots(w) \in SUBSET Slots /\ FreeSlots(c) \in SUBSET Slots
    BY DEF FreeSlots
  <2>2. CASE FreeSlots(w) = {}
    <3>1. w.next = NoSlot
      BY <1>6, <2>2 DEF Lowest
    <3>2. c.next = i /\ FreeSlots(c) = {i}
      BY <1>1, <1>4, <2>2, <3>1
    <3>3. i <= i
      BY DEF Slots
    <3> HIDE DEF c
    <3> QED BY <2>1, <3>2, <3>3, LowestIsUnique
  <2>3. CASE FreeSlots(w) # {}
    <3>1. w.next \in FreeSlots(w) /\ \A j \in FreeSlots(w) : w.next <= j
      BY <1>6, <2>1, <2>3, LowestIs
    <3>2. w.next \in Nat /\ i \in Nat /\ w.next # NoSlot
      BY <2>1, <3>1 DEF Slots, NoSlot
    <3>3. c.next \in FreeSlots(c) /\ \A j \in FreeSlots(c) : c.next <= j
      BY <1>1, <1>4, <2>1, <3>1, <3>2 DEF Slots
    <3> HIDE DEF c
    <3> QED BY <2>1, <3>3, LowestIsUnique
  <2> QED BY <2>2, <2>3
<1> QED
  BY <1>1, <1>2, <1>3, <1>4, <1>5, <1>6

\* A session that is not in the list leaves room for it there.
LEMMA RoomInTheList ==
    ASSUME NEW w, WebOK(w), NEW fd \in Open(w), fd \notin Clients(w)
    PROVE  ActiveSlots(w) # Slots
<1> SUFFICES ASSUME ActiveSlots(w) = Slots PROVE FALSE
  OBVIOUS
<1>1. IsFiniteSet(Open(w)) /\ Cardinality(Open(w)) <= MaxSockets
  BY DEF WebOK, SessionsOK
<1>2. IsFiniteSet(Slots) /\ Cardinality(Slots) = MaxSockets /\ MaxSockets \in Nat
  BY FS_Interval, WebAssumption DEF Slots
<1> DEFINE rest == Open(w) \ {fd}
           f == [i \in Slots |-> w.slots[i].fd]
<1>3. IsFiniteSet(rest) /\ Cardinality(rest) < Cardinality(Slots)
  <2>1. Cardinality(Open(w)) \in Nat
    BY <1>1, FS_CardinalityType
  <2>2. IsFiniteSet(rest) /\ Cardinality(rest) = Cardinality(Open(w)) - 1
    BY <1>1, FS_RemoveElement
  <2> HIDE DEF rest
  <2> QED BY <1>1, <1>2, <2>1, <2>2
<1>4. f \in [Slots -> rest]
  BY DEF WebOK, ListOK, Clients
<1>5. PICK i, j \in Slots : i # j /\ f[i] = f[j]
  <2> HIDE DEF f, rest
  <2> QED BY <1>2, <1>3, <1>4, FS_PigeonHole
<1> QED
  BY <1>5 DEF WebOK, ListOK

\* Steps that leave the list and the sessions alone.
LEMMA ElsewhereOK ==
    ASSUME NEW w, WebOK(w), NEW v \in Web, SessionsOK(v),
           v.sessions = w.sessions, v.slots = w.slots, v.count = w.count, v.next = w.next,
           v.raced = w.raced, w.does # "removes", v.does # "removes",
           v.does = "sends" => v.at \in Nat \ {0}
    PROVE  WebOK(v)
<1>1. /\ ActiveSlots(v) = ActiveSlots(w) /\ FreeSlots(v) = FreeSlots(w)
      /\ Clients(v) = Clients(w) /\ Websockets(v) = Websockets(w) /\ Open(v) = Open(w)
  BY DEF ActiveSlots, FreeSlots, Clients, Websockets, Open
<1>2. ListOK(v)
  BY <1>1 DEF WebOK, ListOK, Leaving
<1>3. ~v.raced => Exact(v)
  BY <1>1 DEF WebOK, Exact
<1> QED
  BY <1>2, <1>3 DEF WebOK

\* A session that ends, or is a websocket no longer, is taken out of the list.
LEMMA RemoveSocketOK ==
    ASSUME NEW w, WebOK(w), NEW u \in Web, NEW fd, SessionsOK(u),
           u.slots = w.slots, u.count = w.count, u.next = w.next, u.raced = w.raced,
           u.does = w.does, u.at = w.at, Open(w) \ {fd} \subseteq Open(u), Open(u) \subseteq Open(w),
           \A x \in Open(u) : u.sessions[x] = IF x = fd THEN "left" ELSE w.sessions[x]
    PROVE  /\ WebOK(RemoveSocket(u, fd)) /\ Open(RemoveSocket(u, fd)) = Open(u)
           /\ RemoveSocket(u, fd).server = u.server
<1> DEFINE at == {i \in ActiveSlots(u) : u.slots[i].fd = fd}
<1>1. /\ ActiveSlots(u) = ActiveSlots(w) /\ FreeSlots(u) = FreeSlots(w) /\ Clients(u) = Clients(w)
      /\ ActiveSlots(u) \subseteq Slots
  BY DEF ActiveSlots, FreeSlots, Clients
<1>2. /\ \A i, j \in ActiveSlots(u) : u.slots[i].fd = u.slots[j].fd => i = j
      /\ \A i \in ActiveSlots(u) \ at :
            /\ u.slots[i].fd \in Open(u)
            /\ IF Leaving(u, i) THEN u.sessions[u.slots[i].fd] # "http"
                                ELSE u.sessions[u.slots[i].fd] = "websocket"
      /\ u.does \in {"sends", "removes"} => u.at \in Nat \ {0}
      /\ u.does = "removes" => u.at \in Slots
  BY <1>1 DEF WebOK, ListOK, Leaving
<1>3. Websockets(u) \subseteq Websockets(w) \ {fd}
  BY DEF Websockets
<1>4. CASE at = {}
  <2>1. RemoveSocket(u, fd) = u
    BY <1>4 DEF RemoveSocket
  <2>2. ListOK(u)
    BY <1>2, <1>4 DEF ListOK
  <2>3. ~u.raced => Exact(u)
    <3>1. SUFFICES ASSUME ~u.raced PROVE Exact(u)
      OBVIOUS
    <3>2. Exact(w)
      BY <3>1 DEF WebOK
    <3>3. u.does = "removes" => u.at \in ActiveSlots(u) /\ u.sessions[u.slots[u.at].fd] = "left"
      BY <1>1, <1>2, <1>4, <3>2 DEF Exact
    <3> QED BY <1>1, <1>3, <3>2, <3>3 DEF Exact
  <2> QED BY <2>1, <2>2, <2>3 DEF WebOK
<1>5. CASE at # {}
  <2>1. PICK i \in at : TRUE
    BY <1>5
  <2>2. at = {i} /\ i \in ActiveSlots(u) /\ u.slots[i].fd = fd /\ i \in Slots
    BY <1>1, <1>2, <2>1
  <2>3. Lowest(at) = i
    <3>1. i <= i
      BY <2>2, WebAssumption DEF Slots
    <3> HIDE DEF at
    <3> QED BY <2>2, <3>1, LowestIsUnique
  <2> DEFINE c == ClearSlot(u, i)
             r == [c EXCEPT !.raced = @ \/ u.does = "removes"]
  <2>4. RemoveSocket(u, fd) = r
    BY <1>5, <2>3 DEF RemoveSocket
  <2>5. /\ c \in Web /\ c.sessions = u.sessions /\ c.raced = u.raced /\ c.server = u.server
        /\ c.handle = u.handle /\ c.does = u.does /\ c.at = u.at
        /\ ActiveSlots(c) = ActiveSlots(u) \ {i}
        /\ \A j \in Slots : c.slots[j].fd = u.slots[j].fd
    BY <2>2, ClearSlotOK
  <2>6. /\ u.count = Cardinality(ActiveSlots(u)) => c.count = Cardinality(ActiveSlots(u) \ {i})
        /\ u.next = Lowest(FreeSlots(u)) => c.next = Lowest(FreeSlots(c))
    BY <2>2, ClearSlotOK
  <2> HIDE DEF c
  <2>7. /\ r \in Web /\ r.sessions = u.sessions /\ r.server = u.server /\ r.handle = u.handle
        /\ r.does = u.does /\ r.at = u.at /\ r.slots = c.slots /\ r.count = c.count /\ r.next = c.next
        /\ r.raced <=> (u.raced \/ u.does = "removes")
    BY <2>5 DEF Web
  <2> HIDE DEF r
  <2>8. /\ ActiveSlots(r) = ActiveSlots(u) \ {i} /\ FreeSlots(r) = FreeSlots(c)
        /\ Open(r) = Open(u) /\ Websockets(r) = Websockets(u)
        /\ \A j \in ActiveSlots(r) : r.slots[j].fd = u.slots[j].fd
    BY <1>1, <2>5, <2>7 DEF ActiveSlots, FreeSlots, Open, Websockets
  <2>9. SessionsOK(r)
    BY <2>7, <2>8 DEF SessionsOK
  <2>10. ListOK(r)
    BY <1>2, <2>2, <2>7, <2>8 DEF ListOK, Leaving
  <2>11. ~r.raced => Exact(r)
    <3>1. SUFFICES ASSUME ~r.raced PROVE Exact(r)
      OBVIOUS
    <3>2. u.does # "removes" /\ Exact(w)
      BY <2>7, <3>1 DEF WebOK
    <3>3. r.count = Cardinality(ActiveSlots(r)) /\ r.next = Lowest(FreeSlots(r))
      BY <1>1, <2>6, <2>7, <2>8, <3>2 DEF Exact
    <3>4. Websockets(r) \subseteq Clients(r)
      <4>1. Clients(r) = Clients(u) \ {fd}
        BY <1>2, <2>2, <2>8 DEF Clients
      <4> QED BY <1>1, <1>3, <2>8, <3>2, <4>1 DEF Exact
    <3> QED BY <2>7, <3>2, <3>3, <3>4 DEF Exact
  <2> QED BY <2>4, <2>7, <2>8, <2>9, <2>10, <2>11 DEF WebOK
<1> QED BY <1>4, <1>5

-------------------------------------------------------------------------------
(* The steps of the server.                                                     *)

\* Sessions that are made or marked: the record of them alone changes.
LEMMA SessionSet ==
    ASSUME NEW w \in Web, NEW D \in SUBSET Sockets, NEW S \in [D -> Kinds],
           NEW u, u = [w EXCEPT !.sessions = S]
    PROVE  /\ u \in Web /\ Open(u) = D /\ u.sessions = S /\ u.slots = w.slots
           /\ u.count = w.count /\ u.next = w.next /\ u.raced = w.raced /\ u.does = w.does
           /\ u.at = w.at /\ u.server = w.server /\ u.handle = w.handle
<1>1. S \in Sessions
  BY DEF Sessions
<1> QED
  BY <1>1 DEF Web, Open

LEMMA EndSessionOK ==
    ASSUME NEW w, WebOK(w), NEW fd \in Open(w)
    PROVE  /\ WebOK(EndSession(w, fd)) /\ Open(EndSession(w, fd)) = Open(w) \ {fd}
           /\ EndSession(w, fd).server = w.server
<1> DEFINE S == [x \in Open(w) \ {fd} |-> w.sessions[x]]
           u == [w EXCEPT !.sessions = S]
<1>1. w \in Web /\ Open(w) \subseteq Sockets /\ w.sessions \in [Open(w) -> Kinds]
  BY SessionsAre DEF WebOK
<1>2. S \in [Open(w) \ {fd} -> Kinds]
  BY <1>1
<1>3. Open(w) \ {fd} \in SUBSET Sockets
  BY <1>1
<1>4. /\ u \in Web /\ Open(u) = Open(w) \ {fd} /\ u.sessions = S /\ u.slots = w.slots
      /\ u.count = w.count /\ u.next = w.next /\ u.raced = w.raced /\ u.does = w.does
      /\ u.at = w.at /\ u.server = w.server /\ u.handle = w.handle
  <2> HIDE DEF S
  <2> QED BY <1>1, <1>2, <1>3, SessionSet
<1>5. \A x \in Open(u) : u.sessions[x] = IF x = fd THEN "left" ELSE w.sessions[x]
  BY <1>4
<1> HIDE DEF u
<1>6. SessionsOK(u)
  <2>1. IsFiniteSet(Open(w)) /\ Cardinality(Open(w)) <= MaxSockets /\ Cardinality(Open(w)) \in Nat
    BY FS_CardinalityType DEF WebOK, SessionsOK
  <2>2. IsFiniteSet(Open(u)) /\ Cardinality(Open(u)) = Cardinality(Open(w)) - 1
    BY <1>4, <2>1, FS_RemoveElement
  <2>3. Cardinality(Open(u)) <= MaxSockets
    BY <2>1, <2>2, WebAssumption
  <2> QED BY <1>4, <2>2, <2>3 DEF WebOK, SessionsOK
<1>7. EndSession(w, fd) = RemoveSocket(u, fd)
  BY DEF EndSession, u
<1> QED
  BY <1>4, <1>5, <1>6, <1>7, RemoveSocketOK

LEMMA CloseSessionOK ==
    ASSUME WebOK(web), NEW fd, CloseSession(fd)
    PROVE  WebOK(web')
BY EndSessionOK DEF CloseSession

LEMMA CloseFrameOK ==
    ASSUME WebOK(web), NEW fd, CloseFrame(fd)
    PROVE  WebOK(web')
<1> DEFINE S == [web.sessions EXCEPT ![fd] = "left"]
           u == [web EXCEPT !.sessions = S]
<1>1. /\ web \in Web /\ Open(web) \in SUBSET Sockets /\ web.sessions \in [Open(web) -> Kinds]
      /\ fd \in Open(web)
  BY SessionsAre DEF WebOK, CloseFrame
<1>2. S \in [Open(web) -> Kinds]
  BY <1>1 DEF Kinds
<1>3. \A x \in Open(web) : S[x] = IF x = fd THEN "left" ELSE web.sessions[x]
  BY <1>1
<1> HIDE DEF S
<1>4. /\ u \in Web /\ Open(u) = Open(web) /\ u.sessions = S /\ u.slots = web.slots
      /\ u.count = web.count /\ u.next = web.next /\ u.raced = web.raced /\ u.does = web.does
      /\ u.at = web.at /\ u.server = web.server /\ u.handle = web.handle
  BY <1>1, <1>2, SessionSet
<1>5. web' = RemoveSocket(u, fd)
  BY DEF CloseFrame, S
<1> HIDE DEF u
<1>6. SessionsOK(u)
  BY <1>4 DEF WebOK, SessionsOK
<1> QED
  BY <1>3, <1>4, <1>5, <1>6, RemoveSocketOK

LEMMA OpenSessionOK ==
    ASSUME WebOK(web), NEW fd \in Sockets, OpenSession(fd)
    PROVE  WebOK(web')
<1>1. PICK w \in IF Cardinality(Open(web)) < MaxSockets THEN {web}
                 ELSE {EndSession(web, x) : x \in Open(web)} :
         web' = [w EXCEPT !.sessions =
                   [x \in Open(w) \cup {fd} |-> IF x = fd THEN "http" ELSE w.sessions[x]]]
  BY DEF OpenSession
<1>2. web.server # 0 /\ fd \notin Open(web)
  BY DEF OpenSession, Serving
<1>3. /\ IsFiniteSet(Open(web)) /\ Cardinality(Open(web)) <= MaxSockets
      /\ Cardinality(Open(web)) \in Nat
  BY FS_CardinalityType DEF WebOK, SessionsOK
<1>4. /\ WebOK(w) /\ w.server = web.server /\ Open(w) \subseteq Open(web)
      /\ IsFiniteSet(Open(w)) /\ Cardinality(Open(w)) \in Nat /\ Cardinality(Open(w)) < MaxSockets
  <2>1. CASE Cardinality(Open(web)) < MaxSockets
    BY <1>1, <1>3, <2>1
  <2>2. CASE ~(Cardinality(Open(web)) < MaxSockets)
    <3>1. PICK x \in Open(web) : w = EndSession(web, x)
      BY <1>1, <2>2
    <3>2. WebOK(w) /\ Open(w) = Open(web) \ {x} /\ w.server = web.server
      BY <3>1, EndSessionOK
    <3>3. IsFiniteSet(Open(w)) /\ Cardinality(Open(w)) = Cardinality(Open(web)) - 1
      BY <1>3, <3>2, FS_RemoveElement
    <3>4. Cardinality(Open(w)) \in Nat
      BY <3>3, FS_CardinalityType
    <3> QED BY <1>3, <3>2, <3>3, <3>4, WebAssumption
  <2> QED BY <2>1, <2>2
<1> DEFINE S == [x \in Open(w) \cup {fd} |-> IF x = fd THEN "http" ELSE w.sessions[x]]
           u == web'
<1>5. /\ w \in Web /\ Open(w) \cup {fd} \in SUBSET Sockets /\ w.sessions \in [Open(w) -> Kinds]
  BY <1>4, SessionsAre DEF WebOK
<1>6. S \in [Open(w) \cup {fd} -> Kinds]
  BY <1>5 DEF Kinds
<1>7. /\ \A x \in Open(w) : S[x] = w.sessions[x]
      /\ S[fd] = "http"
  BY <1>2, <1>4
<1> HIDE DEF S
<1>8. /\ u \in Web /\ Open(u) = Open(w) \cup {fd} /\ u.sessions = S /\ u.slots = w.slots
      /\ u.count = w.count /\ u.next = w.next /\ u.raced = w.raced /\ u.does = w.does
      /\ u.at = w.at /\ u.server = w.server /\ u.handle = w.handle
  <2>1. u = [w EXCEPT !.sessions = S]
    BY <1>1 DEF S
  <2> DEFINE D == Open(w) \cup {fd}
  <2>2. D \in SUBSET Sockets /\ S \in [D -> Kinds]
    BY <1>5, <1>6
  <2> HIDE DEF u, D
  <2>3. /\ u \in Web /\ Open(u) = D /\ u.sessions = S /\ u.slots = w.slots
        /\ u.count = w.count /\ u.next = w.next /\ u.raced = w.raced /\ u.does = w.does
        /\ u.at = w.at /\ u.server = w.server /\ u.handle = w.handle
    BY <1>5, <2>1, <2>2, SessionSet
  <2> QED BY <2>3 DEF D
<1> HIDE DEF u
<1>9. SessionsOK(u)
  <2>1. IsFiniteSet(Open(u)) /\ Cardinality(Open(u)) = Cardinality(Open(w)) + 1
    BY <1>2, <1>4, <1>8, FS_AddElement
  <2>2. Cardinality(Open(u)) <= MaxSockets
    BY <1>4, <2>1, WebAssumption
  <2> QED BY <1>2, <1>4, <1>8, <2>1, <2>2 DEF WebOK, SessionsOK
<1>10. /\ ActiveSlots(u) = ActiveSlots(w) /\ FreeSlots(u) = FreeSlots(w) /\ Clients(u) = Clients(w)
  BY <1>8 DEF ActiveSlots, FreeSlots, Clients
<1>11. Websockets(u) = Websockets(w)
  BY <1>2, <1>4, <1>7, <1>8 DEF Websockets
<1>12. \A i \in ActiveSlots(w) : w.slots[i].fd \in Open(w)
  BY <1>4 DEF WebOK, ListOK
<1>13. ListOK(u)
  BY <1>4, <1>7, <1>8, <1>10 DEF WebOK, ListOK, Leaving
<1>14. ~u.raced => Exact(u)
  BY <1>4, <1>7, <1>8, <1>10, <1>11, <1>12 DEF WebOK, Exact
<1> QED
  BY <1>8, <1>9, <1>13, <1>14 DEF WebOK, u

LEMMA HandshakeOK ==
    ASSUME WebOK(web), NEW fd \in Sockets, Handshake(fd)
    PROVE  WebOK(web')
<1> DEFINE S == [web.sessions EXCEPT ![fd] = "websocket"]
           v == [web EXCEPT !.sessions = S]
<1>1. /\ web \in Web /\ Open(web) \in SUBSET Sockets /\ web.sessions \in [Open(web) -> Kinds]
      /\ fd \in Open(web) /\ web.sessions[fd] = "http"
  BY SessionsAre DEF WebOK, Handshake
<1>2. S \in [Open(web) -> Kinds]
  BY <1>1 DEF Kinds
<1>3. S[fd] = "websocket" /\ \A x \in Open(web) \ {fd} : S[x] = web.sessions[x]
  BY <1>1
<1> HIDE DEF S
<1>4. /\ v \in Web /\ Open(v) = Open(web) /\ v.sessions = S /\ v.slots = web.slots
      /\ v.count = web.count /\ v.next = web.next /\ v.raced = web.raced /\ v.does = web.does
      /\ v.at = web.at /\ v.server = web.server /\ v.handle = web.handle
  BY <1>1, <1>2, SessionSet
<1>5. web' = AddSocket(v, fd)
  BY DEF Handshake, S
<1> HIDE DEF v
<1>6. SessionsOK(v)
  BY <1>4 DEF WebOK, SessionsOK
<1>7. /\ ActiveSlots(v) = ActiveSlots(web) /\ FreeSlots(v) = FreeSlots(web)
      /\ Clients(v) = Clients(web) /\ ActiveSlots(v) \subseteq Slots
  BY <1>4 DEF ActiveSlots, FreeSlots, Clients
<1>8. fd \notin Clients(web)
  BY <1>1 DEF WebOK, ListOK, Clients
<1>9. Websockets(v) = Websockets(web) \cup {fd}
  BY <1>1, <1>3, <1>4 DEF Websockets
<1>10. ListOK(v)
  BY <1>3, <1>4, <1>7, <1>8 DEF WebOK, ListOK, Leaving, Clients
<1>11. v.count >= MaxSockets \/ v.next = NoSlot => v.raced
  <2> SUFFICES ASSUME ~v.raced, v.count >= MaxSockets \/ v.next = NoSlot PROVE FALSE
    OBVIOUS
  <2>1. v.count = Cardinality(ActiveSlots(v)) /\ v.next = Lowest(FreeSlots(v))
    BY <1>4, <1>7 DEF WebOK, Exact
  <2>2. ActiveSlots(v) # Slots
    BY <1>1, <1>7, <1>8, RoomInTheList
  <2>3. FreeSlots(v) # {} /\ FreeSlots(v) \in SUBSET Slots
    BY <2>2 DEF ActiveSlots, FreeSlots
  <2>4. v.next # NoSlot
    BY <2>1, <2>3, LowestIs, WebAssumption DEF NoSlot, Slots
  <2>5. ~(v.count >= MaxSockets)
    BY <1>7, <2>1, <2>2, SlotsAreFinite, WebAssumption
  <2> QED BY <2>4, <2>5
<1>12. CASE v.count >= MaxSockets
  <2>1. web' = v
    BY <1>5, <1>12 DEF AddSocket
  <2> QED BY <1>4, <1>6, <1>10, <1>11, <1>12, <2>1 DEF WebOK
<1>13. CASE ~(v.count >= MaxSockets) /\ v.next = NoSlot
  <2> DEFINE u == [v EXCEPT !.count = @ + BeforeTheList]
             r == [u EXCEPT !.count = @ + 1, !.next = Lowest(FreeSlots(u)), !.raced = @ \/ v.does = "removes"]
  <2>1. web' = r
    BY <1>5, <1>13 DEF AddSocket
  <2>2. v.count \in Int /\ v.count + BeforeTheList \in Int /\ v.count + BeforeTheList + 1 \in Int
    BY <1>4 DEF Web, BeforeTheList
  <2>3. /\ u \in Web /\ u.slots = v.slots /\ u.sessions = v.sessions /\ u.server = v.server
        /\ u.handle = v.handle /\ u.does = v.does /\ u.at = v.at /\ u.raced = v.raced
        /\ u.count = v.count + BeforeTheList
    BY <1>4, <2>2 DEF Web
  <2> HIDE DEF u
  <2>4. Lowest(FreeSlots(u)) \in 0 .. MaxSockets
    <3>1. FreeSlots(u) \in SUBSET Slots
      BY DEF FreeSlots
    <3>2. FreeSlots(u) = {} => Lowest(FreeSlots(u)) = 0
      BY DEF Lowest, NoSlot
    <3>3. FreeSlots(u) # {} => Lowest(FreeSlots(u)) \in Slots
      BY <3>1, LowestIs
    <3> QED BY <3>2, <3>3, WebAssumption DEF Slots
  <2>5. v.raced = TRUE
    BY <1>4, <1>11, <1>13 DEF Web
  <2>6. /\ r \in Web /\ r.slots = v.slots /\ r.sessions = v.sessions /\ r.server = v.server
        /\ r.handle = v.handle /\ r.does = v.does /\ r.at = v.at /\ r.raced
    BY <2>2, <2>3, <2>4, <2>5 DEF Web
  <2> HIDE DEF r
  <2>7. /\ ActiveSlots(r) = ActiveSlots(v) /\ Open(r) = Open(v)
        /\ \A i \in Slots : Leaving(r, i) = Leaving(v, i)
    BY <2>6 DEF ActiveSlots, FreeSlots, Open, Leaving
  <2>8. SessionsOK(r)
    BY <1>6, <2>6, <2>7 DEF SessionsOK
  <2>9. ListOK(r)
    BY <1>7, <1>10, <2>6, <2>7 DEF ListOK
  <2> QED BY <2>1, <2>6, <2>8, <2>9 DEF WebOK
<1>14. CASE ~(v.count >= MaxSockets) /\ v.next # NoSlot
  <2> DEFINE n == v.next
             slots == [v.slots EXCEPT ![n] = [fd |-> fd, active |-> TRUE]]
             u == [v EXCEPT !.slots = slots]
             r == [u EXCEPT !.count = @ + 1, !.next = Lowest(FreeSlots(u)), !.raced = @ \/ v.does = "removes"]
  <2>1. n \in Slots
    BY <1>4, <1>14, WebAssumption DEF Web, Slots, NoSlot
  <2>2. web' = r
    BY <1>4, <1>5, <1>14 DEF AddSocket, Web
  <2>3. slots \in [Slots -> [fd : Sockets \cup {0}, active : BOOLEAN]]
    BY <1>4, <2>1 DEF Web
  <2>4. /\ slots[n] = [fd |-> fd, active |-> TRUE]
        /\ \A i \in Slots \ {n} : slots[i] = v.slots[i]
    BY <1>4, <2>1 DEF Web
  <2> HIDE DEF slots
  <2>5. v.raced \in BOOLEAN /\ v.count + 1 \in Int
    BY <1>4 DEF Web
  <2>6. /\ u \in Web /\ u.sessions = v.sessions /\ u.server = v.server /\ u.handle = v.handle
        /\ u.does = v.does /\ u.at = v.at /\ u.slots = slots /\ u.count = v.count
        /\ u.raced = v.raced
    BY <1>4, <2>3, <2>5 DEF Web
  <2> HIDE DEF u
  <2>7. Lowest(FreeSlots(u)) \in 0 .. MaxSockets
    <3>1. FreeSlots(u) \in SUBSET Slots
      BY DEF FreeSlots
    <3>2. FreeSlots(u) = {} => Lowest(FreeSlots(u)) = 0
      BY DEF Lowest, NoSlot
    <3>3. FreeSlots(u) # {} => Lowest(FreeSlots(u)) \in Slots
      BY <3>1, LowestIs
    <3> QED BY <3>2, <3>3, WebAssumption DEF Slots
  <2>8. /\ r \in Web /\ r.sessions = S /\ r.server = v.server /\ r.handle = v.handle
        /\ r.does = v.does /\ r.at = v.at /\ r.slots = slots /\ r.count = v.count + 1
        /\ r.raced <=> (v.raced \/ v.does = "removes")
        /\ r.next = Lowest(FreeSlots(u))
    BY <1>4, <2>5, <2>6, <2>7 DEF Web
  <2> HIDE DEF r
  <2>9. /\ ActiveSlots(r) = ActiveSlots(v) \cup {n} /\ FreeSlots(r) = FreeSlots(u)
        /\ Open(r) = Open(v) /\ Websockets(r) = Websockets(v)
    BY <1>4, <2>1, <2>4, <2>6, <2>8 DEF ActiveSlots, FreeSlots, Open, Websockets
  <2>10. /\ r.slots[n].fd = fd
         /\ \A i \in ActiveSlots(r) : i = n \/ (i \in ActiveSlots(v) /\ r.slots[i].fd = v.slots[i].fd)
    BY <1>7, <2>4, <2>8, <2>9
  <2>11. SessionsOK(r)
    BY <1>6, <2>8, <2>9 DEF SessionsOK
  <2>12. \A i \in ActiveSlots(v) : v.slots[i].fd # fd
    BY <1>7, <1>8 DEF Clients
  <2>13. ListOK(r)
    <3>1. \A i, j \in ActiveSlots(r) : r.slots[i].fd = r.slots[j].fd => i = j
      BY <1>10, <2>10, <2>12 DEF ListOK
    <3>2. ASSUME NEW i \in ActiveSlots(r)
          PROVE  /\ r.slots[i].fd \in Open(r)
                 /\ IF Leaving(r, i) THEN r.sessions[r.slots[i].fd] # "http"
                                     ELSE r.sessions[r.slots[i].fd] = "websocket"
      BY <1>1, <1>3, <1>4, <1>10, <2>8, <2>9, <2>10 DEF ListOK, Leaving
    <3> QED BY <1>10, <2>8, <3>1, <3>2 DEF ListOK
  <2>14. ~r.raced => Exact(r)
    <3>1. SUFFICES ASSUME ~r.raced PROVE Exact(r)
      OBVIOUS
    <3>2. Exact(web) /\ v.does # "removes"
      BY <1>4, <2>8, <3>1 DEF WebOK
    <3>3. n \in FreeSlots(v)
      <4>1. n = Lowest(FreeSlots(v)) /\ FreeSlots(v) \in SUBSET Slots
        BY <1>4, <1>7, <3>2 DEF Exact, FreeSlots
      <4>2. FreeSlots(v) # {}
        BY <1>14, <4>1 DEF Lowest
      <4> QED BY <4>1, <4>2, LowestIs
    <3>4. r.count = Cardinality(ActiveSlots(r))
      <4>1. IsFiniteSet(ActiveSlots(v)) /\ n \notin ActiveSlots(v)
        BY <1>7, <3>3, SlotsAreFinite DEF ActiveSlots
      <4>2. v.count = Cardinality(ActiveSlots(v))
        BY <1>4, <1>7, <3>2 DEF Exact
      <4> QED BY <2>8, <2>9, <4>1, <4>2, FS_AddElement
    <3>5. Websockets(r) \subseteq Clients(r)
      <4>1. n \notin ActiveSlots(v)
        BY <3>3 DEF ActiveSlots
      <4>2. Clients(v) \cup {fd} \subseteq Clients(r)
        BY <1>7, <2>4, <2>8, <2>9, <2>10, <4>1 DEF Clients
      <4> QED BY <1>7, <1>9, <2>9, <3>2, <4>2 DEF Exact
    <3> QED BY <2>8, <2>9, <3>2, <3>4, <3>5 DEF Exact
  <2> QED BY <2>2, <2>8, <2>11, <2>13, <2>14 DEF WebOK
<1> QED BY <1>12, <1>13, <1>14

-------------------------------------------------------------------------------
(* The steps of commands.                                                       *)

LEMMA RestartsAsOK ==
    ASSUME WebOK(web), NEW state \in ServerStates, RestartsAs(state)
    PROVE  WebOK(web')
<1>1. web.does = "nothing" /\ web' = [web EXCEPT !.does = "stops", !.at = state] /\ web \in Web
  BY DEF RestartsAs, WebOK
<1>2. /\ web' \in Web /\ web'.sessions = web.sessions /\ web'.slots = web.slots
      /\ web'.count = web.count /\ web'.next = web.next /\ web'.raced = web.raced
      /\ web'.does = "stops" /\ web'.at = state /\ web'.server = web.server
      /\ web'.handle = web.handle
  BY <1>1 DEF Web
<1>3. SessionsOK(web')
  BY <1>2 DEF WebOK, SessionsOK, Open
<1> QED
  BY <1>1, <1>2, <1>3, ElsewhereOK

\* A server that has stopped has no sessions.
LEMMA StoppedIsEmpty ==
    ASSUME WebOK(web), Stopped
    PROVE  Open(web) = {}
BY DEF WebOK, SessionsOK, Stopped

LEMMA StartsOK ==
    ASSUME WebOK(web), Starts \/ Stops
    PROVE  WebOK(web')
<1>1. web.does = "stops" /\ Open(web) = {} /\ web \in Web
  BY StoppedIsEmpty DEF Starts, Stops, WebOK
<1>2. \/ /\ web' = [web EXCEPT !.does = "nothing", !.server = web.started + 1,
                                !.handle = web.started + 1, !.started = @ + 1, !.state = web.at]
         /\ web.at # "stopped" /\ Starts
      \/ web' = [web EXCEPT !.does = "nothing", !.server = 0, !.state = "stopped", !.started = @ + 1]
      \/ web' = [web EXCEPT !.does = "nothing", !.server = 0, !.state = "stopped"]
  BY DEF Starts, Stops
<1>3. web.started + 1 \in Nat /\ web.started + 1 # 0
  BY <1>1 DEF Web
<1>4. web.at \in ServerStates /\ "stopped" \in ServerStates
  BY <1>1 DEF WebOK, SessionsOK, ServerStates
<1>5. /\ web' \in Web /\ web'.sessions = web.sessions /\ web'.slots = web.slots
      /\ web'.count = web.count /\ web'.next = web.next /\ web'.raced = web.raced
      /\ web'.does = "nothing" /\ (web'.server = 0 \/ web'.handle = web'.server)
  <2> DEFINE n == web.started + 1
  <2>1. CASE web' = [web EXCEPT !.does = "nothing", !.server = n, !.handle = n, !.started = n,
                                !.state = web.at]
    <3> HIDE DEF n
    <3> QED BY <1>1, <1>3, <1>4, <2>1 DEF Web, n
  <2>2. CASE web' = [web EXCEPT !.does = "nothing", !.server = 0, !.state = "stopped", !.started = n]
    <3> HIDE DEF n
    <3> QED BY <1>1, <1>3, <1>4, <2>2 DEF Web, n
  <2>3. CASE web' = [web EXCEPT !.does = "nothing", !.server = 0, !.state = "stopped"]
    BY <1>1, <1>4, <2>3 DEF Web
  <2> QED BY <1>2, <2>1, <2>2, <2>3
<1>6. SessionsOK(web')
  <2>1. Open(web') = {}
    BY <1>1, <1>5 DEF Open
  <2>2. IsFiniteSet({}) /\ Cardinality({}) = 0
    BY FS_EmptySet
  <2> QED BY <1>5, <2>1, <2>2, WebAssumption DEF SessionsOK
<1> QED
  BY <1>1, <1>5, <1>6, ElsewhereOK

LEMMA BroadcastOK ==
    ASSUME WebOK(web), Broadcast
    PROVE  WebOK(web')
<1>1. web.does = "nothing" /\ web' = [web EXCEPT !.does = "sends", !.at = 1, !.sent = @ + 1]
      /\ web \in Web
  BY DEF Broadcast, WebOK
<1>0. web.sent + 1 \in Nat /\ 1 \in Nat \ {0}
  BY <1>1 DEF Web
<1>2. /\ web' \in Web /\ web'.sessions = web.sessions /\ web'.slots = web.slots
      /\ web'.count = web.count /\ web'.next = web.next /\ web'.raced = web.raced
      /\ web'.does = "sends" /\ web'.at = 1 /\ web'.server = web.server /\ web'.handle = web.handle
  <2>1. 1 \in Nat \cup ServerStates
    BY <1>0
  <2> QED BY <1>0, <1>1, <2>1 DEF Web
<1>3. SessionsOK(web')
  BY <1>2 DEF WebOK, SessionsOK, Open
<1> QED
  BY <1>0, <1>1, <1>2, <1>3, ElsewhereOK

\* The session of a client that was not reached is closed, and then its slot is.
LEMMA SendsOK ==
    ASSUME WebOK(web), Sends
    PROVE  WebOK(web')
<1>1. web.does = "sends" /\ web \in Web /\ web.at \in Nat \ {0}
  BY DEF Sends, WebOK, ListOK
<1>2. CASE \/ web' = [web EXCEPT !.does = "nothing", !.at = 0]
           \/ web' = [web EXCEPT !.at = @ + 1]
  <2>1. /\ web' \in Web /\ web'.sessions = web.sessions /\ web'.slots = web.slots
        /\ web'.count = web.count /\ web'.next = web.next /\ web'.raced = web.raced
        /\ web'.server = web.server /\ web'.handle = web.handle
        /\ web'.does = "nothing" \/ (web'.does = "sends" /\ web'.at \in Nat \ {0})
    <3>1. web.at + 1 \in Nat \ {0}
      BY <1>1
    <3>2. 0 \in Nat \cup ServerStates /\ web.at + 1 \in Nat \cup ServerStates
      BY <3>1
    <3> QED BY <1>1, <1>2, <3>1, <3>2 DEF Web
  <2>2. SessionsOK(web')
    BY <2>1 DEF WebOK, SessionsOK, Open
  <2> QED BY <1>1, <2>1, <2>2, ElsewhereOK
<1>3. CASE /\ web.at \in Slots /\ web.slots[web.at].active
           /\ web' = [web EXCEPT !.does = "removes",
                                 !.sessions = [x \in Open(web) |->
                                     IF x = web.slots[web.at].fd THEN "left" ELSE web.sessions[x]]]
  <2> DEFINE i == web.at
             fd == web.slots[i].fd
             S == [x \in Open(web) |-> IF x = fd THEN "left" ELSE web.sessions[x]]
             u == [web EXCEPT !.sessions = S]
             r == web'
  <2>1. /\ Open(web) \in SUBSET Sockets /\ web.sessions \in [Open(web) -> Kinds]
        /\ i \in ActiveSlots(web) /\ fd \in Open(web)
    BY <1>1, <1>3, SessionsAre DEF WebOK, ListOK
  <2>2. S \in [Open(web) -> Kinds] /\ S[fd] = "left"
        /\ \A x \in Open(web) \ {fd} : S[x] = web.sessions[x]
    BY <2>1 DEF Kinds
  <2>3. r = [web EXCEPT !.does = "removes", !.sessions = S]
    BY <1>3
  <2> HIDE DEF S
  <2>4. /\ u \in Web /\ Open(u) = Open(web) /\ u.sessions = S /\ u.slots = web.slots
        /\ u.count = web.count /\ u.next = web.next /\ u.raced = web.raced
        /\ u.at = web.at /\ u.server = web.server /\ u.handle = web.handle
    BY <1>1, <2>1, <2>2, SessionSet
  <2>5. r = [u EXCEPT !.does = "removes"]
    BY <1>1, <2>3 DEF Web
  <2> HIDE DEF u, r
  <2>6. /\ r \in Web /\ r.sessions = S /\ r.slots = web.slots
        /\ r.count = web.count /\ r.next = web.next /\ r.raced = web.raced /\ r.does = "removes"
        /\ r.at = web.at /\ r.server = web.server /\ r.handle = web.handle
    BY <2>4, <2>5 DEF Web
  <2>7. /\ ActiveSlots(r) = ActiveSlots(web) /\ FreeSlots(r) = FreeSlots(web)
        /\ Clients(r) = Clients(web) /\ Open(r) = Open(web)
    BY <2>2, <2>6 DEF ActiveSlots, FreeSlots, Clients, Open
  <2>8. SessionsOK(r)
    BY <2>6, <2>7 DEF WebOK, SessionsOK
  <2>9. /\ \A j, k \in ActiveSlots(web) : web.slots[j].fd = web.slots[k].fd => j = k
        /\ \A j \in ActiveSlots(web) : /\ web.slots[j].fd \in Open(web)
                                       /\ web.sessions[web.slots[j].fd] = "websocket"
    BY <1>1 DEF WebOK, ListOK, Leaving
  <2>10. \A j \in ActiveSlots(r) :
            /\ r.slots[j].fd \in Open(r)
            /\ IF Leaving(r, j) THEN r.sessions[r.slots[j].fd] # "http"
                                ELSE r.sessions[r.slots[j].fd] = "websocket"
    BY <2>1, <2>2, <2>6, <2>7, <2>9 DEF Leaving
  <2>11. ListOK(r)
    BY <1>1, <1>3, <2>6, <2>7, <2>9, <2>10 DEF ListOK
  <2>12. Websockets(r) \subseteq Websockets(web)
    BY <2>1, <2>2, <2>6, <2>7 DEF Websockets
  <2>13. ~r.raced => Exact(r)
    BY <2>1, <2>2, <2>6, <2>7, <2>12 DEF WebOK, Exact
  <2> QED BY <2>6, <2>8, <2>11, <2>13 DEF WebOK, r
<1> QED BY <1>1, <1>2, <1>3 DEF Sends

LEMMA RemovesOK ==
    ASSUME WebOK(web), Removes
    PROVE  WebOK(web')
<1> DEFINE i == web.at
           c == ClearSlot(web, i)
           r == web'
<1>1. /\ web.does = "removes" /\ web \in Web /\ i \in Slots /\ i \in Nat \ {0}
      /\ r = [c EXCEPT !.does = "sends", !.at = @ + 1]
  BY DEF Removes, WebOK, ListOK
<1>2. /\ c \in Web /\ c.sessions = web.sessions /\ c.raced = web.raced /\ c.server = web.server
      /\ c.handle = web.handle /\ c.does = web.does /\ c.at = web.at
      /\ ActiveSlots(c) = ActiveSlots(web) \ {i}
      /\ \A j \in Slots : c.slots[j].fd = web.slots[j].fd
  BY <1>1, ClearSlotOK
<1>3. /\ web.count = Cardinality(ActiveSlots(web)) /\ i \in ActiveSlots(web) =>
            c.count = Cardinality(ActiveSlots(web) \ {i})
      /\ web.next = Lowest(FreeSlots(web)) /\ i \in ActiveSlots(web) =>
            c.next = Lowest(FreeSlots(c))
  BY <1>1, ClearSlotOK
<1> HIDE DEF c
<1>4. /\ r \in Web /\ r.sessions = web.sessions /\ r.raced = web.raced /\ r.server = web.server
      /\ r.handle = web.handle /\ r.does = "sends" /\ r.at = i + 1 /\ r.slots = c.slots
      /\ r.count = c.count /\ r.next = c.next
  <2>1. i + 1 \in Nat \cup ServerStates
    BY <1>1
  <2>2. r = [c EXCEPT !.does = "sends", !.at = i + 1]
    BY <1>1, <1>2 DEF Web
  <2> HIDE DEF r
  <2> QED BY <1>2, <2>1, <2>2 DEF Web
<1> HIDE DEF r
<1>5. /\ ActiveSlots(r) = ActiveSlots(web) \ {i} /\ FreeSlots(r) = FreeSlots(c)
      /\ Open(r) = Open(web) /\ Websockets(r) = Websockets(web) /\ ActiveSlots(web) \subseteq Slots
  BY <1>2, <1>4 DEF ActiveSlots, FreeSlots, Open, Websockets
<1>6. \A j \in ActiveSlots(r) : r.slots[j].fd = web.slots[j].fd
  BY <1>2, <1>4, <1>5
<1>7. SessionsOK(r)
  BY <1>4, <1>5 DEF WebOK, SessionsOK
<1>8. ListOK(r)
  BY <1>1, <1>4, <1>5, <1>6 DEF WebOK, ListOK, Leaving
<1>9. ~r.raced => Exact(r)
  <2>1. SUFFICES ASSUME ~r.raced PROVE Exact(r)
    OBVIOUS
  <2>2. Exact(web)
    BY <1>4, <2>1 DEF WebOK
  <2>3. i \in ActiveSlots(web) /\ web.sessions[web.slots[i].fd] = "left"
    BY <1>1, <2>2 DEF Exact
  <2>4. r.count = Cardinality(ActiveSlots(r)) /\ r.next = Lowest(FreeSlots(r))
    BY <1>3, <1>4, <1>5, <2>2, <2>3 DEF Exact
  <2>5. Websockets(r) \subseteq Clients(r)
    BY <1>5, <1>6, <2>2, <2>3 DEF Exact, Clients, Websockets
  <2> QED BY <1>4, <2>4, <2>5 DEF Exact
<1> QED
  BY <1>4, <1>7, <1>8, <1>9 DEF WebOK, r

-------------------------------------------------------------------------------
(* The theorem.                                                                 *)

LEMMA WebInitOK == WebInit => WebOK(web)
<1> SUFFICES ASSUME WebInit PROVE WebOK(web)
  OBVIOUS
<1>1. /\ web.server = 0 /\ web.handle = 0 /\ web.started = 0 /\ web.state = "stopped"
      /\ web.sessions = <<>> /\ web.slots = [i \in Slots |-> [fd |-> 0, active |-> FALSE]]
      /\ web.count = 0 /\ web.next = 1 /\ web.does = "nothing" /\ web.at = 0 /\ web.sent = 0
      /\ web.raced = FALSE
  BY DEF WebInit
<1>2. Open(web) = {} /\ web.sessions \in [{} -> Kinds]
  BY <1>1 DEF Open
<1>3. web.sessions \in Sessions
  BY <1>2 DEF Sessions
<1>4. web.slots \in [Slots -> [fd : Sockets \cup {0}, active : BOOLEAN]]
  BY <1>1
<1>5. web \in Web
  BY <1>3, <1>4, WebAssumption DEF WebInit, Web, ServerStates
<1>6. SessionsOK(web)
  BY <1>1, <1>2, FS_EmptySet, WebAssumption DEF SessionsOK
<1>7. ActiveSlots(web) = {} /\ FreeSlots(web) = Slots
  BY <1>1 DEF ActiveSlots, FreeSlots
<1>8. ListOK(web)
  BY <1>1, <1>7 DEF ListOK
<1>9. Exact(web)
  <2>1. Lowest(Slots) = 1
    <3>1. 1 \in Slots /\ \A j \in Slots : 1 <= j
      BY WebAssumption DEF Slots
    <3> QED BY <3>1, LowestIsUnique
  <2>2. Websockets(web) = {}
    BY <1>2 DEF Websockets
  <2> QED BY <1>1, <1>7, <2>1, <2>2, FS_EmptySet DEF Exact
<1> QED
  BY <1>5, <1>6, <1>8, <1>9 DEF WebOK

LEMMA WebNextOK == WebOK(web) /\ [WebNext]_web => WebOK(web')
<1> SUFFICES ASSUME WebOK(web), [WebNext]_web PROVE WebOK(web')
  OBVIOUS
<1>1. ASSUME NEW fd \in Sockets, OpenSession(fd) \/ Handshake(fd) \/ CloseFrame(fd) \/ CloseSession(fd)
      PROVE  WebOK(web')
  BY <1>1, OpenSessionOK, HandshakeOK, CloseFrameOK, CloseSessionOK
<1>2. ASSUME NEW high \in BOOLEAN, Priority(high) PROVE WebOK(web')
  BY <1>2, RestartsAsOK DEF Priority, ServerStates
<1>3. CASE Enable \/ Disable
  BY <1>3, RestartsAsOK DEF Enable, Disable, ServerStates
<1>4. CASE Starts \/ Stops \/ Broadcast \/ Sends \/ Removes
  BY <1>4, StartsOK, BroadcastOK, SendsOK, RemovesOK
<1>5. CASE UNCHANGED web
  BY <1>5
<1> QED
  BY <1>1, <1>2, <1>3, <1>4, <1>5 DEF WebNext

LEMMA WebOKFollows == WebOK(web) => ListFollowsSessions
<1> SUFFICES ASSUME WebOK(web) PROVE ListFollowsSessions
  OBVIOUS
<1>1. ActiveSlots(web) # {} => web.handle = web.server
  BY DEF WebOK, ListOK, SessionsOK
<1>2. web.does # "removes" => Clients(web) \subseteq Websockets(web)
  BY DEF WebOK, ListOK, Leaving, Clients, Websockets
<1>3. ~web.raced /\ web.does # "removes" =>
         /\ Websockets(web) \subseteq Clients(web)
         /\ web.count = Cardinality(ActiveSlots(web))
         /\ web.next = Lowest(FreeSlots(web))
  BY DEF WebOK, Exact
<1> QED
  BY <1>1, <1>2, <1>3 DEF ListFollowsSessions

\* Whoever is in the list of clients has a websocket of the server broadcasts go to, and
\* unless two tasks removed a client at once, the list is complete and knows its size
\* and its first free slot (addSocket(), removeSocket(), ws_broadcast(), http_stop()).
THEOREM ListIsTheSessions == WebInit /\ [][WebNext]_web => []ListFollowsSessions
<1>1. WebOK(web) /\ [WebNext]_web => WebOK(web)'
  BY WebNextOK DEF WebOK, Web, SessionsOK, ListOK, Exact, Open, ActiveSlots, FreeSlots, Clients,
     Websockets, Leaving
<1> QED
  BY WebInitOK, <1>1, WebOKFollows, PTL
===============================================================================
