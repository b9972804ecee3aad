------------------------------- MODULE Settings -------------------------------
(* The users of the persistent settings together: the identity of the device,   *)
(* its Configs and the WiFi profile, over one file that a power loss outlives. *)
EXTENDS DeviceIdentity

-------------------------------------------------------------------------------
(* Core/ConfigManager and Config<T>: values that the firmware declares and that *)
(* are kept in the settings.  A Config binds itself when it is constructed; its *)
(* stored value is restored at startup, or when it binds if that is later.     *)

CONSTANTS
    Configs,            \* names, each the key of its stored value as well
    Values,             \* that a codec decodes, the encoded form of each being one
    FirmwareDefault,    \* the value that a Config is declared with
    MaxConfigs          \* ConfigManagerMaxConfigs

ASSUME ConfigAssumption ==
    /\ Configs \subseteq Keys
    /\ FirmwareDefault \in Values
    /\ MaxConfigs \in Nat

VARIABLES
    value,        \* of each Config in memory
    bound,        \* the Configs that are registered
    restored      \* whether every bound Config has its stored value

configVars == <<value, bound, restored>>

ConfigInit == value = [c \in Configs |-> FirmwareDefault] /\ bound = {} /\ restored = FALSE

\* A value in memory together with the store, ok when it is the stored one.
Holding(s, v, good) == [s |-> s, v |-> v, good |-> good]

\* restoreOne(): what is stored if it decodes, else the default, which is stored.
RestoreOne(s, c) ==
    IF s.dead THEN {Holding(s, value[c], FALSE)}
    ELSE IF s.mem[c] \in Values THEN {Holding(s, s.mem[c], TRUE)}
    ELSE {Holding(t, FirmwareDefault, t.ok) : t \in Set(s, c, FirmwareDefault)}

\* A power loss takes the values with it: they are declared anew.
Keep(s, vals, b, r) ==
    /\ store' = Settled(s)
    /\ value' = IF s.dead THEN [c \in Configs |-> FirmwareDefault] ELSE vals
    /\ bound' = IF s.dead THEN {} ELSE b
    /\ restored' = (r /\ ~s.dead)

\* bind(), undone if the Config cannot be restored.
Bind(c) ==
    /\ ~store.dead /\ c \notin bound /\ Cardinality(bound) < MaxConfigs
    /\ IF ~restored
       THEN Keep(store, value, bound \cup {c}, FALSE)
       ELSE \E h \in RestoreOne(store, c) :
                Keep(h.s, [value EXCEPT ![c] = h.v],
                     IF h.good THEN bound \cup {c} ELSE bound, TRUE)

\* A Config that is destroyed; one of its name starts from the default.
Unbind(c) ==
    /\ c \in bound
    /\ bound' = bound \ {c} /\ value' = [value EXCEPT ![c] = FirmwareDefault]
    /\ UNCHANGED <<store, restored>>

\* The bound Configs one after the other, whatever becomes of each.
RestoreAll(s) ==
    LET With(r, c) == {[s |-> h.s, vals |-> [r.vals EXCEPT ![c] = h.v], good |-> r.good /\ h.good] :
                           h \in RestoreOne(r.s, c)}
        all[B \in SUBSET bound] ==
            IF B = {} THEN {[s |-> s, vals |-> value, good |-> TRUE]}
            ELSE LET c == CHOOSE c \in B : TRUE IN UNION {With(r, c) : r \in all[B \ {c}]}
    IN  all[bound]

Restore ==
    /\ ~store.dead /\ ~restored
    /\ \E s \in Begin(store) :
           IF s.dead \/ ~s.ok THEN Keep(s, value, bound, FALSE)
           ELSE \E r \in RestoreAll(s) : Keep(r.s, r.vals, bound, r.good)

\* set() of the program and the command set: stored first, then in memory.
Persist(c, v) ==
    /\ c \in bound
    /\ \E s \in Set(store, c, v) :
           Keep(s, IF s.ok THEN [value EXCEPT ![c] = v] ELSE value, bound, restored)

ConfigSet(c, v) == v \in Values /\ Persist(c, v)

\* The command: a payload that does not decode, or that a handler refuses,
\* changes nothing.
ConfigCommand(c, payload, accepted) ==
    /\ payload \in Values /\ accepted
    /\ Persist(c, payload)

-------------------------------------------------------------------------------

Profile == <<"ssid", "password">>     \* the keys that the WiFi profile stores as a group
ProfileKeys == {Profile[i] : i \in DOMAIN Profile}

\* Every part has keys of its own, and what is stored is none of the marks for nothing.
Storable == Values \cup Names \cup Zones \cup Records \cup {Bad, None}

ASSUME SettingsAssumption ==
    /\ ProfileKeys \subseteq Keys
    /\ Configs \cap (ProfileKeys \cup {"name", "zone", "record"}) = {}
    /\ None \notin Records /\ None \notin [Keys -> Storable]

vars == <<store, identity, retained, configVars>>

\* A device that is new, or that has what an earlier firmware stored.
Earlier == [k \in Keys |-> IF k \in Configs \cup {"name"} THEN Bad
                          ELSE IF k = "zone" THEN DefaultZone ELSE None]

Init ==
    /\ \E f \in {None, Earlier} : store = Off(f)
    /\ IdentityInit /\ ConfigInit

PowerOn ==
    /\ store.dead /\ store' = [store EXCEPT !.dead = FALSE]
    /\ UNCHANGED <<identity, retained, configVars>>

\* A call to one part leaves the others alone, unless power is lost in it.
OfIdentity(A) == A /\ Keep(store', value, bound, restored)

OfConfigs(A) == A /\ Done(Effect(store', identity, retained, TRUE))

OfProfile(s) == Keep(s, value, bound, restored) /\ Done(Effect(s, identity, retained, s.ok))

\* saveProfile(), and WiFiStoredProfile() which stores what is not there.
SaveProfile(v) ==
    /\ store.opened
    /\ \E s \in SetMany(store, Profile, v) : OfProfile(s)

StoredProfile(v) ==
    /\ identity.begun
    /\ \E s \in GetOrSave(store, Profile[1], v) :
        \E t \in GetOrSave(s, Profile[2], v) : OfProfile(t)

Next ==
    \/ PowerOn
    \/ OfIdentity(IdentityStart)
    \/ OfIdentity(LockAddress)
    \/ \E n \in Names : OfIdentity(Adopt(n))
    \/ OfIdentity(Cleanup)
    \/ \E p \in Parts : OfIdentity(Publish(p))
    \/ \E z \in Zones : OfIdentity(SetTimezone(z))
    \/ OfIdentity(PowerLoss)
    \/ \E c \in Configs : OfConfigs(Bind(c)) \/ OfConfigs(Unbind(c))
    \/ OfConfigs(Restore)
    \/ \E c \in Configs, v \in Values : OfConfigs(ConfigSet(c, v))
    \/ \E c \in Configs, v \in Values \cup {Bad}, accepted \in BOOLEAN :
           OfConfigs(ConfigCommand(c, v, accepted))
    \/ \E v \in Values \ {FirmwareDefault} : SaveProfile(v)
    \/ StoredProfile(FirmwareDefault)

\* A cleanup that is tried often enough succeeds once: the broker takes what is
\* published and the settings are written.  Power returns.
CleanupSucceeds ==
    identity.job /\ Cleanup /\ ~store'.dead /\ identity'.parts = {} /\ UNCHANGED configVars

Spec ==
    /\ Init /\ [][Next]_vars
    /\ WF_vars(PowerOn) /\ WF_vars(OfIdentity(IdentityStart)) /\ WF_vars(OfIdentity(LockAddress))
    /\ SF_vars(CleanupSucceeds)
-------------------------------------------------------------------------------
\* What the next start finds in the file.
Stored == IF store.file = None THEN Empty ELSE store.file

\* A value in memory is the one in the file, whatever writes failed: set() takes
\* back what it could not store.  Only what is set as a group stays in memory
\* without it (StateStore::setMany).
MemoryIsStored ==
    store.opened => \A k \in Keys \ ProfileKeys :
                        store.mem[k] = Stored[k]

\* What is retained under a name the device no longer has is on record, in the
\* running program and for the next start after a power loss at any moment.
NothingForgotten ==
    \A r \in retained :
        /\ identity.begun => \/ r[1] = identity.name
                             \/ r[1] = identity.old /\ r[2] \in identity.parts
        /\ \/ r[1] = Or(Stored["name"], Names, DefaultName)
           \/ /\ Stored["record"] \in Records
              /\ r[1] = Stored["record"].old /\ r[2] \in Stored["record"].parts

\* A Config that is bound and restored has the value the next start will restore.
ConfigIsStored == restored => \A c \in bound : value[c] = Stored[c]

\* The next start, after a power loss at any moment, finds what the running device
\* has, and what it still has to clean up.
NextStartKnows == MemoryIsStored /\ ConfigIsStored /\ NothingForgotten

\* Nothing is ever withdrawn of the name the device goes by.
LiveDataStays == [][\A r \in retained \ retained' : r[1] # identity.name]_vars

\* A cleanup that has its job ends: with the job gone because nothing is left, or
\* with the power.
CleanedUp == identity.job ~> ~identity.job
===============================================================================
